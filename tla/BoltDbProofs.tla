---------------------------- MODULE BoltDbProofs ----------------------------
(***************************************************************************)
(* Proofs about BoltTx, for every number of threads and transactions and    *)
(* whatever a torn size or a deleted Meta reads as, and then about BoltDb,   *)
(* for every freelist page and every assignment of freed pages to           *)
(* transactions.  The second part puts together what the first one shows of *)
(* the locks and FreeListProofs of the lists.                               *)
(***************************************************************************)
EXTENDS BoltDb, FiniteSetTheorems, WellFoundedInduction, TLAPS

-----------------------------------------------------------------------------
(* The transactions alone: BoltTx.                                          *)

\* A set of natural numbers has a least element.
LEMMA FirstNat ==
  ASSUME NEW T, T \subseteq Nat, T # {}
  PROVE  \E n \in T : \A k \in T : n <= k
<1>1. PICK n \in T : \A k \in T : ~(<<k, n>> \in OpToRel(<, Nat))
  BY NatLessThanWellFounded, WFMin
<1>2. \A k \in T : ~(k < n)
  BY <1>1 DEF OpToRel
<1> QED
  BY <1>2

\* push_back adds exactly the new transaction to the registered ones.
LEMMA RegisteredAppend ==
  ASSUME NEW s \in Seq(TxIds), NEW x \in TxIds
  PROVE  {Append(s, x)[i] : i \in 1..Len(Append(s, x))} = {s[i] : i \in 1..Len(s)} \cup {x}
<1>1. Len(Append(s, x)) = Len(s) + 1 /\ Len(s) \in Nat
  OBVIOUS
<1>2. \A i \in 1..Len(s) : Append(s, x)[i] = s[i]
  OBVIOUS
<1>3. Append(s, x)[Len(s) + 1] = x
  OBVIOUS
<1>4. 1..(Len(s) + 1) = 1..Len(s) \cup {Len(s) + 1}
  BY <1>1
<1> QED
  BY <1>1, <1>2, <1>3, <1>4

\* Every step of db.cpp and tx.cpp keeps the types; push_back and commit need that
\* the calling thread has a Tx.
LEMMA TypeStep == TypeOK /\ CurInv /\ [Next]_vars => TypeOK'
<1> SUFFICES ASSUME TypeOK, CurInv, [Next]_vars PROVE TypeOK'
  OBVIOUS
<1> USE TxAssumption
<1>1. CASE UNCHANGED vars
  BY <1>1 DEF vars, dbVars, txVars, threadVars, TypeOK, PCs, ReadPCs, WritePCs, ClosePCs
<1>2. ASSUME NEW t \in Threads, BeginTx(t) PROVE TypeOK'
  BY <1>2 DEF BeginTx, Transition, dbVars, txVars, TypeOK, PCs, ReadPCs, WritePCs, ClosePCs
<1>3. ASSUME NEW t \in Threads, LockMetaForRead(t) PROVE TypeOK'
  BY <1>3 DEF LockMetaForRead, Transition, txVars, TypeOK, PCs, ReadPCs, WritePCs, ClosePCs
<1>4. ASSUME NEW t \in Threads, LockSharedMmap(t) PROVE TypeOK'
  BY <1>4 DEF LockSharedMmap, Transition, txVars, TypeOK, PCs, ReadPCs, WritePCs, ClosePCs
<1>5. ASSUME NEW t \in Threads, NewReadTx(t) PROVE TypeOK'
  <2>1. 0 \in Txids /\ 1 \in Txids /\ meta.txid = 0
    BY DEF Txids, meta
  <2>2. txid' = [txid EXCEPT ![cur[t]] = 0]
    BY <1>5, <2>1 DEF NewReadTx, Tx
  <2>3. txid' \in [TxIds -> Txids]
    BY <2>1, <2>2 DEF TypeOK
  <2> QED
    BY <1>5, <2>3 DEF NewReadTx, Transition, Tx, dbVars, TypeOK, PCs, ReadPCs, WritePCs
<1>6. ASSUME NEW t \in Threads, PushTx(t) PROVE TypeOK'
  BY <1>6 DEF PushTx, Transition, txVars, CurInv, TypeOK, PCs, ReadPCs, WritePCs, ClosePCs
<1>7. ASSUME NEW t \in Threads, StatBeginTx(t) PROVE TypeOK'
  <2>1. open_tx_n' \in Garbage \/ open_tx_n' = Len(txs)
    BY <1>7 DEF StatBeginTx
  <2>2. open_tx_n' \in Int /\ tx_n' \in Nat
    <3>1. Len(txs) \in Int
      BY DEF TypeOK
    <3>2. open_tx_n' \in Int
      BY <2>1, <3>1
    <3>3. tx_n' = tx_n + 1 /\ tx_n \in Nat
      BY <1>7 DEF StatBeginTx, TypeOK
    <3> QED
      BY <3>2, <3>3
  <2> QED
    BY <1>7, <2>2 DEF StatBeginTx, Transition, txVars, TypeOK, PCs, ReadPCs
<1>8. ASSUME NEW t \in Threads, BeginRWTx(t) PROVE TypeOK'
  BY <1>8 DEF BeginRWTx, Transition, dbVars, txVars, TypeOK, PCs, ReadPCs, WritePCs,
      ClosePCs
<1>9. ASSUME NEW t \in Threads, LockWriter(t) PROVE TypeOK'
  BY <1>9 DEF LockWriter, Transition, txVars, TypeOK, PCs, ReadPCs, WritePCs, ClosePCs
<1>10. ASSUME NEW t \in Threads, LockMetaForWrite(t) PROVE TypeOK'
  BY <1>10 DEF LockMetaForWrite, Transition, txVars, TypeOK, PCs, ReadPCs, WritePCs,
      ClosePCs
<1>11. ASSUME NEW t \in Threads, NewWriteTx(t) PROVE TypeOK'
  <2>1. 0 \in Txids /\ 1 \in Txids /\ meta.txid = 0
    BY DEF Txids, meta
  <2>2. txid' = [txid EXCEPT ![cur[t]] = 1]
    BY <1>11, <2>1 DEF NewWriteTx, Tx
  <2>3. txid' \in [TxIds -> Txids]
    BY <2>1, <2>2 DEF TypeOK
  <2> QED
    BY <1>11, <2>3 DEF NewWriteTx, Transition, Tx, dbVars, TypeOK, PCs, ReadPCs, WritePCs
<1>12. ASSUME NEW t \in Threads, ScanReaders(t) PROVE TypeOK'
  <2>1. Len(txs) \in 0..Len(txs)
    BY DEF TypeOK
  <2>2. minid' \in [Threads -> Txids]
    BY <1>12, <2>1 DEF ScanReaders, TypeOK
  <2> QED
    BY <1>12, <2>2 DEF ScanReaders, Transition, dbVars, txVars, TypeOK, PCs, WritePCs
<1>13. ASSUME NEW t \in Threads, ReleasePending(t) PROVE TypeOK'
  <2>1. pc' \in [Threads -> PCs]
    BY <1>13 DEF ReleasePending, Transition, TypeOK, PCs
  <2>2. minid[t] > 0 => minid[t] - 1 \in Txids
    BY DEF TypeOK, Txids
  <2>3. released' \in [by : TxIds \cup {NoTx}, upto : Txids]
    BY <1>13, <2>2 DEF ReleasePending, TypeOK
  <2> QED
    BY <1>13, <2>1, <2>3 DEF ReleasePending, txVars, TypeOK
<1>14. ASSUME NEW t \in Threads, UpdateReturns(t) PROVE TypeOK'
  BY <1>14 DEF UpdateReturns, Transition, dbVars, txVars, TypeOK, PCs, ReadPCs, WritePCs,
      ClosePCs
<1>15. ASSUME NEW t \in Threads, Commit(t) PROVE TypeOK'
  BY <1>15 DEF Commit, Transition, dbVars, CurInv, TypeOK, PCs, ReadPCs, WritePCs, ClosePCs
<1>16. ASSUME NEW t \in Threads, RollbackReader(t) PROVE TypeOK'
  BY <1>16 DEF RollbackReader, Transition, dbVars, TypeOK, PCs, ReadPCs, WritePCs, ClosePCs
<1>17. ASSUME NEW t \in Threads, RollbackWriter(t) PROVE TypeOK'
  BY <1>17 DEF RollbackWriter, Transition, dbVars, txVars, TypeOK, PCs, ReadPCs, WritePCs,
      ClosePCs
<1>18. ASSUME NEW t \in Threads, ClearRwtx(t) PROVE TypeOK'
  BY <1>18 DEF ClearRwtx, Transition, txVars, TypeOK, PCs, ReadPCs, WritePCs, ClosePCs
<1>19. ASSUME NEW t \in Threads, UnlockWriter(t) PROVE TypeOK'
  BY <1>19 DEF UnlockWriter, Transition, txVars, TypeOK, PCs, ReadPCs, WritePCs, ClosePCs
<1>20. ASSUME NEW t \in Threads, CloseEnd(t) PROVE TypeOK'
  BY <1>20 DEF CloseEnd, Transition, dbVars, TypeOK, PCs, ReadPCs, WritePCs, ClosePCs
<1>21. ASSUME NEW t \in Threads, Drop(t) PROVE TypeOK'
  BY <1>21 DEF Drop, Transition, dbVars, txVars, TypeOK, PCs, ReadPCs, WritePCs, ClosePCs
<1>22. ASSUME NEW t \in Threads, NullRootTrap(t) PROVE TypeOK'
  BY <1>22 DEF NullRootTrap, dbVars, txVars, threadVars, TypeOK, PCs, ReadPCs, WritePCs,
      ClosePCs
<1>23. ASSUME NEW t \in Threads, ManagedAssert(t) PROVE TypeOK'
  BY <1>23 DEF ManagedAssert, dbVars, txVars, threadVars, TypeOK, PCs, ReadPCs, WritePCs,
      ClosePCs
<1>24. ASSUME NEW t \in Threads, BeginTxThrows(t) PROVE TypeOK'
  <2>1. 0 \in Txids /\ meta.txid = 0
    BY DEF Txids, meta
  <2>2. /\ state' \in [TxIds -> {"none", "open", "closed"}]
        /\ writable' \in [TxIds -> BOOLEAN]
        /\ txid' \in [TxIds -> Txids]
    <3>1. CASE Tx(cur[t], FALSE)
      <4>1. txid' = [txid EXCEPT ![cur[t]] = 0]
        BY <2>1, <3>1 DEF Tx
      <4> QED
        BY <2>1, <3>1, <4>1 DEF Tx, TypeOK
    <3>2. CASE UNCHANGED <<state, writable, txid>>
      BY <3>2 DEF TypeOK
    <3> QED
      BY <1>24, <3>1, <3>2 DEF BeginTxThrows
  <2> QED
    BY <1>24, <2>2 DEF BeginTxThrows, Transition, dbVars, TypeOK, PCs
<1>25. ASSUME NEW t \in Threads, BeginRWTxThrows(t) PROVE TypeOK'
  BY <1>25 DEF BeginRWTxThrows, Transition, dbVars, TypeOK, PCs, ReadPCs, WritePCs,
      ClosePCs, Txids
<1>26. ASSUME NEW t \in Threads, ReleaseThrows(t) PROVE TypeOK'
  BY <1>26 DEF ReleaseThrows, Transition, txVars, TypeOK, PCs, ReadPCs, WritePCs, ClosePCs,
      Txids
<1> QED
  BY <1>1, <1>2, <1>3, <1>4, <1>5, <1>6, <1>7, <1>8, <1>9, <1>10, <1>11, <1>12, <1>13,
      <1>14, <1>15, <1>16, <1>17, <1>18, <1>19, <1>20, <1>21, <1>22, <1>23,
      <1>24, <1>25, <1>26 DEF Next, Step,
      BeginReadStep, BeginWriteStep, CloseStep

\* Every step keeps CurInv: a Tx is worked on by one thread.
LEMMA CurStep == TypeOK /\ CurInv /\ [Next]_vars => CurInv'
<1> SUFFICES ASSUME TypeOK, CurInv, [Next]_vars PROVE CurInv'
  OBVIOUS
<1> USE TxAssumption
<1>1. CASE UNCHANGED vars
  BY <1>1 DEF vars, dbVars, txVars, threadVars, TypeOK, CurInv, Fresh
<1>2. ASSUME NEW t \in Threads, BeginTx(t) PROVE CurInv'
  BY <1>2 DEF BeginTx, Transition, dbVars, txVars, TypeOK, CurInv, Fresh
<1>3. ASSUME NEW t \in Threads, LockMetaForRead(t) PROVE CurInv'
  BY <1>3 DEF LockMetaForRead, Transition, txVars, TypeOK, CurInv, Fresh
<1>4. ASSUME NEW t \in Threads, LockSharedMmap(t) PROVE CurInv'
  BY <1>4 DEF LockSharedMmap, Transition, txVars, TypeOK, CurInv, Fresh
<1>5. ASSUME NEW t \in Threads, NewReadTx(t) PROVE CurInv'
  BY <1>5 DEF NewReadTx, Transition, Tx, meta, dbVars, TypeOK, CurInv, Fresh
<1>6. ASSUME NEW t \in Threads, PushTx(t) PROVE CurInv'
  BY <1>6 DEF PushTx, Transition, txVars, TypeOK, CurInv, Fresh
<1>7. ASSUME NEW t \in Threads, StatBeginTx(t) PROVE CurInv'
  BY <1>7 DEF StatBeginTx, Transition, txVars, TypeOK, CurInv, Fresh
<1>8. ASSUME NEW t \in Threads, BeginRWTx(t) PROVE CurInv'
  BY <1>8 DEF BeginRWTx, Transition, dbVars, txVars, TypeOK, CurInv, Fresh
<1>9. ASSUME NEW t \in Threads, LockWriter(t) PROVE CurInv'
  BY <1>9 DEF LockWriter, Transition, txVars, TypeOK, CurInv, Fresh
<1>10. ASSUME NEW t \in Threads, LockMetaForWrite(t) PROVE CurInv'
  BY <1>10 DEF LockMetaForWrite, Transition, txVars, TypeOK, CurInv, Fresh
<1>11. ASSUME NEW t \in Threads, NewWriteTx(t) PROVE CurInv'
  BY <1>11 DEF NewWriteTx, Transition, Tx, meta, TypeOK, CurInv, Fresh
<1>12. ASSUME NEW t \in Threads, ScanReaders(t) PROVE CurInv'
  BY <1>12 DEF ScanReaders, Transition, dbVars, txVars, TypeOK, CurInv, Fresh
<1>13. ASSUME NEW t \in Threads, ReleasePending(t) PROVE CurInv'
  BY <1>13 DEF ReleasePending, Transition, txVars, TypeOK, CurInv, Fresh
<1>14. ASSUME NEW t \in Threads, UpdateReturns(t) PROVE CurInv'
  BY <1>14 DEF UpdateReturns, Transition, dbVars, txVars, TypeOK, CurInv, Fresh
<1>15. ASSUME NEW t \in Threads, Commit(t) PROVE CurInv'
  BY <1>15 DEF Commit, Transition, dbVars, TypeOK, CurInv, Fresh
<1>16. ASSUME NEW t \in Threads, RollbackReader(t) PROVE CurInv'
  BY <1>16 DEF RollbackReader, Transition, dbVars, TypeOK, CurInv, Fresh
<1>17. ASSUME NEW t \in Threads, RollbackWriter(t) PROVE CurInv'
  BY <1>17 DEF RollbackWriter, Transition, dbVars, txVars, TypeOK, CurInv, Fresh
<1>18. ASSUME NEW t \in Threads, ClearRwtx(t) PROVE CurInv'
  BY <1>18 DEF ClearRwtx, Transition, txVars, TypeOK, CurInv, Fresh
<1>19. ASSUME NEW t \in Threads, UnlockWriter(t) PROVE CurInv'
  BY <1>19 DEF UnlockWriter, Transition, txVars, TypeOK, CurInv, Fresh
<1>20. ASSUME NEW t \in Threads, CloseEnd(t) PROVE CurInv'
  BY <1>20 DEF CloseEnd, Transition, dbVars, TypeOK, CurInv, Fresh
<1>21. ASSUME NEW t \in Threads, Drop(t) PROVE CurInv'
  BY <1>21 DEF Drop, Transition, dbVars, txVars, TypeOK, CurInv, Fresh
<1>22. ASSUME NEW t \in Threads, NullRootTrap(t) PROVE CurInv'
  BY <1>22 DEF NullRootTrap, dbVars, txVars, threadVars, TypeOK, CurInv, Fresh
<1>23. ASSUME NEW t \in Threads, ManagedAssert(t) PROVE CurInv'
  BY <1>23 DEF ManagedAssert, dbVars, txVars, threadVars, TypeOK, CurInv, Fresh
<1>24. ASSUME NEW t \in Threads, BeginTxThrows(t) PROVE CurInv'
  BY <1>24 DEF BeginTxThrows, Transition, Tx, meta, dbVars, TypeOK, CurInv, Fresh
<1>25. ASSUME NEW t \in Threads, BeginRWTxThrows(t) PROVE CurInv'
  BY <1>25 DEF BeginRWTxThrows, Transition, dbVars, TypeOK, CurInv, Fresh
<1>26. ASSUME NEW t \in Threads, ReleaseThrows(t) PROVE CurInv'
  BY <1>26 DEF ReleaseThrows, Transition, txVars, TypeOK, CurInv, Fresh
<1> QED
  BY <1>1, <1>2, <1>3, <1>4, <1>5, <1>6, <1>7, <1>8, <1>9, <1>10, <1>11, <1>12, <1>13,
      <1>14, <1>15, <1>16, <1>17, <1>18, <1>19, <1>20, <1>21, <1>22, <1>23,
      <1>24, <1>25, <1>26 DEF Next, Step,
      BeginReadStep, BeginWriteStep, CloseStep

\* Every step keeps LockInv: a mutex is held where the code says it is.
LEMMA LockStep == TypeOK /\ CurInv /\ LockInv /\ [Next]_vars => LockInv'
<1> SUFFICES ASSUME TypeOK, CurInv, LockInv, [Next]_vars PROVE LockInv'
  OBVIOUS
<1> USE TxAssumption
<1>1. CASE UNCHANGED vars
  BY <1>1 DEF vars, dbVars, txVars, threadVars, TypeOK, CurInv, LockInv, InMeta, InWrite
<1>2. ASSUME NEW t \in Threads, BeginTx(t) PROVE LockInv'
  BY <1>2 DEF BeginTx, Transition, dbVars, txVars, TypeOK, CurInv, LockInv, InMeta, InWrite
<1>3. ASSUME NEW t \in Threads, LockMetaForRead(t) PROVE LockInv'
  BY <1>3 DEF LockMetaForRead, Transition, txVars, TypeOK, CurInv, LockInv, InMeta, InWrite
<1>4. ASSUME NEW t \in Threads, LockSharedMmap(t) PROVE LockInv'
  BY <1>4 DEF LockSharedMmap, Transition, txVars, TypeOK, CurInv, LockInv, InMeta, InWrite
<1>5. ASSUME NEW t \in Threads, NewReadTx(t) PROVE LockInv'
  BY <1>5 DEF NewReadTx, Transition, Tx, meta, dbVars, TypeOK, CurInv, LockInv, InMeta, InWrite
<1>6. ASSUME NEW t \in Threads, PushTx(t) PROVE LockInv'
  BY <1>6 DEF PushTx, Transition, txVars, TypeOK, CurInv, LockInv, InMeta, InWrite
<1>7. ASSUME NEW t \in Threads, StatBeginTx(t) PROVE LockInv'
  BY <1>7 DEF StatBeginTx, Transition, txVars, TypeOK, CurInv, LockInv, InMeta, InWrite
<1>8. ASSUME NEW t \in Threads, BeginRWTx(t) PROVE LockInv'
  BY <1>8 DEF BeginRWTx, Transition, dbVars, txVars, TypeOK, CurInv, LockInv, InMeta, InWrite
<1>9. ASSUME NEW t \in Threads, LockWriter(t) PROVE LockInv'
  BY <1>9 DEF LockWriter, Transition, txVars, TypeOK, CurInv, LockInv, InMeta, InWrite
<1>10. ASSUME NEW t \in Threads, LockMetaForWrite(t) PROVE LockInv'
  BY <1>10 DEF LockMetaForWrite, Transition, txVars, TypeOK, CurInv, LockInv, InMeta, InWrite
<1>11. ASSUME NEW t \in Threads, NewWriteTx(t) PROVE LockInv'
  BY <1>11 DEF NewWriteTx, Transition, Tx, meta, TypeOK, CurInv, LockInv, InMeta, InWrite
<1>12. ASSUME NEW t \in Threads, ScanReaders(t) PROVE LockInv'
  BY <1>12 DEF ScanReaders, Transition, dbVars, txVars, TypeOK, CurInv, LockInv, InMeta, InWrite
<1>13. ASSUME NEW t \in Threads, ReleasePending(t) PROVE LockInv'
  <2>1. \A s \in Threads : s # t => pc'[s] = pc[s]
    BY <1>13 DEF ReleasePending, Transition, TypeOK
  <2>2. pc[t] = "w_release" /\ pc'[t] \in {"have", "fn"}
    BY <1>13 DEF ReleasePending, Transition, TypeOK
  <2>3. UNCHANGED <<cur, state, writable, rwlock, readThrew, writeThrew>>
    BY <1>13 DEF ReleasePending, txVars
  <2>5. readThrew = NoTx /\ ~writeThrew
    BY <2>2 DEF LockInv, InMeta, InWrite
  <2>4. \A s \in Threads : s # t =>
          pc[s] \notin {"r_mmap", "r_new", "r_push", "w_new", "w_scan", "w_release"}
    BY <2>2 DEF LockInv, InMeta, InWrite
  <2> QED
    BY <2>1, <2>2, <2>3, <2>4, <2>5 DEF LockInv, InMeta, InWrite
<1>14. ASSUME NEW t \in Threads, UpdateReturns(t) PROVE LockInv'
  BY <1>14 DEF UpdateReturns, Transition, dbVars, txVars, TypeOK, CurInv, LockInv, InMeta,
      InWrite
<1>15. ASSUME NEW t \in Threads, Commit(t) PROVE LockInv'
  BY <1>15 DEF Commit, Transition, dbVars, TypeOK, CurInv, LockInv, InMeta, InWrite
<1>16. ASSUME NEW t \in Threads, RollbackReader(t) PROVE LockInv'
  BY <1>16 DEF RollbackReader, Transition, dbVars, TypeOK, CurInv, LockInv, InMeta, InWrite
<1>17. ASSUME NEW t \in Threads, RollbackWriter(t) PROVE LockInv'
  BY <1>17 DEF RollbackWriter, Transition, dbVars, txVars, TypeOK, CurInv, LockInv, InMeta,
      InWrite
<1>18. ASSUME NEW t \in Threads, ClearRwtx(t) PROVE LockInv'
  BY <1>18 DEF ClearRwtx, Transition, txVars, TypeOK, CurInv, LockInv, InMeta, InWrite
<1>19. ASSUME NEW t \in Threads, UnlockWriter(t) PROVE LockInv'
  BY <1>19 DEF UnlockWriter, Transition, txVars, TypeOK, CurInv, LockInv, InMeta, InWrite
<1>20. ASSUME NEW t \in Threads, CloseEnd(t) PROVE LockInv'
  BY <1>20 DEF CloseEnd, Transition, dbVars, TypeOK, CurInv, LockInv, InMeta, InWrite
<1>21. ASSUME NEW t \in Threads, Drop(t) PROVE LockInv'
  BY <1>21 DEF Drop, Transition, dbVars, txVars, TypeOK, CurInv, LockInv, InMeta, InWrite
<1>22. ASSUME NEW t \in Threads, NullRootTrap(t) PROVE LockInv'
  BY <1>22 DEF NullRootTrap, dbVars, txVars, threadVars, TypeOK, CurInv, LockInv, InMeta,
      InWrite
<1>23. ASSUME NEW t \in Threads, ManagedAssert(t) PROVE LockInv'
  BY <1>23 DEF ManagedAssert, dbVars, txVars, threadVars, TypeOK, CurInv, LockInv, InMeta,
      InWrite
<1>24. ASSUME NEW t \in Threads, BeginTxThrows(t) PROVE LockInv'
  BY <1>24 DEF BeginTxThrows, Transition, Tx, meta, dbVars, TypeOK, CurInv, LockInv, InMeta,
      InWrite
<1>25. ASSUME NEW t \in Threads, BeginRWTxThrows(t) PROVE LockInv'
  BY <1>25 DEF BeginRWTxThrows, Transition, dbVars, TypeOK, CurInv, LockInv, InMeta, InWrite
<1>26. ASSUME NEW t \in Threads, ReleaseThrows(t) PROVE LockInv'
  BY <1>26 DEF ReleaseThrows, Transition, txVars, TypeOK, CurInv, LockInv, InMeta, InWrite
<1> QED
  BY <1>1, <1>2, <1>3, <1>4, <1>5, <1>6, <1>7, <1>8, <1>9, <1>10, <1>11, <1>12, <1>13,
      <1>14, <1>15, <1>16, <1>17, <1>18, <1>19, <1>20, <1>21, <1>22, <1>23,
      <1>24, <1>25, <1>26 DEF Next, Step,
      BeginReadStep, BeginWriteStep, CloseStep

\* Every step keeps RwtxInv: rwtx_ is the one writer that is not being closed.
LEMMA RwtxStep == TypeOK /\ CurInv /\ LockInv /\ RwtxInv /\ [Next]_vars => RwtxInv'
<1> SUFFICES ASSUME TypeOK, CurInv, LockInv, RwtxInv, [Next]_vars PROVE RwtxInv'
  OBVIOUS
<1> USE TxAssumption
<1>1. CASE UNCHANGED vars
  BY <1>1 DEF vars, dbVars, txVars, threadVars, TypeOK, CurInv, LockInv, InMeta, InWrite,
      RwtxInv, OneWriter, Closing
<1>2. ASSUME NEW t \in Threads, BeginTx(t) PROVE RwtxInv'
  BY <1>2 DEF BeginTx, Transition, dbVars, txVars, TypeOK, CurInv, LockInv, InMeta, InWrite,
      RwtxInv, OneWriter, Closing
<1>3. ASSUME NEW t \in Threads, LockMetaForRead(t) PROVE RwtxInv'
  BY <1>3 DEF LockMetaForRead, Transition, txVars, TypeOK, CurInv, LockInv, InMeta, InWrite,
      RwtxInv, OneWriter, Closing
<1>4. ASSUME NEW t \in Threads, LockSharedMmap(t) PROVE RwtxInv'
  BY <1>4 DEF LockSharedMmap, Transition, txVars, TypeOK, CurInv, LockInv, InMeta, InWrite,
      RwtxInv, OneWriter, Closing
<1>5. ASSUME NEW t \in Threads, NewReadTx(t) PROVE RwtxInv'
  BY <1>5 DEF NewReadTx, Transition, Tx, meta, dbVars, TypeOK, CurInv, LockInv, InMeta,
      InWrite, RwtxInv, OneWriter, Closing
<1>6. ASSUME NEW t \in Threads, PushTx(t) PROVE RwtxInv'
  BY <1>6 DEF PushTx, Transition, txVars, TypeOK, CurInv, LockInv, InMeta, InWrite, RwtxInv,
      OneWriter, Closing
<1>7. ASSUME NEW t \in Threads, StatBeginTx(t) PROVE RwtxInv'
  BY <1>7 DEF StatBeginTx, Transition, txVars, TypeOK, CurInv, LockInv, InMeta, InWrite,
      RwtxInv, OneWriter, Closing
<1>8. ASSUME NEW t \in Threads, BeginRWTx(t) PROVE RwtxInv'
  BY <1>8 DEF BeginRWTx, Transition, dbVars, txVars, TypeOK, CurInv, LockInv, InMeta,
      InWrite, RwtxInv, OneWriter, Closing
<1>9. ASSUME NEW t \in Threads, LockWriter(t) PROVE RwtxInv'
  BY <1>9 DEF LockWriter, Transition, txVars, TypeOK, CurInv, LockInv, InMeta, InWrite,
      RwtxInv, OneWriter, Closing
<1>10. ASSUME NEW t \in Threads, LockMetaForWrite(t) PROVE RwtxInv'
  BY <1>10 DEF LockMetaForWrite, Transition, txVars, TypeOK, CurInv, LockInv, InMeta,
      InWrite, RwtxInv, OneWriter, Closing
<1>11. ASSUME NEW t \in Threads, NewWriteTx(t) PROVE RwtxInv'
  BY <1>11 DEF NewWriteTx, Transition, Tx, meta, TypeOK, CurInv, LockInv, InMeta, InWrite,
      RwtxInv, OneWriter, Closing
<1>12. ASSUME NEW t \in Threads, ScanReaders(t) PROVE RwtxInv'
  BY <1>12 DEF ScanReaders, Transition, dbVars, txVars, TypeOK, CurInv, LockInv, InMeta,
      InWrite, RwtxInv, OneWriter, Closing
<1>13. ASSUME NEW t \in Threads, ReleasePending(t) PROVE RwtxInv'
  BY <1>13 DEF ReleasePending, Transition, txVars, TypeOK, CurInv, LockInv, InMeta, InWrite,
      RwtxInv, OneWriter, Closing
<1>14. ASSUME NEW t \in Threads, UpdateReturns(t) PROVE RwtxInv'
  BY <1>14 DEF UpdateReturns, Transition, dbVars, txVars, TypeOK, CurInv, LockInv, InMeta,
      InWrite, RwtxInv, OneWriter, Closing
<1>15. ASSUME NEW t \in Threads, Commit(t) PROVE RwtxInv'
  BY <1>15 DEF Commit, Transition, dbVars, TypeOK, CurInv, LockInv, InMeta, InWrite,
      RwtxInv, OneWriter, Closing
<1>16. ASSUME NEW t \in Threads, RollbackReader(t) PROVE RwtxInv'
  BY <1>16 DEF RollbackReader, Transition, dbVars, TypeOK, CurInv, LockInv, InMeta, InWrite,
      RwtxInv, OneWriter, Closing
<1>17. ASSUME NEW t \in Threads, RollbackWriter(t) PROVE RwtxInv'
  BY <1>17 DEF RollbackWriter, Transition, dbVars, txVars, TypeOK, CurInv, LockInv, InMeta,
      InWrite, RwtxInv, OneWriter, Closing
<1>18. ASSUME NEW t \in Threads, ClearRwtx(t) PROVE RwtxInv'
  BY <1>18 DEF ClearRwtx, Transition, txVars, TypeOK, CurInv, LockInv, InMeta, InWrite,
      RwtxInv, OneWriter, Closing
<1>19. ASSUME NEW t \in Threads, UnlockWriter(t) PROVE RwtxInv'
  BY <1>19 DEF UnlockWriter, Transition, txVars, TypeOK, CurInv, LockInv, InMeta, InWrite,
      RwtxInv, OneWriter, Closing
<1>20. ASSUME NEW t \in Threads, CloseEnd(t) PROVE RwtxInv'
  BY <1>20 DEF CloseEnd, Transition, dbVars, TypeOK, CurInv, LockInv, InMeta, InWrite,
      RwtxInv, OneWriter, Closing
<1>21. ASSUME NEW t \in Threads, Drop(t) PROVE RwtxInv'
  BY <1>21 DEF Drop, Transition, dbVars, txVars, TypeOK, CurInv, LockInv, InMeta, InWrite,
      RwtxInv, OneWriter, Closing
<1>22. ASSUME NEW t \in Threads, NullRootTrap(t) PROVE RwtxInv'
  BY <1>22 DEF NullRootTrap, dbVars, txVars, threadVars, TypeOK, CurInv, LockInv, InMeta,
      InWrite, RwtxInv, OneWriter, Closing
<1>23. ASSUME NEW t \in Threads, ManagedAssert(t) PROVE RwtxInv'
  BY <1>23 DEF ManagedAssert, dbVars, txVars, threadVars, TypeOK, CurInv, LockInv, InMeta,
      InWrite, RwtxInv, OneWriter, Closing
<1>24. ASSUME NEW t \in Threads, BeginTxThrows(t) PROVE RwtxInv'
  BY <1>24 DEF BeginTxThrows, Transition, Tx, meta, dbVars, TypeOK, CurInv, LockInv, InMeta,
      InWrite, RwtxInv, OneWriter, Closing
<1>25. ASSUME NEW t \in Threads, BeginRWTxThrows(t) PROVE RwtxInv'
  BY <1>25 DEF BeginRWTxThrows, Transition, dbVars, TypeOK, CurInv, LockInv, InMeta,
      InWrite, RwtxInv, OneWriter, Closing
<1>26. ASSUME NEW t \in Threads, ReleaseThrows(t) PROVE RwtxInv'
  BY <1>26 DEF ReleaseThrows, Transition, txVars, TypeOK, CurInv, LockInv, InMeta, InWrite,
      RwtxInv, OneWriter, Closing
<1> QED
  BY <1>1, <1>2, <1>3, <1>4, <1>5, <1>6, <1>7, <1>8, <1>9, <1>10, <1>11, <1>12, <1>13,
      <1>14, <1>15, <1>16, <1>17, <1>18, <1>19, <1>20, <1>21, <1>22, <1>23,
      <1>24, <1>25, <1>26 DEF Next, Step,
      BeginReadStep, BeginWriteStep, CloseStep

\* The loop of begin_rwtx does not leave zero again once it has met an open reader,
\* whatever the deleted Metas after it read as (db.cpp:229-233).
LEMMA ScanStopsAtZero ==
  ASSUME TypeOK, NEW min \in [0..Len(txs) -> Txids],
         \A i \in 1..Len(txs) : min[i] \in Lowered(min[i - 1], txs[i]),
         NEW i \in 1..Len(txs), state[txs[i]] = "open", txid[txs[i]] = 0
  PROVE  min[Len(txs)] = 0
<1> DEFINE T == {k \in i..Len(txs) : min[k] # 0}
<1>1. Len(txs) \in Nat /\ i \in Nat /\ \A k \in i..Len(txs) : k \in 1..Len(txs)
  BY DEF TypeOK
<1>2. \A k \in 1..Len(txs) : txs[k] \in TxIds
  BY DEF TypeOK
<1>3. \A k \in 1..Len(txs) : txid[txs[k]] \in Nat
  BY <1>2 DEF TypeOK, Txids
<1>4. \A k \in 0..Len(txs) : min[k] \in Nat
  BY TxAssumption DEF Txids
<1>5. \A k \in 1..Len(txs) : k - 1 \in 0..Len(txs)
  BY <1>1
<1>6. min[i] = 0
  <2>1. min[i] \in Lowered(min[i - 1], txs[i]) /\ min[i - 1] \in Nat
    BY <1>4, <1>5
  <2> QED
    BY <2>1 DEF Lowered
<1>7. ASSUME NEW n \in 1..Len(txs), min[n - 1] = 0 PROVE min[n] = 0
  <2>1. min[n] \in Lowered(0, txs[n]) /\ txid[txs[n]] \in Nat
    BY <1>3, <1>7
  <2> QED
    BY <2>1 DEF Lowered
<1>8. T \subseteq Nat
  BY <1>1
<1>9. T = {}
  <2> SUFFICES ASSUME T # {} PROVE FALSE
    OBVIOUS
  <2>1. PICK n \in T : \A k \in T : n <= k
    <3> HIDE DEF T
    <3> QED
      BY <1>8, FirstNat
  <2>2. n \in i..Len(txs) /\ min[n] # 0 /\ n # i
    BY <1>6, <2>1
  <2>3. n - 1 \in i..Len(txs) /\ ~(n <= n - 1)
    BY <1>1, <2>2
  <2>4. min[n - 1] = 0
    BY <2>1, <2>3
  <2> QED
    BY <1>1, <1>7, <2>2, <2>4
<1> QED
  BY <1>1, <1>9

\* Every step keeps ReaderInv: begin_rwtx scans txs_ under metalock_, so no reader
\* can appear between the scan and the release.
LEMMA ReaderStep == TypeOK /\ CurInv /\ LockInv /\ ReaderInv /\ [Next]_vars => ReaderInv'
<1> SUFFICES ASSUME TypeOK, CurInv, LockInv, ReaderInv, [Next]_vars PROVE ReaderInv'
  OBVIOUS
<1> USE TxAssumption
<1>1. CASE UNCHANGED vars
  BY <1>1 DEF vars, dbVars, txVars, threadVars, TypeOK, CurInv, LockInv, InMeta, InWrite,
      ReaderInv, OpenReaders, Registered
<1>2. ASSUME NEW t \in Threads, BeginTx(t) PROVE ReaderInv'
  <2>1. OpenReaders' \subseteq OpenReaders /\ UNCHANGED <<Registered, txid, readThrew, minid>>
    BY <1>2 DEF BeginTx, dbVars, txVars, OpenReaders, Registered, TypeOK
  <2>2. \A s \in Threads : (pc[s] = "r_push" => pc'[s] = "r_push" /\ cur'[s] = cur[s])
                        /\ (pc'[s] = "w_release" => pc[s] = "w_release")
    BY <1>2 DEF BeginTx, Transition, TypeOK
  <2> QED
    BY <2>1, <2>2 DEF ReaderInv
<1>3. ASSUME NEW t \in Threads, LockMetaForRead(t) PROVE ReaderInv'
  <2>1. OpenReaders' \subseteq OpenReaders /\ UNCHANGED <<Registered, txid, readThrew, minid, cur>>
    BY <1>3 DEF LockMetaForRead, txVars, OpenReaders, Registered, TypeOK
  <2>2. \A s \in Threads : (pc[s] = "r_push" <=> pc'[s] = "r_push")
                        /\ (pc[s] = "w_release" <=> pc'[s] = "w_release")
    BY <1>3 DEF LockMetaForRead, Transition, TypeOK
  <2> QED
    BY <2>1, <2>2 DEF ReaderInv
<1>4. ASSUME NEW t \in Threads, LockSharedMmap(t) PROVE ReaderInv'
  <2>1. OpenReaders' \subseteq OpenReaders /\ UNCHANGED <<Registered, txid, readThrew, minid, cur>>
    BY <1>4 DEF LockSharedMmap, txVars, OpenReaders, Registered, TypeOK
  <2>2. \A s \in Threads : (pc[s] = "r_push" <=> pc'[s] = "r_push")
                        /\ (pc[s] = "w_release" <=> pc'[s] = "w_release")
    BY <1>4 DEF LockSharedMmap, Transition, TypeOK
  <2> QED
    BY <2>1, <2>2 DEF ReaderInv
<1>5. ASSUME NEW t \in Threads, NewReadTx(t) PROVE ReaderInv'
  BY <1>5 DEF NewReadTx, Transition, Tx, meta, dbVars, TypeOK, CurInv, LockInv, InMeta,
      InWrite, ReaderInv, OpenReaders, Registered
<1>6. ASSUME NEW t \in Threads, PushTx(t) PROVE ReaderInv'
  <2>1. cur[t] \in TxIds /\ Registered' = Registered \cup {cur[t]}
    BY <1>6, RegisteredAppend DEF PushTx, Transition, TypeOK, CurInv, Registered
  <2>2. OpenReaders' = OpenReaders /\ UNCHANGED <<txid, readThrew>> /\ minid' = minid /\ cur' = cur
    BY <1>6 DEF PushTx, txVars, OpenReaders
  <2>3. \A s \in Threads : s # t => pc'[s] = pc[s]
    BY <1>6 DEF PushTx, Transition, TypeOK
  <2> QED
    BY <1>6, <2>1, <2>2, <2>3 DEF ReaderInv, PushTx, Transition, TypeOK
<1>7. ASSUME NEW t \in Threads, StatBeginTx(t) PROVE ReaderInv'
  <2>1. OpenReaders' \subseteq OpenReaders /\ UNCHANGED <<Registered, txid, readThrew, minid, cur>>
    BY <1>7 DEF StatBeginTx, txVars, OpenReaders, Registered, TypeOK
  <2>2. \A s \in Threads : (pc[s] = "r_push" <=> pc'[s] = "r_push")
                        /\ (pc[s] = "w_release" <=> pc'[s] = "w_release")
    BY <1>7 DEF StatBeginTx, Transition, TypeOK
  <2> QED
    BY <2>1, <2>2 DEF ReaderInv
<1>8. ASSUME NEW t \in Threads, BeginRWTx(t) PROVE ReaderInv'
  <2>1. OpenReaders' \subseteq OpenReaders /\ UNCHANGED <<Registered, txid, readThrew, minid>>
    BY <1>8 DEF BeginRWTx, dbVars, txVars, OpenReaders, Registered, TypeOK
  <2>2. \A s \in Threads : (pc[s] = "r_push" => pc'[s] = "r_push" /\ cur'[s] = cur[s])
                        /\ (pc'[s] = "w_release" => pc[s] = "w_release")
    BY <1>8 DEF BeginRWTx, Transition, TypeOK
  <2> QED
    BY <2>1, <2>2 DEF ReaderInv
<1>9. ASSUME NEW t \in Threads, LockWriter(t) PROVE ReaderInv'
  <2>1. OpenReaders' \subseteq OpenReaders /\ UNCHANGED <<Registered, txid, readThrew, minid, cur>>
    BY <1>9 DEF LockWriter, txVars, OpenReaders, Registered, TypeOK
  <2>2. \A s \in Threads : (pc[s] = "r_push" <=> pc'[s] = "r_push")
                        /\ (pc[s] = "w_release" <=> pc'[s] = "w_release")
    BY <1>9 DEF LockWriter, Transition, TypeOK
  <2> QED
    BY <2>1, <2>2 DEF ReaderInv
<1>10. ASSUME NEW t \in Threads, LockMetaForWrite(t) PROVE ReaderInv'
  <2>1. OpenReaders' \subseteq OpenReaders /\ UNCHANGED <<Registered, txid, readThrew, minid, cur>>
    BY <1>10 DEF LockMetaForWrite, txVars, OpenReaders, Registered, TypeOK
  <2>2. \A s \in Threads : (pc[s] = "r_push" <=> pc'[s] = "r_push")
                        /\ (pc[s] = "w_release" <=> pc'[s] = "w_release")
    BY <1>10 DEF LockMetaForWrite, Transition, TypeOK
  <2> QED
    BY <2>1, <2>2 DEF ReaderInv
<1>11. ASSUME NEW t \in Threads, NewWriteTx(t) PROVE ReaderInv'
  BY <1>11 DEF NewWriteTx, Transition, Tx, meta, TypeOK, CurInv, LockInv, InMeta, InWrite,
      ReaderInv, OpenReaders, Registered
<1>12. ASSUME NEW t \in Threads, ScanReaders(t) PROVE ReaderInv'
  <2>1. UNCHANGED <<OpenReaders, Registered, txid, readThrew, cur>>
    BY <1>12 DEF ScanReaders, dbVars, txVars, OpenReaders, Registered
  <2>2. \A s \in Threads : pc[s] # "r_push"
    BY <1>12 DEF ScanReaders, Transition, LockInv, InMeta, InWrite
  <2>3. \A x \in OpenReaders : minid'[t] <= txid[x]
    <3>1. OpenReaders \subseteq Registered
      <4>1. readThrew = NoTx
        BY <1>12 DEF ScanReaders, Transition, LockInv, InMeta
      <4> QED
        BY <2>2, <4>1 DEF ReaderInv, OpenReaders
    <3>2. \A x \in OpenReaders : state[x] = "open" /\ txid[x] = 0
      BY DEF OpenReaders, ReaderInv, meta
    <3>3. PICK min \in [0..Len(txs) -> Txids] :
            /\ \A i \in 1..Len(txs) : min[i] \in Lowered(min[i - 1], txs[i])
            /\ minid' = [minid EXCEPT ![t] = min[Len(txs)]]
      BY <1>12 DEF ScanReaders
    <3> SUFFICES ASSUME NEW x \in OpenReaders PROVE minid'[t] <= txid[x]
      OBVIOUS
    <3>4. PICK i \in 1..Len(txs) : txs[i] = x
      BY <3>1 DEF Registered
    <3>5. min[Len(txs)] = 0
      BY <3>2, <3>3, <3>4, ScanStopsAtZero
    <3> QED
      BY <3>2, <3>3, <3>5 DEF TypeOK
  <2>4. \A s \in Threads \ {t} : pc'[s] # "w_release"
    BY <1>12 DEF ScanReaders, Transition, LockInv, InMeta, InWrite, TypeOK
  <2> QED
    BY <2>1, <2>2, <2>3, <2>4, <1>12 DEF ReaderInv
<1>13. ASSUME NEW t \in Threads, ReleasePending(t) PROVE ReaderInv'
  <2>1. OpenReaders' \subseteq OpenReaders /\ UNCHANGED <<Registered, txid, readThrew, minid>>
    BY <1>13 DEF ReleasePending, txVars, OpenReaders, Registered, TypeOK
  <2>2. \A s \in Threads : (pc[s] = "r_push" => pc'[s] = "r_push" /\ cur'[s] = cur[s])
                        /\ (pc'[s] = "w_release" => pc[s] = "w_release")
    BY <1>13 DEF ReleasePending, Transition, TypeOK
  <2> QED
    BY <2>1, <2>2 DEF ReaderInv
<1>14. ASSUME NEW t \in Threads, UpdateReturns(t) PROVE ReaderInv'
  <2>1. OpenReaders' \subseteq OpenReaders /\ UNCHANGED <<Registered, txid, readThrew, minid>>
    BY <1>14 DEF UpdateReturns, dbVars, txVars, OpenReaders, Registered, TypeOK
  <2>2. \A s \in Threads : (pc[s] = "r_push" => pc'[s] = "r_push" /\ cur'[s] = cur[s])
                        /\ (pc'[s] = "w_release" => pc[s] = "w_release")
    BY <1>14 DEF UpdateReturns, Transition, TypeOK
  <2> QED
    BY <2>1, <2>2 DEF ReaderInv
<1>15. ASSUME NEW t \in Threads, Commit(t) PROVE ReaderInv'
  <2>1. OpenReaders' \subseteq OpenReaders /\ UNCHANGED <<Registered, txid, readThrew, minid, cur>>
    BY <1>15 DEF Commit, dbVars, OpenReaders, Registered, TypeOK
  <2>2. \A s \in Threads : (pc[s] = "r_push" <=> pc'[s] = "r_push")
                        /\ (pc[s] = "w_release" <=> pc'[s] = "w_release")
    BY <1>15 DEF Commit, Transition, TypeOK
  <2> QED
    BY <2>1, <2>2 DEF ReaderInv
<1>16. ASSUME NEW t \in Threads, RollbackReader(t) PROVE ReaderInv'
  <2>1. OpenReaders' \subseteq OpenReaders /\ UNCHANGED <<Registered, txid, readThrew, minid, cur>>
    BY <1>16 DEF RollbackReader, dbVars, OpenReaders, Registered, TypeOK
  <2>2. \A s \in Threads : (pc[s] = "r_push" <=> pc'[s] = "r_push")
                        /\ (pc[s] = "w_release" <=> pc'[s] = "w_release")
    BY <1>16 DEF RollbackReader, Transition, TypeOK
  <2> QED
    BY <2>1, <2>2 DEF ReaderInv
<1>17. ASSUME NEW t \in Threads, RollbackWriter(t) PROVE ReaderInv'
  <2>1. OpenReaders' \subseteq OpenReaders /\ UNCHANGED <<Registered, txid, readThrew, minid, cur>>
    BY <1>17 DEF RollbackWriter, dbVars, txVars, OpenReaders, Registered, TypeOK
  <2>2. \A s \in Threads : (pc[s] = "r_push" <=> pc'[s] = "r_push")
                        /\ (pc[s] = "w_release" <=> pc'[s] = "w_release")
    BY <1>17 DEF RollbackWriter, Transition, TypeOK
  <2> QED
    BY <2>1, <2>2 DEF ReaderInv
<1>18. ASSUME NEW t \in Threads, ClearRwtx(t) PROVE ReaderInv'
  <2>1. OpenReaders' \subseteq OpenReaders /\ UNCHANGED <<Registered, txid, readThrew, minid, cur>>
    BY <1>18 DEF ClearRwtx, txVars, OpenReaders, Registered, TypeOK
  <2>2. \A s \in Threads : (pc[s] = "r_push" <=> pc'[s] = "r_push")
                        /\ (pc[s] = "w_release" <=> pc'[s] = "w_release")
    BY <1>18 DEF ClearRwtx, Transition, TypeOK
  <2> QED
    BY <2>1, <2>2 DEF ReaderInv
<1>19. ASSUME NEW t \in Threads, UnlockWriter(t) PROVE ReaderInv'
  <2>1. OpenReaders' \subseteq OpenReaders /\ UNCHANGED <<Registered, txid, readThrew, minid, cur>>
    BY <1>19 DEF UnlockWriter, txVars, OpenReaders, Registered, TypeOK
  <2>2. \A s \in Threads : (pc[s] = "r_push" <=> pc'[s] = "r_push")
                        /\ (pc[s] = "w_release" <=> pc'[s] = "w_release")
    BY <1>19 DEF UnlockWriter, Transition, TypeOK
  <2> QED
    BY <2>1, <2>2 DEF ReaderInv
<1>20. ASSUME NEW t \in Threads, CloseEnd(t) PROVE ReaderInv'
  <2>1. OpenReaders' \subseteq OpenReaders /\ UNCHANGED <<Registered, txid, readThrew, minid, cur>>
    BY <1>20 DEF CloseEnd, dbVars, OpenReaders, Registered, TypeOK
  <2>2. \A s \in Threads : (pc[s] = "r_push" <=> pc'[s] = "r_push")
                        /\ (pc[s] = "w_release" <=> pc'[s] = "w_release")
    BY <1>20 DEF CloseEnd, Transition, TypeOK
  <2> QED
    BY <2>1, <2>2 DEF ReaderInv
<1>21. ASSUME NEW t \in Threads, Drop(t) PROVE ReaderInv'
  <2>1. OpenReaders' \subseteq OpenReaders /\ UNCHANGED <<Registered, txid, readThrew, minid>>
    BY <1>21 DEF Drop, dbVars, txVars, OpenReaders, Registered, TypeOK
  <2>2. \A s \in Threads : (pc[s] = "r_push" => pc'[s] = "r_push" /\ cur'[s] = cur[s])
                        /\ (pc'[s] = "w_release" => pc[s] = "w_release")
    BY <1>21 DEF Drop, Transition, TypeOK
  <2> QED
    BY <2>1, <2>2 DEF ReaderInv
<1>22. ASSUME NEW t \in Threads, NullRootTrap(t) PROVE ReaderInv'
  BY <1>22 DEF NullRootTrap, dbVars, txVars, threadVars, TypeOK, CurInv, LockInv, InMeta,
      InWrite, ReaderInv, OpenReaders, Registered
<1>23. ASSUME NEW t \in Threads, ManagedAssert(t) PROVE ReaderInv'
  BY <1>23 DEF ManagedAssert, dbVars, txVars, threadVars, TypeOK, CurInv, LockInv, InMeta,
      InWrite, ReaderInv, OpenReaders, Registered
<1>24. ASSUME NEW t \in Threads, BeginTxThrows(t) PROVE ReaderInv'
  <2>1. cur[t] \in TxIds /\ cur[t] \notin OpenReaders /\ readThrew = NoTx
    BY <1>24 DEF BeginTxThrows, Transition, TypeOK, CurInv, LockInv, InMeta, OpenReaders
  <2>2. UNCHANGED Registered /\ readThrew' = cur[t]
    BY <1>24 DEF BeginTxThrows, dbVars, Registered
  <2>3. \A x \in OpenReaders' :
          \/ x \in OpenReaders /\ txid'[x] = txid[x]
          \/ x = cur[t] /\ txid'[x] = meta.txid
    BY <1>24, <2>1 DEF BeginTxThrows, Tx, OpenReaders, TypeOK
  <2>4. \A s \in Threads :
          /\ pc'[s] # "w_release"
          /\ (pc[s] = "r_push" => pc'[s] = "r_push" /\ cur'[s] = cur[s])
    BY <1>24 DEF BeginTxThrows, Transition, TypeOK, LockInv, InMeta
  <2>5. \A x \in OpenReaders : x \in Registered \/ \E s \in Threads : pc[s] = "r_push" /\ cur[s] = x
    BY <2>1 DEF ReaderInv, OpenReaders
  <2>6. \A x \in OpenReaders' : txid'[x] = meta.txid
    BY <2>3 DEF ReaderInv
  <2>7. meta' = meta
    BY DEF meta
  <2> QED
    BY <2>2, <2>3, <2>4, <2>5, <2>6, <2>7 DEF ReaderInv
<1>25. ASSUME NEW t \in Threads, BeginRWTxThrows(t) PROVE ReaderInv'
  <2>1. OpenReaders' \subseteq OpenReaders /\ UNCHANGED <<Registered, txid, readThrew, minid>>
    BY <1>25 DEF BeginRWTxThrows, dbVars, txVars, OpenReaders, Registered, TypeOK
  <2>2. \A s \in Threads : (pc[s] = "r_push" => pc'[s] = "r_push" /\ cur'[s] = cur[s])
                        /\ (pc'[s] = "w_release" => pc[s] = "w_release")
    BY <1>25 DEF BeginRWTxThrows, Transition, TypeOK
  <2> QED
    BY <2>1, <2>2 DEF ReaderInv
<1>26. ASSUME NEW t \in Threads, ReleaseThrows(t) PROVE ReaderInv'
  <2>1. OpenReaders' \subseteq OpenReaders /\ UNCHANGED <<Registered, txid, readThrew, minid>>
    BY <1>26 DEF ReleaseThrows, txVars, OpenReaders, Registered, TypeOK
  <2>2. \A s \in Threads : (pc[s] = "r_push" => pc'[s] = "r_push" /\ cur'[s] = cur[s])
                        /\ (pc'[s] = "w_release" => pc[s] = "w_release")
    BY <1>26 DEF ReleaseThrows, Transition, TypeOK
  <2> QED
    BY <2>1, <2>2 DEF ReaderInv
<1> QED
  BY <1>1, <1>2, <1>3, <1>4, <1>5, <1>6, <1>7, <1>8, <1>9, <1>10, <1>11, <1>12, <1>13,
      <1>14, <1>15, <1>16, <1>17, <1>18, <1>19, <1>20, <1>21, <1>22, <1>23,
      <1>24, <1>25, <1>26 DEF Next, Step,
      BeginReadStep, BeginWriteStep, CloseStep

-----------------------------------------------------------------------------
IInv == TypeOK /\ LockDiscipline

\* The inductive invariant holds initially.
LEMMA InitIInv == Init => IInv
<1> SUFFICES ASSUME Init PROVE IInv
  OBVIOUS
<1> USE TxAssumption DEF Init
<1>1. TypeOK
  <2>1. 0 \in Txids /\ "idle" \in PCs
    BY DEF Txids, PCs
  <2>2. txs \in Seq(TxIds) /\ released \in [by : TxIds \cup {NoTx}, upto : Txids]
    BY <2>1
  <2>3. mmaplock \in Nat /\ tx_n \in Nat /\ open_tx_n \in Int
    OBVIOUS
  <2>4. /\ state \in [TxIds -> {"none", "open", "closed"}]
        /\ writable \in [TxIds -> BOOLEAN]
        /\ txid \in [TxIds -> Txids]
        /\ pc \in [Threads -> PCs]
        /\ cur \in [Threads -> TxIds \cup {NoTx}]
        /\ minid \in [Threads -> Txids]
    BY <2>1
  <2> QED
    BY <2>2, <2>3, <2>4 DEF TypeOK
<1>2. CurInv /\ LockInv /\ RwtxInv /\ ReaderInv
  BY DEF CurInv, LockInv, InMeta, InWrite, RwtxInv, OneWriter, ReaderInv, OpenReaders
<1> QED
  BY <1>1, <1>2 DEF IInv, LockDiscipline

\* The types and the lock discipline of db.cpp and tx.cpp hold in every state.
THEOREM LockDisciplineHolds == Spec => []IInv
<1>1. IInv /\ [Next]_vars => IInv'
  BY TypeStep, CurStep, LockStep, RwtxStep, ReaderStep DEF IInv, LockDiscipline
<1> QED
  BY InitIInv, <1>1, PTL DEF Spec

\* Every variable keeps its type (the fields of DB and Tx, db.h and tx.h).
THEOREM TypeCorrect == Spec => []TypeOK
<1>1. IInv => TypeOK
  BY DEF IInv
<1> QED
  BY LockDisciplineHolds, <1>1, PTL

\* The locks are held where db.cpp and tx.cpp need them, also after a begin that
\* has thrown (db.cpp:168-239, tx.cpp:108-139).
THEOREM LocksHeld == Spec => []LockDiscipline
<1>1. IInv => LockDiscipline
  BY DEF IInv
<1> QED
  BY LockDisciplineHolds, <1>1, PTL

\* At most one write transaction exists outside close(), and it is rwtx_
\* (rwlock_, db.h:175).
THEOREM SingleWriter == Spec => []OneWriter
<1>1. IInv => OneWriter
  BY DEF IInv, LockDiscipline, RwtxInv
<1> QED
  BY LockDisciplineHolds, <1>1, PTL

\* Only ReleasePending and ReleaseThrows call FreeList::release, and its argument is below the
\* snapshot of every open reader.
LEMMA ReleaseStep ==
  IInv /\ [Next]_vars =>
    (released' # released => \A x \in OpenReaders : released'.upto < txid[x])
<1> SUFFICES ASSUME IInv, Next, released' # released,
                    NEW x \in OpenReaders
             PROVE  released'.upto < txid[x]
  BY DEF vars
<1>1. PICK t \in Threads : ReleasePending(t) \/ ReleaseThrows(t)
  BY DEF Next, Step, BeginReadStep, BeginWriteStep, CloseStep, BeginTx, LockMetaForRead,
      LockSharedMmap, NewReadTx, PushTx, StatBeginTx, BeginRWTx, LockWriter,
      LockMetaForWrite, NewWriteTx, ScanReaders, UpdateReturns, Commit, RollbackReader,
      RollbackWriter, ClearRwtx, UnlockWriter, CloseEnd, Drop, BeginTxThrows,
      BeginRWTxThrows, NullRootTrap, ManagedAssert
<1>2. minid[t] > 0 /\ released'.upto = minid[t] - 1
  BY <1>1 DEF ReleasePending, ReleaseThrows
<1>3. minid[t] <= txid[x]
  BY <1>1 DEF IInv, LockDiscipline, ReaderInv, ReleasePending, ReleaseThrows, Transition
<1>4. minid[t] \in Int /\ txid[x] \in Int
  BY TxAssumption DEF IInv, TypeOK, Txids, OpenReaders
<1> QED
  BY <1>2, <1>3, <1>4

\* release() never reaches the snapshot of an open reader (db.cpp:227-236).
THEOREM ReadersSpared == Spec => ReleaseSparesReaders
<1>1. IInv /\ [Next]_vars =>
        [released' # released => \A x \in OpenReaders : released'.upto < txid[x]]_vars
  BY ReleaseStep
<1> QED
  BY LockDisciplineHolds, <1>1, PTL DEF Spec, ReleaseSparesReaders

-----------------------------------------------------------------------------
(* begin and rollback implement TxContract.                                *)

\* The steps that change what TxContract sees map to its actions; all others
\* leave its variables alone.
LEMMA ContractStep == IInv /\ [Next]_vars => [Contract!Next]_(Contract!vars)
<1> SUFFICES ASSUME IInv, [Next]_vars PROVE [Contract!Next]_(Contract!vars)
  OBVIOUS
<1> USE TxAssumption DEF IInv, LockDiscipline
<1>1. CASE UNCHANGED vars
  BY <1>1 DEF vars, dbVars, txVars, Contract!vars, OpenReaders
<1>2. ASSUME NEW t \in Threads, NewReadTx(t) PROVE Contract!Next
  <2>1. cur[t] \in TxIds /\ state[cur[t]] = "none"
    BY <1>2 DEF NewReadTx, Transition, TypeOK, CurInv
  <2>2. 0 \in Txids /\ meta.txid = 0
    BY DEF Txids, meta
  <2>3. OpenReaders' = OpenReaders \cup {cur[t]} /\ cur[t] \notin OpenReaders
    BY <1>2, <2>1 DEF NewReadTx, Tx, OpenReaders, TypeOK
  <2>4. Contract!BeginRead(cur[t], 0)
    BY <1>2, <2>2, <2>3 DEF NewReadTx, Tx, dbVars, Contract!BeginRead
  <2> QED
    BY <2>1, <2>2, <2>4 DEF Contract!Next
<1>3. ASSUME NEW t \in Threads, NewWriteTx(t) PROVE Contract!Next
  <2>1. cur[t] \in TxIds /\ state[cur[t]] = "none" /\ rwtx = NoTx
    BY <1>3 DEF NewWriteTx, Transition, TypeOK, CurInv, RwtxInv
  <2>2. 1 \in Txids /\ meta.txid = 0
    BY DEF Txids, meta
  <2>3. OpenReaders' = OpenReaders /\ cur[t] \notin OpenReaders
    BY <1>3, <2>1 DEF NewWriteTx, Tx, OpenReaders, TypeOK
  <2>4. Contract!BeginWrite(cur[t], 1)
    BY <1>3, <2>1, <2>2, <2>3 DEF NewWriteTx, Tx, Contract!BeginWrite
  <2> QED
    BY <2>1, <2>2, <2>4 DEF Contract!Next
<1>4. ASSUME NEW t \in Threads, ReleasePending(t) PROVE [Contract!Next]_(Contract!vars)
  <2>1. UNCHANGED <<rwtx, OpenReaders, txid>> /\ rwtx # NoTx /\ rwtx = cur[t]
    BY <1>4 DEF ReleasePending, Transition, txVars, OpenReaders, TypeOK, CurInv, RwtxInv
  <2>2. CASE minid[t] > 0
    <3>1. minid[t] - 1 \in Txids
      BY <2>2 DEF TypeOK, Txids
    <3>2. \A x \in OpenReaders : minid[t] - 1 < txid[x]
      <4>1. \A x \in OpenReaders : minid[t] <= txid[x]
        BY <1>4 DEF ReaderInv, ReleasePending, Transition
      <4>2. \A x \in OpenReaders : txid[x] \in Int /\ minid[t] \in Int
        BY DEF TypeOK, Txids, OpenReaders
      <4> QED
        BY <4>1, <4>2
    <3>3. Contract!Reclaim(minid[t] - 1)
      BY <1>4, <2>1, <2>2, <3>2 DEF ReleasePending, Contract!Reclaim
    <3> QED
      BY <3>1, <3>3 DEF Contract!Next
  <2>3. CASE ~(minid[t] > 0)
    BY <1>4, <2>1, <2>3 DEF ReleasePending, Contract!vars
  <2> QED
    BY <2>2, <2>3
<1>5. ASSUME NEW t \in Threads, RollbackReader(t) PROVE Contract!Next
  <2>1. cur[t] \in OpenReaders /\ OpenReaders' = OpenReaders \ {cur[t]}
    BY <1>5 DEF RollbackReader, Transition, OpenReaders, TypeOK, CurInv
  <2>2. Contract!EndRead(cur[t]) /\ cur[t] \in TxIds
    BY <1>5, <2>1 DEF RollbackReader, dbVars, Contract!EndRead, OpenReaders
  <2> QED
    BY <2>2 DEF Contract!Next
<1>6. ASSUME NEW t \in Threads, ClearRwtx(t) PROVE Contract!Next
  <2>1. rwtx # NoTx
    BY <1>6 DEF ClearRwtx, Transition, CurInv, RwtxInv
  <2> QED
    BY <1>6, <2>1 DEF ClearRwtx, txVars, OpenReaders, Contract!EndWrite, Contract!Next
<1>7. ASSUME NEW t \in Threads, CloseEnd(t) PROVE UNCHANGED Contract!vars
  <2>1. cur[t] \in TxIds /\ writable[cur[t]]
    BY <1>7 DEF CloseEnd, Transition, CurInv, TypeOK
  <2>2. OpenReaders' = OpenReaders
    BY <1>7, <2>1 DEF CloseEnd, OpenReaders, TypeOK
  <2> QED
    BY <1>7, <2>2 DEF CloseEnd, dbVars, Contract!vars
<1>8. ASSUME NEW t \in Threads,
             \/ BeginTx(t) \/ LockMetaForRead(t) \/ LockSharedMmap(t) \/ PushTx(t)
             \/ StatBeginTx(t) \/ BeginRWTx(t) \/ LockWriter(t) \/ LockMetaForWrite(t)
             \/ ScanReaders(t) \/ UpdateReturns(t) \/ Commit(t) \/ RollbackWriter(t)
             \/ UnlockWriter(t) \/ Drop(t) \/ BeginRWTxThrows(t) \/ NullRootTrap(t)
             \/ ManagedAssert(t)
      PROVE  UNCHANGED Contract!vars
  <2>1. UNCHANGED <<rwtx, state, writable, txid, released>>
    BY <1>8 DEF BeginTx, LockMetaForRead, LockSharedMmap, PushTx, StatBeginTx, BeginRWTx,
       LockWriter, LockMetaForWrite, ScanReaders, UpdateReturns, Commit, RollbackWriter,
       UnlockWriter, Drop, BeginRWTxThrows, NullRootTrap, ManagedAssert, dbVars, txVars
  <2> QED
    BY <2>1 DEF Contract!vars, OpenReaders
<1>9. ASSUME NEW t \in Threads, BeginTxThrows(t) PROVE [Contract!Next]_(Contract!vars)
  <2>1. cur[t] \in TxIds /\ state[cur[t]] = "none"
    BY <1>9 DEF BeginTxThrows, Transition, TypeOK, CurInv
  <2>2. 0 \in Txids /\ meta.txid = 0
    BY DEF Txids, meta
  <2>3. CASE Tx(cur[t], FALSE)
    <3>1. OpenReaders' = OpenReaders \cup {cur[t]} /\ cur[t] \notin OpenReaders
      BY <2>1, <2>3 DEF Tx, OpenReaders, TypeOK
    <3>2. Contract!BeginRead(cur[t], 0)
      BY <1>9, <2>2, <2>3, <3>1 DEF BeginTxThrows, Tx, dbVars, Contract!BeginRead
    <3> QED
      BY <2>1, <2>2, <3>2 DEF Contract!Next
  <2>4. CASE UNCHANGED <<state, writable, txid>>
    BY <1>9, <2>4 DEF BeginTxThrows, dbVars, OpenReaders, Contract!vars
  <2> QED
    BY <1>9, <2>3, <2>4 DEF BeginTxThrows
<1>10. ASSUME NEW t \in Threads, ReleaseThrows(t) PROVE Contract!Next
  <2>1. UNCHANGED <<rwtx, OpenReaders, txid>> /\ rwtx # NoTx /\ rwtx = cur[t]
    BY <1>10 DEF ReleaseThrows, Transition, txVars, OpenReaders, TypeOK, CurInv, RwtxInv
  <2>2. minid[t] - 1 \in Txids
    BY <1>10 DEF ReleaseThrows, TypeOK, Txids
  <2>3. \A x \in OpenReaders : minid[t] - 1 < txid[x]
    <3>1. \A x \in OpenReaders : minid[t] <= txid[x]
      BY <1>10 DEF ReaderInv, ReleaseThrows, Transition
    <3>2. \A x \in OpenReaders : txid[x] \in Int /\ minid[t] \in Int
      BY DEF TypeOK, Txids, OpenReaders
    <3> QED
      BY <3>1, <3>2
  <2>4. Contract!Reclaim(minid[t] - 1)
    BY <1>10, <2>1, <2>3 DEF ReleaseThrows, Contract!Reclaim
  <2> QED
    BY <2>2, <2>4 DEF Contract!Next
<1> QED
  BY <1>1, <1>2, <1>3, <1>4, <1>5, <1>6, <1>7, <1>8, <1>9, <1>10
     DEF Next, Step, BeginReadStep, BeginWriteStep, CloseStep

\* DB::begin, DB::update and Tx::rollback, with all their locks, implement the
\* contract of TxContract.
THEOREM RefinesContract == Spec => ImplementsContract
<1>1. Init => Contract!Init
  BY TxAssumption DEF Init, Contract!Init, OpenReaders
<1> QED
  BY <1>1, ContractStep, LockDisciplineHolds, PTL DEF Spec, Contract!Spec, ImplementsContract

-----------------------------------------------------------------------------
(* The counters of begin_tx.                                               *)

InStat == {t \in Threads : pc[t] = "r_stat"}
Unregistered == {t \in Threads : pc[t] \in {"r_new", "r_push"}}

CountInv ==
    /\ IsFiniteSet(InStat) /\ IsFiniteSet(Unregistered)
    /\ tx_n + Cardinality(InStat) = Len(txs)
    /\ mmaplock = Len(txs) + Cardinality(Unregistered) + (IF readThrew = NoTx THEN 0 ELSE 1)
    /\ (\A t \in Threads : pc[t] \notin {"r_push", "r_stat"}) /\ txs # <<>> => open_tx_n = Len(txs)

RegisteredInv ==
    /\ \A x \in Registered : state[x] # "none"
    /\ \A t \in Threads : pc[t] = "r_push" => cur[t] \notin Registered
    /\ IsInjective(txs)

\* Every step keeps the counters of begin_tx in line with txs_ (db.cpp:174-199).
LEMMA CountStep == IInv /\ [Next]_vars /\ CountInv => CountInv'
<1> SUFFICES ASSUME IInv, [Next]_vars, CountInv PROVE CountInv'
  OBVIOUS
<1> USE TxAssumption DEF IInv
<1>0. Len(txs) \in Nat /\ tx_n \in Nat /\ mmaplock \in Nat
  BY DEF TypeOK
<1>1. ASSUME UNCHANGED <<txs, tx_n, open_tx_n, mmaplock, readThrew, InStat, Unregistered>>,
             \A t \in Threads : pc[t] \in {"r_push", "r_stat"} => pc'[t] \in {"r_push", "r_stat"}
      PROVE  CountInv'
  BY <1>1 DEF CountInv
<1>2. CASE UNCHANGED vars
  <2>1. UNCHANGED <<txs, tx_n, open_tx_n, mmaplock, readThrew, pc>>
    BY <1>2 DEF vars, dbVars, txVars, threadVars
  <2> QED
    BY <1>1, <2>1 DEF InStat, Unregistered
<1>3. ASSUME NEW t \in Threads, LockSharedMmap(t) PROVE CountInv'
  <2>1. InStat' = InStat /\ Unregistered' = Unregistered \cup {t} /\ t \notin Unregistered
    BY <1>3 DEF LockSharedMmap, Transition, InStat, Unregistered, TypeOK
  <2>2. /\ IsFiniteSet(Unregistered')
        /\ Cardinality(Unregistered') = Cardinality(Unregistered) + 1
    BY <2>1, FS_AddElement DEF CountInv
  <2>3. Cardinality(Unregistered) \in Nat
    BY FS_CardinalityType DEF CountInv
  <2>4. \A s \in Threads : pc[s] \in {"r_push", "r_stat"} <=> pc'[s] \in {"r_push", "r_stat"}
    BY <1>3 DEF LockSharedMmap, Transition, TypeOK
  <2> QED
    BY <1>0, <1>3, <2>1, <2>2, <2>3, <2>4 DEF LockSharedMmap, txVars, CountInv
<1>4. ASSUME NEW t \in Threads, PushTx(t) PROVE CountInv'
  <2>1. /\ InStat' = InStat \cup {t} /\ t \notin InStat
        /\ Unregistered' = Unregistered \ {t} /\ t \in Unregistered
    BY <1>4 DEF PushTx, Transition, InStat, Unregistered, TypeOK
  <2>2. IsFiniteSet(InStat') /\ Cardinality(InStat') = Cardinality(InStat) + 1
    BY <2>1, FS_AddElement DEF CountInv
  <2>3. /\ IsFiniteSet(Unregistered')
        /\ Cardinality(Unregistered') = Cardinality(Unregistered) - 1
    BY <2>1, FS_RemoveElement DEF CountInv
  <2>4. Cardinality(Unregistered) \in Nat /\ Cardinality(InStat) \in Nat
    BY FS_CardinalityType DEF CountInv
  <2>5. Len(txs') = Len(txs) + 1 /\ UNCHANGED <<tx_n, open_tx_n, mmaplock, readThrew>>
    BY <1>4 DEF PushTx, txVars, TypeOK
  <2>6. pc'[t] = "r_stat"
    BY <1>4 DEF PushTx, Transition, TypeOK
  <2>7. tx_n' + Cardinality(InStat') = Len(txs')
    BY <1>0, <2>2, <2>4, <2>5 DEF CountInv
  <2>8. mmaplock' = Len(txs') + Cardinality(Unregistered') + (IF readThrew' = NoTx THEN 0 ELSE 1)
    BY <1>0, <2>3, <2>4, <2>5 DEF CountInv
  <2> QED
    BY <2>2, <2>3, <2>6, <2>7, <2>8 DEF CountInv
<1>5. ASSUME NEW t \in Threads, StatBeginTx(t) PROVE CountInv'
  <2>1. InStat' = InStat \ {t} /\ t \in InStat /\ Unregistered' = Unregistered
    BY <1>5 DEF StatBeginTx, Transition, InStat, Unregistered, TypeOK
  <2>2. IsFiniteSet(InStat') /\ Cardinality(InStat') = Cardinality(InStat) - 1
    BY <2>1, FS_RemoveElement DEF CountInv
  <2>3. Cardinality(InStat) \in Nat
    BY FS_CardinalityType DEF CountInv
  <2>4. \A s \in Threads : pc[s] = "r_push" => pc'[s] = "r_push"
    BY <1>5 DEF StatBeginTx, Transition, TypeOK
  <2>5. (\A s \in Threads : pc'[s] \notin {"r_push", "r_stat"}) => open_tx_n' = Len(txs)
    BY <1>5, <2>4 DEF StatBeginTx
  <2> QED
    BY <1>0, <1>5, <2>1, <2>2, <2>3, <2>5 DEF StatBeginTx, txVars, CountInv
<1>6. ASSUME NEW t \in Threads, NewReadTx(t) PROVE CountInv'
  <2>1. UNCHANGED <<txs, tx_n, open_tx_n, mmaplock, readThrew, InStat, Unregistered>>
    BY <1>6 DEF NewReadTx, Transition, dbVars, InStat, Unregistered, TypeOK
  <2>2. \A s \in Threads : pc[s] \in {"r_push", "r_stat"} => pc'[s] \in {"r_push", "r_stat"}
    BY <1>6 DEF NewReadTx, Transition, TypeOK
  <2> QED
    BY <1>1, <2>1, <2>2
<1>7. ASSUME NEW t \in Threads,
             \/ BeginTx(t) \/ LockMetaForRead(t) \/ BeginRWTx(t) \/ LockWriter(t)
             \/ LockMetaForWrite(t) \/ NewWriteTx(t) \/ ScanReaders(t) \/ ReleasePending(t)
             \/ UpdateReturns(t) \/ Commit(t) \/ RollbackReader(t) \/ RollbackWriter(t)
             \/ ClearRwtx(t) \/ UnlockWriter(t) \/ CloseEnd(t) \/ Drop(t)
             \/ BeginRWTxThrows(t) \/ ReleaseThrows(t) \/ NullRootTrap(t) \/ ManagedAssert(t)
      PROVE  CountInv'
  <2> USE DEF BeginTx, LockMetaForRead, BeginRWTx, LockWriter, LockMetaForWrite, NewWriteTx,
       ScanReaders, ReleasePending, UpdateReturns, Commit, RollbackReader, RollbackWriter,
       ClearRwtx, UnlockWriter, CloseEnd, Drop, BeginRWTxThrows, ReleaseThrows,
       NullRootTrap, ManagedAssert
  <2>1. UNCHANGED <<txs, tx_n, open_tx_n, mmaplock, readThrew>>
    BY <1>7 DEF dbVars, txVars
  <2>2. pc' = pc \/ \E to \in PCs \ {"r_new", "r_push", "r_stat"} :
          /\ pc[t] \notin {"r_new", "r_push", "r_stat"}
          /\ pc' = [pc EXCEPT ![t] = to]
    BY <1>7 DEF Transition, threadVars, PCs, ReadPCs, WritePCs, ClosePCs
  <2>3. \A s \in Threads : \A p \in {"r_new", "r_push", "r_stat"} : pc'[s] = p <=> pc[s] = p
    BY <2>2 DEF TypeOK
  <2>4. UNCHANGED <<InStat, Unregistered>>
    BY <2>3 DEF InStat, Unregistered
  <2> QED
    BY <1>1, <2>1, <2>3, <2>4
<1>8. ASSUME NEW t \in Threads, BeginTxThrows(t) PROVE CountInv'
  <2>1. InStat' = InStat /\ Unregistered' = Unregistered \ {t} /\ t \in Unregistered
    BY <1>8 DEF BeginTxThrows, Transition, InStat, Unregistered, TypeOK
  <2>2. /\ IsFiniteSet(Unregistered')
        /\ Cardinality(Unregistered') = Cardinality(Unregistered) - 1
    BY <2>1, FS_RemoveElement DEF CountInv
  <2>3. Cardinality(Unregistered) \in Nat
    BY FS_CardinalityType DEF CountInv
  <2>4. \A s \in Threads : pc[s] \in {"r_push", "r_stat"} <=> pc'[s] \in {"r_push", "r_stat"}
    BY <1>8 DEF BeginTxThrows, Transition, TypeOK
  <2>5. readThrew = NoTx /\ readThrew' # NoTx
    BY <1>8 DEF BeginTxThrows, Transition, LockDiscipline, LockInv, InMeta, CurInv, TypeOK
  <2>6. UNCHANGED <<txs, tx_n, open_tx_n, mmaplock>>
    BY <1>8 DEF BeginTxThrows, dbVars
  <2> QED
    BY <1>0, <2>1, <2>2, <2>3, <2>4, <2>5, <2>6 DEF CountInv
<1> QED
  BY <1>2, <1>3, <1>4, <1>5, <1>6, <1>7, <1>8
     DEF Next, Step, BeginReadStep, BeginWriteStep, CloseStep

\* Every step keeps RegisteredInv: push_back never repeats a transaction.
LEMMA RegisteredStep == IInv /\ [Next]_vars /\ RegisteredInv => RegisteredInv'
<1> SUFFICES ASSUME IInv, [Next]_vars, RegisteredInv PROVE RegisteredInv'
  OBVIOUS
<1> USE TxAssumption DEF IInv, LockDiscipline
<1>1. ASSUME UNCHANGED <<txs, Registered>>,
             \A x \in TxIds : state[x] # "none" => state'[x] # "none",
             \A t \in Threads : pc'[t] = "r_push" => cur'[t] \notin Registered
      PROVE  RegisteredInv'
  <2>1. Registered \subseteq TxIds
    BY DEF Registered, TypeOK
  <2> QED
    BY <1>1, <2>1 DEF RegisteredInv
<1>2. CASE UNCHANGED vars
  BY <1>2 DEF vars, dbVars, txVars, threadVars, RegisteredInv, Registered
<1>3. ASSUME NEW t \in Threads, NewReadTx(t) PROVE RegisteredInv'
  <2>1. UNCHANGED <<txs, Registered, cur>>
    BY <1>3 DEF NewReadTx, dbVars, Registered
  <2>2. cur[t] \in TxIds /\ cur[t] \notin Registered
    BY <1>3 DEF NewReadTx, Transition, CurInv, TypeOK, RegisteredInv
  <2>3. \A x \in TxIds : state[x] # "none" => state'[x] # "none"
    BY <1>3 DEF NewReadTx, Tx, TypeOK
  <2>4. \A s \in Threads : s # t => pc'[s] = pc[s]
    BY <1>3 DEF NewReadTx, Transition, TypeOK
  <2> QED
    BY <1>1, <2>1, <2>2, <2>3, <2>4 DEF RegisteredInv
<1>4. ASSUME NEW t \in Threads, PushTx(t) PROVE RegisteredInv'
  <2>1. cur[t] \in TxIds /\ state[cur[t]] = "open" /\ cur[t] \notin Registered
    BY <1>4 DEF PushTx, Transition, CurInv, TypeOK, RegisteredInv
  <2>2. Registered' = Registered \cup {cur[t]} /\ UNCHANGED <<state, cur>>
    BY <1>4, <2>1, RegisteredAppend DEF PushTx, TypeOK, Registered, txVars
  <2>3. \A s \in Threads : pc'[s] # "r_push"
    BY <1>4 DEF PushTx, Transition, LockInv, InMeta, InWrite, TypeOK
  <2>4. IsInjective(txs')
    <3>1. Len(txs') = Len(txs) + 1 /\ Len(txs) \in Nat /\ txs' \in Seq(TxIds)
      BY <1>4, <2>1 DEF PushTx, TypeOK
    <3>2. DOMAIN txs' = 1..(Len(txs) + 1) /\ DOMAIN txs = 1..Len(txs)
      BY <3>1 DEF TypeOK
    <3>3. \A i \in 1..Len(txs) : txs'[i] = txs[i]
      BY <1>4, <2>1 DEF PushTx, TypeOK
    <3>4. txs'[Len(txs) + 1] = cur[t]
      BY <1>4, <2>1 DEF PushTx, TypeOK
    <3>5. \A i \in 1..Len(txs) : txs[i] # cur[t]
      BY <2>1 DEF Registered
    <3>6. \A i, j \in 1..Len(txs) : txs[i] = txs[j] => i = j
      BY <3>2 DEF RegisteredInv, IsInjective
    <3> QED
      BY <3>1, <3>2, <3>3, <3>4, <3>5, <3>6 DEF IsInjective
  <2> QED
    BY <2>1, <2>2, <2>3, <2>4 DEF RegisteredInv
<1>5. ASSUME NEW t \in Threads,
             \/ BeginTx(t) \/ LockMetaForRead(t) \/ LockSharedMmap(t) \/ StatBeginTx(t)
             \/ BeginRWTx(t) \/ LockWriter(t) \/ LockMetaForWrite(t) \/ NewWriteTx(t)
             \/ ScanReaders(t) \/ ReleasePending(t) \/ UpdateReturns(t) \/ Commit(t)
             \/ RollbackReader(t) \/ RollbackWriter(t) \/ ClearRwtx(t) \/ UnlockWriter(t)
             \/ CloseEnd(t) \/ Drop(t) \/ BeginTxThrows(t) \/ BeginRWTxThrows(t)
             \/ ReleaseThrows(t) \/ NullRootTrap(t) \/ ManagedAssert(t)
      PROVE  RegisteredInv'
  <2> USE DEF BeginTx, LockMetaForRead, LockSharedMmap, StatBeginTx, BeginRWTx, LockWriter,
       LockMetaForWrite, NewWriteTx, ScanReaders, ReleasePending, UpdateReturns, Commit,
       RollbackReader, RollbackWriter, ClearRwtx, UnlockWriter, CloseEnd, Drop,
       BeginTxThrows, BeginRWTxThrows, ReleaseThrows, NullRootTrap, ManagedAssert
  <2>1. UNCHANGED <<txs, Registered>>
    BY <1>5 DEF dbVars, Registered
  <2>2. \/ UNCHANGED state
        \/ \E v \in {"open", "closed"} : state' = [state EXCEPT ![cur[t]] = v]
    BY <1>5 DEF Tx, txVars
  <2>3. \A x \in TxIds : state[x] # "none" => state'[x] # "none"
    BY <2>2 DEF TypeOK
  <2>4. \A s \in Threads : pc'[s] = "r_push" => pc[s] = "r_push" /\ cur'[s] = cur[s]
    <3> SUFFICES ASSUME NEW s \in Threads, pc'[s] = "r_push"
                 PROVE  pc[s] = "r_push" /\ cur'[s] = cur[s]
      OBVIOUS
    <3>1. pc' = pc \/ \E q \in PCs \ {"r_push"} : pc' = [pc EXCEPT ![t] = q]
      BY <1>5 DEF Transition, threadVars, PCs, ReadPCs, WritePCs, ClosePCs
    <3>2. cur' = cur \/ (pc'[t] # "r_push" /\ \E z : cur' = [cur EXCEPT ![t] = z])
      BY <1>5 DEF Transition, TypeOK, threadVars
    <3> QED
      BY <3>1, <3>2 DEF TypeOK
  <2> QED
    BY <1>1, <2>1, <2>3, <2>4 DEF RegisteredInv
<1> QED
  BY <1>2, <1>3, <1>4, <1>5
     DEF Next, Step, BeginReadStep, BeginWriteStep, CloseStep

\* The started readers are those in txs_ and the one that is being pushed.
StartedInv ==
    /\ Registered \subseteq Started
    /\ \A x \in Started : x \in Registered \/ \E t \in Threads : pc[t] = "r_push" /\ cur[t] = x

\* Every step keeps StartedInv: only begin_tx starts a reader, and it pushes the
\* reader to txs_ or throws (db.cpp:187-190).
LEMMA StartedStep == IInv /\ [Next]_vars /\ StartedInv => StartedInv'
<1> SUFFICES ASSUME IInv, [Next]_vars, StartedInv PROVE StartedInv'
  OBVIOUS
<1> USE TxAssumption DEF IInv, LockDiscipline
<1>1. ASSUME UNCHANGED <<Registered, Started>>,
             \A s \in Threads : pc[s] = "r_push" => pc'[s] = "r_push" /\ cur'[s] = cur[s]
      PROVE  StartedInv'
  BY <1>1 DEF StartedInv
<1>2. CASE UNCHANGED vars
  BY <1>1, <1>2 DEF vars, dbVars, txVars, threadVars, Registered, Started
<1>3. ASSUME NEW t \in Threads, NewReadTx(t) PROVE StartedInv'
  <2>1. cur[t] \in TxIds /\ readThrew = NoTx
    BY <1>3 DEF NewReadTx, Transition, CurInv, TypeOK, LockInv, InMeta
  <2>2. UNCHANGED <<Registered, cur, readThrew>>
    BY <1>3 DEF NewReadTx, dbVars, Registered
  <2>3. Started' = Started \cup {cur[t]}
    BY <1>3, <2>1, <2>2 DEF NewReadTx, Tx, Started, TypeOK
  <2>4. pc'[t] = "r_push" /\ \A s \in Threads : s # t => pc'[s] = pc[s]
    BY <1>3 DEF NewReadTx, Transition, TypeOK
  <2> QED
    BY <2>2, <2>3, <2>4 DEF StartedInv
<1>4. ASSUME NEW t \in Threads, PushTx(t) PROVE StartedInv'
  <2>1. cur[t] \in TxIds /\ readThrew = NoTx /\ state[cur[t]] = "open" /\ ~writable[cur[t]]
    BY <1>4 DEF PushTx, Transition, CurInv, TypeOK, LockInv, InMeta
  <2>2. cur[t] \in Started
    BY <2>1 DEF Started
  <2>3. Registered' = Registered \cup {cur[t]} /\ UNCHANGED <<Started, cur>>
    BY <1>4, <2>1, RegisteredAppend DEF PushTx, TypeOK, Registered, txVars, Started
  <2>4. \A s \in Threads : s # t => pc'[s] = pc[s]
    BY <1>4 DEF PushTx, Transition, TypeOK
  <2> QED
    BY <2>2, <2>3, <2>4 DEF StartedInv
<1>5. ASSUME NEW t \in Threads, BeginTxThrows(t) PROVE StartedInv'
  <2>1. cur[t] \in TxIds /\ readThrew = NoTx /\ state[cur[t]] = "none"
    BY <1>5 DEF BeginTxThrows, Transition, CurInv, TypeOK, LockInv, InMeta
  <2>2. UNCHANGED Registered /\ readThrew' = cur[t]
    BY <1>5 DEF BeginTxThrows, dbVars, Registered
  <2>3. Started' = Started
    BY <1>5, <2>1, <2>2 DEF BeginTxThrows, Tx, Started, TypeOK
  <2>4. \A s \in Threads : pc[s] = "r_push" => pc'[s] = "r_push" /\ cur'[s] = cur[s]
    BY <1>5 DEF BeginTxThrows, Transition, TypeOK
  <2> QED
    BY <1>1, <2>2, <2>3, <2>4
<1>6. ASSUME NEW t \in Threads, NewWriteTx(t) \/ RollbackReader(t) \/ CloseEnd(t) PROVE StartedInv'
  <2>1. UNCHANGED <<txs, cur, readThrew>>
    BY <1>6 DEF NewWriteTx, RollbackReader, CloseEnd, dbVars
  <2>2. cur[t] \in TxIds
    BY <1>6 DEF NewWriteTx, RollbackReader, CloseEnd, Transition, CurInv, TypeOK
  <2>3. CASE NewWriteTx(t)
    BY <2>1, <2>2, <2>3, <1>1 DEF NewWriteTx, Transition, Tx, Started, Registered, TypeOK, CurInv
  <2>4. CASE RollbackReader(t)
    BY <2>1, <2>2, <2>4, <1>1 DEF RollbackReader, Transition, Started, Registered, TypeOK
  <2>5. CASE CloseEnd(t)
    BY <2>1, <2>2, <2>5, <1>1 DEF CloseEnd, Transition, Started, Registered, TypeOK, CurInv
  <2> QED
    BY <1>6, <2>3, <2>4, <2>5
<1>7. ASSUME NEW t \in Threads,
             \/ BeginTx(t) \/ LockMetaForRead(t) \/ LockSharedMmap(t) \/ StatBeginTx(t)
             \/ BeginRWTx(t) \/ LockWriter(t) \/ LockMetaForWrite(t) \/ ScanReaders(t)
             \/ ReleasePending(t) \/ UpdateReturns(t) \/ Commit(t) \/ RollbackWriter(t)
             \/ ClearRwtx(t) \/ UnlockWriter(t) \/ Drop(t) \/ BeginRWTxThrows(t)
             \/ ReleaseThrows(t) \/ NullRootTrap(t) \/ ManagedAssert(t)
      PROVE  StartedInv'
  <2> USE DEF BeginTx, LockMetaForRead, LockSharedMmap, StatBeginTx, BeginRWTx, LockWriter,
       LockMetaForWrite, ScanReaders, ReleasePending, UpdateReturns, Commit, RollbackWriter,
       ClearRwtx, UnlockWriter, Drop, BeginRWTxThrows, ReleaseThrows, NullRootTrap,
       ManagedAssert
  <2>1. UNCHANGED <<txs, state, writable, readThrew>>
    BY <1>7 DEF dbVars, txVars
  <2>2. \/ UNCHANGED <<pc, cur>>
        \/ /\ pc[t] # "r_push"
           /\ \A s \in Threads \ {t} : pc'[s] = pc[s] /\ cur'[s] = cur[s]
    BY <1>7 DEF Transition, threadVars, TypeOK
  <2> QED
    BY <1>1, <2>1, <2>2 DEF Registered, Started
<1> QED
  BY <1>2, <1>3, <1>4, <1>5, <1>6, <1>7
     DEF Next, Step, BeginReadStep, BeginWriteStep, CloseStep

\* The counters of begin_tx agree with txs_, and txs_ with the started readers, in
\* every state.
THEOREM CountsHold == Spec => [](IInv /\ CountInv /\ RegisteredInv /\ StartedInv)
<1>1. Init => CountInv /\ RegisteredInv /\ StartedInv
  <2> SUFFICES ASSUME Init PROVE CountInv /\ RegisteredInv /\ StartedInv
    OBVIOUS
  <2>1. InStat = {} /\ Unregistered = {} /\ Registered = {} /\ Started = {}
    BY DEF Init, InStat, Unregistered, Registered, Started
  <2>2. Len(txs) = 0 /\ IsInjective(txs)
    BY DEF Init, IsInjective
  <2> QED
    BY <2>1, <2>2, FS_EmptySet DEF Init, CountInv, RegisteredInv, StartedInv
<1>2. IInv /\ CountInv /\ RegisteredInv /\ StartedInv /\ [Next]_vars
        => (CountInv /\ RegisteredInv /\ StartedInv)'
  BY CountStep, RegisteredStep, StartedStep DEF IInv
<1> QED
  BY <1>1, <1>2, LockDisciplineHolds, PTL DEF Spec

\* txs_ has as many elements as there are registered readers.
LEMMA RegisteredCount ==
  ASSUME TypeOK, IsInjective(txs)
  PROVE  IsFiniteSet(Registered) /\ Cardinality(Registered) = Len(txs)
<1>1. Len(txs) \in Nat /\ DOMAIN txs = 1..Len(txs) /\ txs \in [1..Len(txs) -> TxIds]
  BY DEF TypeOK
<1>2. txs \in Surjection(1..Len(txs), Registered)
  BY <1>1 DEF Surjection, Registered
<1>3. txs \in Injection(1..Len(txs), Registered)
  BY <1>1, <1>2 DEF Injection, IsInjective, Surjection
<1>4. IsFiniteSet(1..Len(txs)) /\ Cardinality(1..Len(txs)) = Len(txs)
  <2> DEFINE n == Len(txs)
  <2>1. n \in Nat
    BY <1>1
  <2> HIDE DEF n
  <2>2. 1 \in Int /\ n \in Int
    BY <2>1
  <2>3. IsFiniteSet(1..n) /\ Cardinality(1..n) = IF 1 > n THEN 0 ELSE n - 1 + 1
    BY ONLY <2>2, FS_Interval
  <2>4. IsFiniteSet(1..n) /\ Cardinality(1..n) = n
    BY ONLY <2>1, <2>3
  <2> QED
    BY <2>4 DEF n
<1> QED
  BY <1>2, <1>3, <1>4, FS_Surjection

\* One more element makes a set larger by at most one.
LEMMA AtMostOneMore ==
  ASSUME NEW S, IsFiniteSet(S), NEW x
  PROVE  IsFiniteSet(S \cup {x}) /\ Cardinality(S \cup {x}) <= Cardinality(S) + 1
<1>1. Cardinality(S) \in Nat
  BY FS_CardinalityType
<1>2. /\ IsFiniteSet(S \cup {x})
      /\ Cardinality(S \cup {x}) = Cardinality(S) \/ Cardinality(S \cup {x}) = Cardinality(S) + 1
  BY FS_AddElement
<1> QED
  BY <1>1, <1>2

\* tx_n is the number of started readers and open_tx_n is between the open and the
\* started ones whenever no begin_tx is past its push_back and before its stats
\* update, torn reads of size() notwithstanding (db.cpp:195-199, stats.h:84-85).
THEOREM StatsAgree == Spec => []StatsSettle
<1>1. IInv /\ CountInv /\ RegisteredInv /\ StartedInv => StatsSettle
  <2> SUFFICES ASSUME IInv, CountInv, RegisteredInv, StartedInv, Settled
               PROVE  /\ tx_n = Cardinality(Started)
                      /\ Started # {} => open_tx_n \in Cardinality(OpenReaders \ {readThrew})..tx_n
    BY DEF StatsSettle
  <2>1. Started = Registered
    BY DEF Settled, StartedInv
  <2>2. IsFiniteSet(Registered) /\ Cardinality(Registered) = Len(txs)
    BY RegisteredCount DEF IInv, RegisteredInv
  <2>3. InStat = {}
    BY DEF Settled, InStat
  <2>4. tx_n = Len(txs) /\ Len(txs) \in Nat
    BY <2>3, FS_EmptySet DEF CountInv, IInv, TypeOK
  <2>5. OpenReaders \ {readThrew} \in SUBSET Started
    BY DEF OpenReaders, Started
  <2>6. /\ IsFiniteSet(OpenReaders \ {readThrew})
        /\ Cardinality(OpenReaders \ {readThrew}) <= Len(txs)
    BY <2>1, <2>2, <2>5, FS_Subset
  <2>7. Cardinality(OpenReaders \ {readThrew}) \in Nat
    BY <2>6, FS_CardinalityType
  <2>8. Started # {} => open_tx_n = Len(txs)
    <3>1. Started # {} => txs # <<>>
      BY <2>1 DEF Registered
    <3> QED
      BY <3>1 DEF CountInv, Settled
  <2> QED
    BY <2>1, <2>2, <2>4, <2>6, <2>7, <2>8
<1> QED
  BY <1>1, CountsHold, PTL

\* Every open reader is in txs_, once, and mmaplock_ is held shared at least as often
\* as there are open readers (db.cpp:174-190).
THEOREM PinsHold == Spec => []ReadersPinned
<1>1. IInv /\ CountInv /\ RegisteredInv => ReadersPinned
  <2> SUFFICES ASSUME IInv, CountInv, RegisteredInv PROVE ReadersPinned
    OBVIOUS
  <2> DEFINE Known == Registered \cup {readThrew}
  <2>1. IsInjective(txs) /\ \A x \in OpenReaders :
          x \in Known \/ \E t \in Threads : pc[t] = "r_push" /\ cur[t] = x
    BY DEF IInv, LockDiscipline, ReaderInv, RegisteredInv
  <2>2. IsFiniteSet(Registered) /\ Cardinality(Registered) = Len(txs) /\ Len(txs) \in Nat
    BY <2>1, RegisteredCount DEF IInv, TypeOK
  <2>3. Cardinality(Unregistered) \in Nat /\ IsFiniteSet(Unregistered) /\ mmaplock \in Nat
    BY FS_CardinalityType DEF CountInv, IInv, TypeOK
  <2>4. CASE \A t \in Threads : pc[t] # "r_push"
    <3>1. CASE readThrew = NoTx
      <4>1. OpenReaders \in SUBSET Registered
        BY <2>1, <2>4, <3>1, TxAssumption DEF OpenReaders
      <4>2. Cardinality(OpenReaders) <= Len(txs) /\ IsFiniteSet(OpenReaders)
        BY <2>2, <4>1, FS_Subset
      <4>3. Cardinality(OpenReaders) \in Nat
        BY <4>2, FS_CardinalityType
      <4> QED
        BY <2>1, <2>2, <2>3, <4>2, <4>3 DEF CountInv, ReadersPinned
    <3>2. CASE readThrew # NoTx
      <4>1. OpenReaders \in SUBSET Known
        BY <2>1, <2>4
      <4>2. IsFiniteSet(Known) /\ Cardinality(Known) <= Len(txs) + 1
        BY <2>2, AtMostOneMore
      <4>3. Cardinality(OpenReaders) <= Cardinality(Known) /\ IsFiniteSet(OpenReaders)
        BY <4>1, <4>2, FS_Subset
      <4>4. Cardinality(OpenReaders) \in Nat /\ Cardinality(Known) \in Nat
        BY <4>2, <4>3, FS_CardinalityType
      <4> QED
        BY <2>1, <2>2, <2>3, <3>2, <4>2, <4>3, <4>4 DEF CountInv, ReadersPinned
    <3> QED
      BY <3>1, <3>2
  <2>5. ASSUME NEW t \in Threads, pc[t] = "r_push" PROVE ReadersPinned
    <3>1. readThrew = NoTx /\ \A s \in Threads : pc[s] = "r_push" => s = t
      BY <2>5 DEF IInv, LockDiscipline, LockInv, InMeta
    <3>2. OpenReaders \in SUBSET (Registered \cup {cur[t]})
      BY <2>1, <3>1, TxAssumption DEF OpenReaders
    <3>3. IsFiniteSet(Registered \cup {cur[t]}) /\ Cardinality(Registered \cup {cur[t]}) <= Len(txs) + 1
      BY <2>2, AtMostOneMore
    <3>4. Cardinality(OpenReaders) <= Cardinality(Registered \cup {cur[t]}) /\ IsFiniteSet(OpenReaders)
      BY <3>2, <3>3, FS_Subset
    <3>5. Cardinality(OpenReaders) \in Nat /\ Cardinality(Registered \cup {cur[t]}) \in Nat
      BY <3>3, <3>4, FS_CardinalityType
    <3>6. Cardinality(Unregistered) # 0
      BY <2>3, <2>5, FS_EmptySet DEF Unregistered
    <3> QED
      BY <2>1, <2>2, <2>3, <3>1, <3>3, <3>4, <3>5, <3>6 DEF CountInv, ReadersPinned
  <2> QED
    BY <2>4, <2>5
<1> QED
  BY <1>1, CountsHold, PTL

-----------------------------------------------------------------------------
(* The transactions with the freelist and the statistics: BoltDb.           *)

LP == INSTANCE FreeListProofs WITH pc <- listpc

-----------------------------------------------------------------------------
(* The inductive invariant.                                                *)

\* A release() has thrown: rwlock_ is locked and no thread is where it is held.
Stranded == rwlock # NoThread /\ \A t \in Threads : ~InWrite(t)

\* release() is run by a thread inside begin_rwtx, with the id before its minimum.
ReleaseOwned ==
    /\ listpc \in {"idle", "loop", "merge"}
    /\ listpc # "idle" =>
         \E t \in Threads : pc[t] = "w_release" /\ minid[t] > 0 /\ upto = minid[t] - 1

\* What is on its way was freed by a transaction that release() was asked for.
MovedOld ==
    listpc # "idle" =>
        \A g \in Range(m) : \E d \in DOMAIN freedBy : d <= upto /\ g \in Range(freedBy[d])

\* The lists are as FreeListProofs describes them, unless no writer can come any more.
ListsKept == LP!FInv /\ MovedOld

DbInv == IInv /\ ReleaseOwned /\ (ListsKept \/ Stranded)

-----------------------------------------------------------------------------
(* The transactions.                                                       *)

\* What the freelist is given is what FreeListProofs assumes.
LEMMA ListAssumptions == LP!FreeListAssumption /\ LP!DistinctPages
<1>1. LP!FreeListAssumption
  BY DbAssumption DEF LP!FreeListAssumption, List!FreeListAssumption
<1>2. LP!DistinctPages
  BY DbAssumption DEF LP!DistinctPages, List!DistinctPages, LP!PagesOf, List!PagesOf,
      LP!Loaded, List!Loaded, LP!Header, List!Header, LP!Range, List!Range,
      LP!IsInjective, List!IsInjective
<1> QED
  BY <1>1, <1>2

\* The steps of a transaction that are not in release().
TxStep(t) == LockingStep(t) \/ CallerStep(t) \/ StatBeginTx(t) \/ CloseEnd(t)

\* The composition only adds to the steps of BoltTx.
LEMMA DbStepIsTxStep == DbNext => [Next]_vars
<1>1. ASSUME NEW t \in Threads, TxStep(t) \/ ReleaseThrows(t) \/ ReleasePending(t)
      PROVE  Next
  BY <1>1 DEF TxStep, LockingStep, CallerStep, Next, Step, BeginReadStep, BeginWriteStep,
      CloseStep
<1> QED
  BY <1>1 DEF DbNext, DbStep, ReleaseBegin, ReleaseEntry, ReleaseReturns, ReleaseAborts,
      CountReader, LockStats, MergeStats, TxStep

\* A thread inside release() stays there, with its minimum, while others move.
LEMMA ReleaserStays ==
  ASSUME TypeOK, NEW t \in Threads, TxStep(t), NEW s \in Threads, pc[s] = "w_release"
  PROVE  pc'[s] = "w_release" /\ minid'[s] = minid[s]
  BY DEF TypeOK, TxStep, LockingStep, CallerStep, Transition, BeginTx, LockMetaForRead,
      LockSharedMmap, NewReadTx, PushTx, StatBeginTx, BeginRWTx, LockWriter,
      LockMetaForWrite, NewWriteTx, ScanReaders, UpdateReturns, Commit, RollbackReader,
      RollbackWriter, ClearRwtx, UnlockWriter, CloseEnd, Drop, BeginTxThrows,
      BeginRWTxThrows, NullRootTrap, ManagedAssert, threadVars

\* Once rwlock_ has been left locked, no thread comes to hold it again.
LEMMA StrandedStays ==
  ASSUME TypeOK, CurInv, Stranded, NEW t \in Threads, TxStep(t) PROVE Stranded'
<1> USE TxAssumption
<1>1. CASE BeginTx(t)
  BY <1>1 DEF BeginTx, Transition, dbVars, txVars, TypeOK, CurInv, Stranded, InWrite
<1>2. CASE LockMetaForRead(t)
  BY <1>2 DEF LockMetaForRead, Transition, dbVars, txVars, TypeOK, CurInv, Stranded, InWrite
<1>3. CASE LockSharedMmap(t)
  BY <1>3 DEF LockSharedMmap, Transition, dbVars, txVars, TypeOK, CurInv, Stranded, InWrite
<1>4. CASE NewReadTx(t)
  BY <1>4 DEF NewReadTx, Transition, Tx, dbVars, txVars, TypeOK, CurInv, Stranded, InWrite
<1>5. CASE PushTx(t)
  BY <1>5 DEF PushTx, Transition, dbVars, txVars, TypeOK, CurInv, Stranded, InWrite
<1>6. CASE StatBeginTx(t)
  BY <1>6 DEF StatBeginTx, Transition, dbVars, txVars, TypeOK, CurInv, Stranded, InWrite
<1>7. CASE BeginRWTx(t)
  BY <1>7 DEF BeginRWTx, Transition, dbVars, txVars, TypeOK, CurInv, Stranded, InWrite
<1>8. CASE LockWriter(t)
  BY <1>8 DEF LockWriter, Transition, dbVars, txVars, TypeOK, CurInv, Stranded, InWrite
<1>9. CASE LockMetaForWrite(t)
  BY <1>9 DEF LockMetaForWrite, Transition, dbVars, txVars, TypeOK, CurInv, Stranded, InWrite
<1>10. CASE NewWriteTx(t)
  BY <1>10 DEF NewWriteTx, Transition, Tx, dbVars, txVars, TypeOK, CurInv, Stranded, InWrite
<1>11. CASE ScanReaders(t)
  BY <1>11 DEF ScanReaders, Transition, dbVars, txVars, TypeOK, CurInv, Stranded, InWrite
<1>12. CASE UpdateReturns(t)
  BY <1>12 DEF UpdateReturns, Transition, dbVars, txVars, TypeOK, CurInv, Stranded, InWrite
<1>13. CASE Commit(t)
  BY <1>13 DEF Commit, Transition, dbVars, txVars, TypeOK, CurInv, Stranded, InWrite
<1>14. CASE RollbackReader(t)
  BY <1>14 DEF RollbackReader, Transition, dbVars, txVars, TypeOK, CurInv, Stranded, InWrite
<1>15. CASE RollbackWriter(t)
  BY <1>15 DEF RollbackWriter, Transition, dbVars, txVars, TypeOK, CurInv, Stranded, InWrite
<1>16. CASE ClearRwtx(t)
  BY <1>16 DEF ClearRwtx, Transition, dbVars, txVars, TypeOK, CurInv, Stranded, InWrite
<1>17. CASE UnlockWriter(t)
  BY <1>17 DEF UnlockWriter, Transition, dbVars, txVars, TypeOK, CurInv, Stranded, InWrite
<1>18. CASE CloseEnd(t)
  BY <1>18 DEF CloseEnd, Transition, dbVars, txVars, TypeOK, CurInv, Stranded, InWrite
<1>19. CASE Drop(t)
  BY <1>19 DEF Drop, Transition, dbVars, txVars, TypeOK, CurInv, Stranded, InWrite
<1>20. CASE NullRootTrap(t)
  BY <1>20 DEF NullRootTrap, threadVars, dbVars, txVars, TypeOK, CurInv, Stranded, InWrite
<1>21. CASE ManagedAssert(t)
  BY <1>21 DEF ManagedAssert, threadVars, dbVars, txVars, TypeOK, CurInv, Stranded, InWrite
<1>22. CASE BeginTxThrows(t)
  BY <1>22 DEF BeginTxThrows, Transition, Tx, dbVars, txVars, TypeOK, CurInv, Stranded, InWrite
<1>23. CASE BeginRWTxThrows(t)
  BY <1>23 DEF BeginRWTxThrows, Transition, dbVars, txVars, TypeOK, CurInv, Stranded, InWrite
<1> QED
  BY <1>1, <1>2, <1>3, <1>4, <1>5, <1>6, <1>7, <1>8, <1>9, <1>10, <1>11, <1>12,
      <1>13, <1>14, <1>15, <1>16, <1>17, <1>18, <1>19, <1>20, <1>21, <1>22, <1>23
     DEF TxStep, LockingStep, CallerStep

-----------------------------------------------------------------------------
(* The lists.                                                              *)

\* The operators that the composition and the proofs about the lists share.
LEMMA SameOperators ==
  /\ \A s : List!Rearrangements(s) = LP!Rearrangements(s)
  /\ \A s : List!IsSorted(s) <=> LP!IsSorted(s)
  /\ \A f : Range(f) = LP!Range(f) /\ List!Range(f) = LP!Range(f)
  /\ \A f : List!IsInjective(f) <=> LP!IsInjective(f)
  /\ \A d : List!PagesOf(d) = LP!PagesOf(d)
  /\ \A p : List!Loaded(p) = LP!Loaded(p)
<1>1. \A S, T : List!Bijection(S, T) = LP!Bijection(S, T)
  BY DEF List!Bijection, LP!Bijection, List!Injection, LP!Injection, List!Surjection,
      LP!Surjection, List!IsInjective, LP!IsInjective
<1>2. \A s : List!Rearrangements(s) = LP!Rearrangements(s)
  BY <1>1 DEF List!Rearrangements, LP!Rearrangements
<1>3. \A s : List!IsSorted(s) <=> LP!IsSorted(s)
  BY DEF List!IsSorted, LP!IsSorted
<1>4. \A f : Range(f) = LP!Range(f) /\ List!Range(f) = LP!Range(f)
  BY DEF Range, List!Range, LP!Range
<1>5. \A f : List!IsInjective(f) <=> LP!IsInjective(f)
  BY DEF List!IsInjective, LP!IsInjective
<1>6. \A d : List!PagesOf(d) = LP!PagesOf(d)
  BY <1>4 DEF List!PagesOf, LP!PagesOf
<1>7. \A p : List!Loaded(p) = LP!Loaded(p)
  BY DEF List!Loaded, LP!Loaded, List!Header, LP!Header
<1> QED
  BY <1>2, <1>3, <1>4, <1>5, <1>6, <1>7

\* The lists as the constructor leaves them.
LEMMA InitLists == DbInit => ListsKept
<1> SUFFICES ASSUME DbInit PROVE ListsKept
  OBVIOUS
<1> USE ListAssumptions
<1>1. /\ pending \in Pendings /\ freedBy = pending /\ m = <<>> /\ mark = -1
      /\ listpc = "idle" /\ upto = 0
  BY DEF DbInit
<1>2. PICK p \in Pages : ids \in LP!Rearrangements(LP!Loaded(p))
  BY SameOperators DEF DbInit, List!sort
<1>3. LP!Loaded(p) \in Seq(Pgids) /\ LP!IsInjective(LP!Loaded(p))
  BY DEF LP!DistinctPages
<1>4. ids \in Seq(Pgids) /\ LP!Range(ids) = LP!Range(LP!Loaded(p)) /\ LP!IsInjective(ids)
  BY <1>2, <1>3, LP!Rearranged
<1>5. LP!Range(m) = {} /\ LP!IsInjective(m)
  BY <1>1 DEF LP!Range, LP!IsInjective
<1>6. cache = LP!Range(ids) \cup LP!PagesOf(pending)
  BY SameOperators DEF DbInit, List!reindex
<1>7. DOMAIN pending \subseteq Txids /\ pending \in [DOMAIN pending -> Seq(Pgids)]
  BY <1>1 DEF LP!FreeListAssumption
<1>8. LP!PagesOf(pending) \subseteq Pgids /\ LP!Range(ids) \subseteq Pgids
  BY <1>4, <1>7 DEF LP!PagesOf, LP!Range
<1>9. LP!TypeOK
  BY <1>1, <1>4, <1>6, <1>7, <1>8 DEF LP!TypeOK
<1>10. LP!NoPageTwice /\ LP!ListsInv
  BY <1>1, <1>4, <1>5 DEF LP!NoPageTwice, LP!ListsInv, LP!DistinctPages
<1>11. LP!CacheExact /\ LP!LocalInv
  BY <1>1, <1>5, <1>6 DEF LP!CacheExact, LP!LocalInv
<1>12. LP!OwnerInv
  <2>1. DOMAIN pending \subseteq Nat
    BY <1>7 DEF Txids
  <2> QED
    BY <1>1, <2>1 DEF LP!OwnerInv
<1> QED
  BY <1>1, <1>9, <1>10, <1>11, <1>12 DEF ListsKept, LP!FInv, MovedOld

\* The lists do not depend on anything else.
LEMMA ListsStay == ASSUME ListsKept, UNCHANGED listVars PROVE ListsKept'
<1>1. LP!FInv'
  BY DEF ListsKept, listVars, LP!FInv, LP!TypeOK, LP!LocalInv, LP!OwnerInv, LP!ListsInv,
      LP!NoPageTwice, LP!CacheExact, LP!PagesOf
<1>2. MovedOld'
  BY DEF ListsKept, listVars, MovedOld
<1> QED
  BY <1>1, <1>2 DEF ListsKept

LEMMA CallKeepsLists ==
  ASSUME ListsKept, NEW d \in Txids, List!ReleaseCall(d) PROVE ListsKept'
<1>1. LP!ReleaseCall(d)
  BY DEF List!ReleaseCall, LP!ReleaseCall
<1>2. LP!FInv'
  BY <1>1, ListAssumptions, LP!CallStep DEF ListsKept
<1>3. MovedOld'
  <2>1. m' = <<>>
    BY DEF List!ReleaseCall
  <2>2. Range(m') = {}
    BY <2>1 DEF Range
  <2> QED
    BY <2>2 DEF MovedOld
<1> QED
  BY <1>2, <1>3 DEF ListsKept

\* A page that starts moving comes from the entry of the transaction that freed it.
LEMMA MoveKeepsLists ==
  ASSUME ListsKept, NEW d \in Txids, List!ReleaseMove(d) PROVE ListsKept'
<1>1. LP!ReleaseMove(d)
  BY DEF List!ReleaseMove, LP!ReleaseMove, List!Restrict, LP!Restrict
<1>2. LP!FInv'
  BY <1>1, ListAssumptions, LP!MoveStep DEF ListsKept
<1>3. /\ listpc = "loop" /\ d \in DOMAIN pending /\ d <= upto /\ m' = m \o pending[d]
      /\ UNCHANGED <<upto, freedBy, listpc>>
  BY DEF List!ReleaseMove
<1>4. m \in Seq(Pgids) /\ pending[d] \in Seq(Pgids)
  BY <1>3 DEF ListsKept, LP!FInv, LP!TypeOK
<1>5. Range(m') = Range(m) \cup Range(pending[d])
  <2>1. LP!Range(m \o pending[d]) = LP!Range(m) \cup LP!Range(pending[d])
    BY <1>4, LP!RangeConcat, ListAssumptions
  <2> QED
    BY <1>3, <2>1, SameOperators
<1>6. d \in DOMAIN freedBy /\ pending[d] = freedBy[d]
  BY <1>3 DEF ListsKept, LP!FInv, LP!OwnerInv
<1>7. MovedOld'
  BY <1>3, <1>5, <1>6 DEF ListsKept, MovedOld
<1> QED
  BY <1>2, <1>7 DEF ListsKept

LEMMA LoopEndKeepsLists == ASSUME ListsKept, List!ReleaseLoopEnd PROVE ListsKept'
<1>1. LP!ReleaseLoopEnd
  BY DEF List!ReleaseLoopEnd, LP!ReleaseLoopEnd
<1>2. LP!FInv'
  BY <1>1, ListAssumptions, LP!LoopEndStep DEF ListsKept
<1>3. MovedOld'
  BY DEF ListsKept, List!ReleaseLoopEnd, MovedOld
<1> QED
  BY <1>2, <1>3 DEF ListsKept

LEMMA MergeKeepsLists == ASSUME ListsKept, List!ReleaseMerge PROVE ListsKept'
<1>1. LP!ReleaseMerge
  BY SameOperators DEF List!ReleaseMerge, LP!ReleaseMerge, List!inplace_merge,
      LP!inplace_merge
<1>2. LP!FInv'
  BY <1>1, ListAssumptions, LP!MergeStep DEF ListsKept
<1>3. MovedOld'
  BY DEF List!ReleaseMerge, MovedOld
<1> QED
  BY <1>2, <1>3 DEF ListsKept

-----------------------------------------------------------------------------
(* The composition.                                                        *)

\* A thread inside release() holds rwlock_ and metalock_, and no other thread is there.
LEMMA ReleaserAlone ==
  ASSUME IInv, NEW t \in Threads, pc[t] = "w_release"
  PROVE  /\ InWrite(t) /\ rwlock = t /\ ~Stranded
         /\ \A s \in Threads : InWrite(s) \/ pc[s] = "w_release" => s = t
<1>1. InWrite(t) /\ \A s \in Threads : pc[s] = "w_release" => InWrite(s)
  BY DEF InWrite
<1>2. \A s \in Threads : InWrite(s) => rwlock = s
  BY DEF IInv, LockDiscipline, LockInv
<1> QED
  BY <1>1, <1>2 DEF Stranded

\* Steps that touch neither list nor release().
LEMMA TxKeepsDbInv ==
  ASSUME DbInv, IInv', NEW t \in Threads, TxStep(t), UNCHANGED listVars
  PROVE  DbInv'
<1>1. ReleaseOwned'
  <2>1. listpc \in {"idle", "loop", "merge"} /\ UNCHANGED <<listpc, upto>>
    BY DEF DbInv, ReleaseOwned, listVars
  <2>2. CASE listpc = "idle"
    BY <2>1, <2>2 DEF ReleaseOwned
  <2>3. CASE listpc # "idle"
    <3>1. PICK s \in Threads : pc[s] = "w_release" /\ minid[s] > 0 /\ upto = minid[s] - 1
      BY <2>3 DEF DbInv, ReleaseOwned
    <3>2. pc'[s] = "w_release" /\ minid'[s] = minid[s]
      BY <3>1, ReleaserStays DEF DbInv, IInv
    <3> QED
      BY <2>1, <3>1, <3>2 DEF ReleaseOwned
  <2> QED
    BY <2>2, <2>3
<1>2. ListsKept' \/ Stranded'
  BY ListsStay, StrandedStays DEF DbInv, IInv, LockDiscipline
<1> QED
  BY <1>1, <1>2 DEF DbInv

\* Nothing that the invariant is about has changed.
LEMMA StatsKeepDbInv ==
  ASSUME DbInv, IInv', UNCHANGED vars, UNCHANGED listVars PROVE DbInv'
<1>1. UNCHANGED <<rwlock, pc, cur, state, writable, minid, listpc, upto>>
  BY DEF vars, dbVars, txVars, threadVars, listVars
<1>2. ReleaseOwned' /\ (Stranded => Stranded')
  BY <1>1 DEF DbInv, ReleaseOwned, Stranded, InWrite
<1> QED
  BY <1>2, ListsStay DEF DbInv

LEMMA ReleaseBeginKeeps ==
  ASSUME DbInv, IInv', NEW t \in Threads, ReleaseBegin(t) PROVE DbInv'
<1>1. /\ pc[t] = "w_release" /\ minid[t] > 0 /\ List!ReleaseCall(minid[t] - 1)
      /\ UNCHANGED <<pc, minid>>
  BY DEF ReleaseBegin, vars, threadVars
<1>2. minid[t] - 1 \in Txids
  <2>1. minid[t] \in 0..TxidMax
    BY DEF DbInv, IInv, TypeOK, Txids
  <2> QED
    BY <1>1, <2>1, TxAssumption DEF Txids
<1>3. ListsKept
  BY <1>1, ReleaserAlone DEF DbInv
<1>4. ListsKept'
  BY <1>1, <1>2, <1>3, CallKeepsLists
<1>5. ReleaseOwned'
  BY <1>1 DEF List!ReleaseCall, ReleaseOwned
<1> QED
  BY <1>4, <1>5 DEF DbInv

LEMMA ReleaseEntryKeeps ==
  ASSUME DbInv, IInv', NEW t \in Threads, ReleaseEntry(t) PROVE DbInv'
<1>1. /\ pc[t] = "w_release" /\ UNCHANGED <<pc, minid>>
      /\ List!ReleaseLoopEnd \/ \E d \in Txids : List!ReleaseMove(d)
  BY DEF ReleaseEntry, vars, threadVars
<1>2. ListsKept
  BY <1>1, ReleaserAlone DEF DbInv
<1>3. ListsKept'
  BY <1>1, <1>2, LoopEndKeepsLists, MoveKeepsLists
<1>4. listpc # "idle" /\ listpc' \in {"loop", "merge"} /\ upto' = upto
  BY <1>1 DEF List!ReleaseLoopEnd, List!ReleaseMove
<1>5. ReleaseOwned'
  BY <1>1, <1>4 DEF DbInv, ReleaseOwned
<1> QED
  BY <1>3, <1>5 DEF DbInv

LEMMA ReleaseReturnsKeeps ==
  ASSUME DbInv, IInv', NEW t \in Threads, ReleaseReturns(t) PROVE DbInv'
<1>1. /\ pc[t] = "w_release"
      /\ IF minid[t] > 0 THEN List!ReleaseMerge ELSE UNCHANGED listVars
  BY DEF ReleaseReturns, ReleasePending, Transition
<1>2. ListsKept
  BY <1>1, ReleaserAlone DEF DbInv
<1>3. ListsKept'
  BY <1>1, <1>2, MergeKeepsLists, ListsStay
<1>4. listpc' = "idle"
  <2>1. CASE minid[t] > 0
    BY <1>1, <2>1 DEF List!ReleaseMerge
  <2>2. CASE ~(minid[t] > 0)
    <3>1. listpc = "idle"
      BY <1>1, <2>2, ReleaserAlone DEF DbInv, ReleaseOwned
    <3> QED
      BY <1>1, <2>2, <3>1 DEF listVars
  <2> QED
    BY <2>1, <2>2
<1> QED
  BY <1>3, <1>4 DEF DbInv, ReleaseOwned

\* The exception leaves rwlock_ behind, and the lists to nobody.
LEMMA ReleaseAbortsKeeps ==
  ASSUME DbInv, IInv', NEW t \in Threads, ReleaseAborts(t) PROVE DbInv'
<1>1. /\ pc[t] = "w_release" /\ pc' = [pc EXCEPT ![t] = "idle"] /\ listpc' = "idle"
      /\ UNCHANGED <<rwlock, state, writable>> /\ cur' = [cur EXCEPT ![t] = NoTx]
  BY DEF ReleaseAborts, ReleaseThrows, Transition, txVars
<1>2. rwlock = t /\ \A s \in Threads : s # t => ~InWrite(s)
  BY <1>1, ReleaserAlone DEF DbInv
<1>3. Stranded'
  BY <1>1, <1>2, TxAssumption DEF Stranded, InWrite, DbInv, IInv, TypeOK
<1> QED
  BY <1>1, <1>3 DEF DbInv, ReleaseOwned

LEMMA DbInvStep == DbInv /\ [DbNext]_allVars => DbInv'
<1> SUFFICES ASSUME DbInv, [DbNext]_allVars PROVE DbInv'
  OBVIOUS
<1>1. IInv'
  <2>1. [Next]_vars
    BY DbStepIsTxStep DEF allVars
  <2> QED
    BY <2>1, TypeStep, CurStep, LockStep, RwtxStep, ReaderStep
       DEF DbInv, IInv, LockDiscipline
<1>2. CASE UNCHANGED allVars
  BY <1>1, <1>2, StatsKeepDbInv DEF allVars
<1>3. ASSUME NEW t \in Threads,
             \/ (LockingStep(t) \/ CallerStep(t)) /\ UNCHANGED <<listVars, statVars>>
             \/ CountReader(t) \/ MergeStats(t)
      PROVE  DbInv'
  <2>1. TxStep(t) /\ UNCHANGED listVars
    BY <1>3 DEF TxStep, CountReader, MergeStats
  <2> QED
    BY <1>1, <2>1, TxKeepsDbInv
<1>4. ASSUME NEW t \in Threads, LockStats(t) PROVE DbInv'
  BY <1>1, <1>4, StatsKeepDbInv DEF LockStats
<1> QED
  BY <1>1, <1>2, <1>3, <1>4, ReleaseBeginKeeps, ReleaseEntryKeeps, ReleaseReturnsKeeps,
     ReleaseAbortsKeeps DEF DbNext, DbStep

-----------------------------------------------------------------------------
(* The theorems.                                                           *)

\* With the freelist and the statistics beside them, the transactions are still those
\* of BoltTx, so that everything shown of BoltTx holds of the composition.
THEOREM ImplementsBoltTx == DbSpec => Spec
<1>1. DbInit => Init
  BY DEF DbInit
<1>2. [DbNext]_allVars => [Next]_vars
  BY DbStepIsTxStep DEF allVars
<1> QED
  BY <1>1, <1>2, PTL DEF DbSpec, Spec

\* The locks, the place of every release() and the lists in every state.
THEOREM DbInvariant == DbSpec => []DbInv
<1>1. DbInit => DbInv
  BY InitIInv, InitLists DEF DbInit, DbInv, ReleaseOwned
<1> QED
  BY <1>1, DbInvStep, PTL DEF DbSpec

\* A writer never meets lists that a release() has left half way (freelist.cpp:10-12).
THEOREM WritersSeeExactLists == DbSpec => []WriterSeesExactLists
<1>1. DbInv => WriterSeesExactLists
  <2> SUFFICES ASSUME DbInv, NEW t \in Threads, InWrite(t)
               PROVE  List!CacheExact /\ List!NoPageTwice
    BY DEF WriterSeesExactLists
  <2>1. LP!CacheExact /\ LP!NoPageTwice
    BY DEF DbInv, Stranded, ListsKept, LP!FInv
  <2> QED
    BY <2>1, SameOperators
       DEF LP!CacheExact, List!CacheExact, LP!NoPageTwice, List!NoPageTwice
<1> QED
  BY <1>1, DbInvariant, PTL

\* New pages in ids come from m, and those are older than every open reader.
LEMMA PagesStep ==
  DbInv /\ [DbNext]_allVars =>
    \A x \in OpenReaders : \A d \in DOMAIN freedBy :
       txid[x] <= d => Range(freedBy[d]) \cap (Range(ids') \ Range(ids)) = {}
<1> SUFFICES ASSUME DbInv, [DbNext]_allVars, NEW x \in OpenReaders,
                    NEW d \in DOMAIN freedBy, txid[x] <= d,
                    NEW g \in Range(freedBy[d]), g \in Range(ids'), g \notin Range(ids)
             PROVE  FALSE
  OBVIOUS
<1>1. ids' # ids
  OBVIOUS
<1>2. PICK t \in Threads : ReleaseReturns(t) /\ List!ReleaseMerge
  BY <1>1 DEF DbNext, DbStep, ReleaseBegin, ReleaseEntry, ReleaseReturns, ReleaseAborts,
      CountReader, LockStats, MergeStats, allVars, listVars, List!ReleaseCall,
      List!ReleaseMove, List!ReleaseLoopEnd
<1>3. /\ pc[t] = "w_release" /\ listpc = "merge"
      /\ ids' \in LP!Rearrangements(ids \o m)
  BY <1>2, SameOperators DEF ReleaseReturns, ReleasePending, Transition, List!ReleaseMerge,
      List!inplace_merge
<1>4. ListsKept
  BY <1>3, ReleaserAlone DEF DbInv
<1>5. ids \in Seq(Pgids) /\ m \in Seq(Pgids) /\ freedBy \in Pendings
  BY <1>4 DEF ListsKept, LP!FInv, LP!TypeOK
<1>6. Range(ids') = Range(ids) \cup Range(m)
  <2>1. /\ ids \o m \in Seq(Pgids)
        /\ LP!Range(ids \o m) = LP!Range(ids) \cup LP!Range(m)
    BY <1>5, LP!RangeConcat, ListAssumptions
  <2>2. LP!Range(ids') = LP!Range(ids \o m)
    BY <1>3, <2>1, LP!Rearranged, ListAssumptions
  <2> QED
    BY <2>1, <2>2, SameOperators
<1>7. PICK e \in DOMAIN freedBy : e <= upto /\ g \in Range(freedBy[e])
  BY <1>3, <1>4, <1>6 DEF ListsKept, MovedOld
<1>8. upto = minid[t] - 1 /\ minid[t] <= txid[x]
  BY <1>3, ReleaserAlone DEF DbInv, ReleaseOwned, IInv, LockDiscipline, ReaderInv
<1>9. e \in Int /\ d \in Int /\ minid[t] \in Int /\ txid[x] \in Int
  <2>1. DOMAIN freedBy \subseteq Txids
    BY <1>5, ListAssumptions DEF LP!FreeListAssumption
  <2> QED
    BY <2>1, TxAssumption DEF DbInv, IInv, TypeOK, Txids, OpenReaders
<1>10. e # d
  BY <1>7, <1>8, <1>9
<1> QED
  BY <1>5, <1>7, <1>10, ListAssumptions, SameOperators DEF LP!DistinctPages

\* No page that an open reader may look at becomes available while release() moves
\* pages step by step (db.cpp:228-236).
THEOREM ReadersKeepTheirPages == DbSpec => PagesOfReadersStay
<1>1. DbInv /\ [DbNext]_allVars =>
        [\A x \in OpenReaders : \A d \in DOMAIN freedBy :
           txid[x] <= d => Range(freedBy[d]) \cap (Range(ids') \ Range(ids)) = {}]_allVars
  BY PagesStep
<1> QED
  BY DbInvariant, <1>1, PTL DEF DbSpec, PagesOfReadersStay

-----------------------------------------------------------------------------
(* Sums over finite sets.                                                  *)

SumOf(f, S) == MapThenSumSet(LAMBDA x : f[x], S)

\* G gives every subset of S a sum, to which any of its elements adds its own value.
Additive(f, S, G) ==
    /\ G \in [SUBSET S -> Int] /\ G[{}] = 0
    /\ \A s \in SUBSET S : \A x \in s : G[s] = f[x] + G[s \ {x}]

\* One more element.
LEMMA AdditiveGrows ==
  ASSUME NEW f, NEW S, NEW x \in S, \A y \in S : f[y] \in Int, NEW G, Additive(f, S \ {x}, G)
  PROVE  \E H : Additive(f, S, H)
<1> DEFINE R == S \ {x}
           H == [s \in SUBSET S |-> IF x \in s THEN f[x] + G[s \ {x}] ELSE G[s]]
<1>1. /\ \A s \in SUBSET R : G[s] \in Int
      /\ G[{}] = 0 /\ \A s \in SUBSET R : \A y \in s : G[s] = f[y] + G[s \ {y}]
  BY DEF Additive
<1>2. \A s \in SUBSET S : s \ {x} \in SUBSET R /\ (x \notin s => s \in SUBSET R)
  OBVIOUS
<1>3. H \in [SUBSET S -> Int] /\ H[{}] = 0
  <2>1. \A s \in SUBSET S : (IF x \in s THEN f[x] + G[s \ {x}] ELSE G[s]) \in Int
    BY <1>1, <1>2
  <2>2. {} \in SUBSET S /\ x \notin {}
    OBVIOUS
  <2> QED
    BY <1>1, <2>1, <2>2
<1>4. ASSUME NEW s \in SUBSET S, NEW y \in s PROVE H[s] = f[y] + H[s \ {y}]
  <2>1. s \ {y} \in SUBSET S
    OBVIOUS
  <2>2. CASE y = x
    <3>1. H[s] = f[x] + G[s \ {x}] /\ H[s \ {x}] = G[s \ {x}]
      BY <2>1, <2>2
    <3> QED
      BY <2>2, <3>1
  <2>3. CASE y # x /\ x \notin s
    <3>1. H[s] = G[s] /\ H[s \ {y}] = G[s \ {y}] /\ s \in SUBSET R
      BY <1>2, <2>1, <2>3
    <3> QED
      BY <1>1, <3>1
  <2>4. CASE y # x /\ x \in s
    <3> DEFINE q == s \ {x}
    <3>1. q \in SUBSET R /\ y \in q /\ q \ {y} \in SUBSET R /\ (s \ {y}) \ {x} = q \ {y}
      BY <2>4
    <3>2. H[s] = f[x] + G[q] /\ H[s \ {y}] = f[x] + G[q \ {y}]
      BY <2>1, <2>4, <3>1
    <3> HIDE DEF q, H
    <3>3. G[q] = f[y] + G[q \ {y}] /\ G[q] \in Int /\ G[q \ {y}] \in Int
      BY <1>1, <3>1
    <3>4. f[y] \in Int
      BY <1>4
    <3> QED
      BY <3>2, <3>3, <3>4
  <2> QED
    BY <2>2, <2>3, <2>4
<1>5. Additive(f, S, H)
  <2> HIDE DEF H
  <2> QED
    BY <1>3, <1>4 DEF Additive
<1> QED
  BY <1>5

LEMMA AdditiveExists ==
  ASSUME NEW f, NEW S, IsFiniteSet(S), \A x \in S : f[x] \in Int
  PROVE  \E G : Additive(f, S, G)
<1> DEFINE Bad(R) == /\ IsFiniteSet(R) /\ \A x \in R : f[x] \in Int
                     /\ ~\E G : Additive(f, R, G)
           T == {n \in Nat : \E R : Bad(R) /\ Cardinality(R) = n}
<1> SUFFICES ASSUME Bad(S) PROVE FALSE
  OBVIOUS
<1>1. T \subseteq Nat /\ Cardinality(S) \in T
  BY FS_CardinalityType
<1>2. PICK n \in T : \A k \in T : n <= k
  <2> HIDE DEF T
  <2> QED
    BY <1>1, FirstNat
<1>3. PICK R : Bad(R) /\ Cardinality(R) = n
  BY <1>2
<1>4. n \in Nat
  BY <1>1, <1>2
<1>5. R # {}
  <2> SUFFICES ASSUME R = {} PROVE FALSE
    OBVIOUS
  <2> DEFINE G == [s \in SUBSET {} |-> 0]
  <2>1. Additive(f, R, G)
    BY DEF Additive
  <2> QED
    BY <1>3, <2>1
<1>6. PICK x \in R : TRUE
  BY <1>5
<1>7. IsFiniteSet(R \ {x}) /\ Cardinality(R \ {x}) = n - 1
  BY <1>3, <1>6, FS_RemoveElement
<1>8. \A y \in R \ {x} : f[y] \in Int
  BY <1>3
<1>9. n - 1 \in Nat
  BY <1>7, FS_CardinalityType
<1>10. ~Bad(R \ {x})
  <2> SUFFICES ASSUME Bad(R \ {x}) PROVE FALSE
    OBVIOUS
  <2>1. n - 1 \in T
    BY <1>7, <1>9
  <2> HIDE DEF T
  <2> QED
    BY <1>2, <1>4, <2>1
<1>11. PICK G : Additive(f, R \ {x}, G)
  BY <1>7, <1>8, <1>10
<1>12. \A y \in R : f[y] \in Int
  BY <1>3
<1> QED
  BY <1>3, <1>6, <1>11, <1>12, AdditiveGrows

\* The sum that MapThenSumSet adds up in the order CHOOSE gives is the one of any such G.
LEMMA SumIs ==
  ASSUME NEW f, NEW S, IsFiniteSet(S), NEW G, Additive(f, S, G)
  PROVE  SumOf(f, S) = G[S]
<1> DEFINE pick(s) == CHOOSE x \in s : TRUE
           Rec(F) == F = [s \in SUBSET S |-> IF s = {} THEN 0 ELSE f[pick(s)] + F[s \ {pick(s)}]]
           I == CHOOSE F : Rec(F)
<1>1. SumOf(f, S) = I[S]
  BY DEF SumOf, MapThenSumSet, MapThenFoldSet
<1>2. \A s \in SUBSET S : s # {} => pick(s) \in s
  OBVIOUS
<1>3. /\ G = [s \in SUBSET S |-> G[s]] /\ G[{}] = 0
      /\ \A s \in SUBSET S : \A x \in s : G[s] = f[x] + G[s \ {x}]
  BY DEF Additive
<1> HIDE DEF pick
<1>4. Rec(G)
  <2>1. \A s \in SUBSET S : G[s] = IF s = {} THEN 0 ELSE f[pick(s)] + G[s \ {pick(s)}]
    BY <1>2, <1>3
  <2> QED
    BY <1>3, <2>1
<1>5. Rec(I)
  BY <1>4
<1> HIDE DEF I
<1>6. \A s \in SUBSET S : I[s] = IF s = {} THEN 0 ELSE f[pick(s)] + I[s \ {pick(s)}]
  BY <1>5
<1>7. \A s \in SUBSET S : I[s] = G[s]
  <2> DEFINE T == {n \in Nat : \E s \in SUBSET S : I[s] # G[s] /\ Cardinality(s) = n}
  <2> SUFFICES ASSUME NEW r \in SUBSET S, I[r] # G[r] PROVE FALSE
    OBVIOUS
  <2>1. T \subseteq Nat /\ Cardinality(r) \in T
    BY FS_Subset, FS_CardinalityType
  <2>2. PICK n \in T : \A k \in T : n <= k
    <3> HIDE DEF T
    <3> QED
      BY <2>1, FirstNat
  <2>3. PICK s \in SUBSET S : I[s] # G[s] /\ Cardinality(s) = n
    BY <2>2
  <2>4. n \in Nat /\ IsFiniteSet(s)
    BY <2>1, <2>2, FS_Subset
  <2>5. s # {}
    <3>1. {} \in SUBSET S
      OBVIOUS
    <3> QED
      BY <1>3, <1>6, <2>3, <3>1
  <2> DEFINE x == pick(s)
             q == s \ {x}
  <2>6. x \in s /\ q \in SUBSET S
    BY <1>2, <2>5
  <2>7. Cardinality(q) = n - 1 /\ n - 1 \in Nat
    <3>1. IsFiniteSet(q) /\ Cardinality(q) = n - 1
      BY <2>3, <2>4, <2>6, FS_RemoveElement
    <3> QED
      BY <3>1, FS_CardinalityType
  <2>8. I[q] = G[q]
    <3> SUFFICES ASSUME I[q] # G[q] PROVE FALSE
      OBVIOUS
    <3>1. n - 1 \in T
      BY <2>6, <2>7
    <3> HIDE DEF T
    <3> QED
      BY <2>2, <2>4, <3>1
  <2>9. I[s] = f[x] + I[q] /\ G[s] = f[x] + G[q]
    BY <1>3, <1>6, <2>5, <2>6
  <2> QED
    BY <2>3, <2>8, <2>9
<1> QED
  BY <1>1, <1>7

\* The sum over nothing, and with one more element.
LEMMA SumFacts ==
  ASSUME NEW f, NEW S, IsFiniteSet(S), \A y \in S : f[y] \in Int
  PROVE  SumOf(f, S) \in Int /\ (S = {} => SumOf(f, S) = 0)
<1>1. PICK G : Additive(f, S, G)
  BY AdditiveExists
<1>2. SumOf(f, S) = G[S]
  BY <1>1, SumIs
<1>3. G[S] \in Int /\ (S = {} => G[S] = 0)
  BY <1>1 DEF Additive
<1> QED
  BY <1>2, <1>3

LEMMA SumAdd ==
  ASSUME NEW f, NEW g, NEW S, IsFiniteSet(S), NEW x, x \notin S, f[x] \in Int,
         \A y \in S : f[y] = g[y] /\ g[y] \in Int
  PROVE  SumOf(f, S \cup {x}) = f[x] + SumOf(g, S)
<1> DEFINE U == S \cup {x}
<1>1. IsFiniteSet(U) /\ \A y \in U : f[y] \in Int
  BY FS_AddElement
<1>2. PICK G : Additive(f, U, G)
  BY <1>1, AdditiveExists
<1>3. /\ \A s \in SUBSET U : G[s] \in Int
      /\ G[{}] = 0 /\ \A s \in SUBSET U : \A y \in s : G[s] = f[y] + G[s \ {y}]
  BY <1>2 DEF Additive
<1>4. SumOf(f, U) = G[U]
  BY <1>1, <1>2, SumIs
<1>5. G[U] = f[x] + G[S]
  <2>1. x \in U /\ U \in SUBSET U /\ U \ {x} = S
    OBVIOUS
  <2> HIDE DEF U
  <2> QED
    BY <1>3, <2>1
<1> DEFINE H == [s \in SUBSET S |-> G[s]]
<1>6. Additive(g, S, H)
  <2>1. \A s \in SUBSET S : s \in SUBSET U /\ \A y \in s : s \ {y} \in SUBSET S /\ y \in S
    OBVIOUS
  <2>2. H \in [SUBSET S -> Int] /\ H[{}] = 0
    <3>1. {} \in SUBSET S
      OBVIOUS
    <3> HIDE DEF U
    <3> QED
      BY <1>3, <2>1, <3>1
  <2>3. \A s \in SUBSET S : \A y \in s : H[s] = g[y] + H[s \ {y}]
    <3> HIDE DEF U
    <3> QED
      BY <1>3, <2>1
  <2> HIDE DEF H
  <2> QED
    BY <2>2, <2>3 DEF Additive
<1>7. SumOf(g, S) = H[S] /\ H[S] = G[S]
  <2>1. S \in SUBSET S
    OBVIOUS
  <2>2. H[S] = G[S]
    BY <2>1
  <2> HIDE DEF H
  <2> QED
    BY <1>6, <2>2, SumIs
<1> QED
  BY <1>4, <1>5, <1>7

-----------------------------------------------------------------------------
(* The statistics.                                                         *)

ClosedWriters == {x \in TxIds : state[x] = "closed" /\ writable[x]}

\* Until the last step of close() the Tx is open.
ClosingOpen ==
    \A t \in Threads : pc[t] \in {"c_rwtx", "c_unlock", "c_end"} => state[cur[t]] = "open"

\* The totals hold what the closed writers added, and whoever has statlock_ has read them.
StatInv ==
    /\ ClosingOpen
    /\ stats \in [TxIds -> Int] /\ seen \in [Threads -> Int] /\ tx_stats \in Int
    /\ IsFiniteSet(ClosedWriters) /\ tx_stats = SumOf(stats, ClosedWriters)
    /\ \A t \in Threads : statlock = t => seen[t] = tx_stats

\* Only the last step of close() adds a writer to the closed ones.
LEMMA ClosedStay ==
  ASSUME IInv, ClosingOpen, NEW t \in Threads,
         \/ LockingStep(t) \/ CallerStep(t) \/ StatBeginTx(t) \/ ReleasePending(t)
         \/ ReleaseThrows(t)
  PROVE  ClosedWriters' = ClosedWriters /\ ClosingOpen'
<1> USE TxAssumption DEF IInv, LockDiscipline
<1>1. TypeOK /\ CurInv
  OBVIOUS
<1>2. CASE \/ BeginTx(t) \/ LockMetaForRead(t) \/ LockSharedMmap(t) \/ StatBeginTx(t)
           \/ BeginRWTx(t) \/ LockWriter(t) \/ LockMetaForWrite(t) \/ PushTx(t)
           \/ ScanReaders(t) \/ ReleasePending(t) \/ UpdateReturns(t) \/ Commit(t)
           \/ RollbackWriter(t) \/ ClearRwtx(t) \/ UnlockWriter(t)
           \/ Drop(t) \/ BeginRWTxThrows(t) \/ ReleaseThrows(t) \/ NullRootTrap(t)
           \/ ManagedAssert(t)
  <2> USE DEF BeginTx, LockMetaForRead, LockSharedMmap, StatBeginTx, BeginRWTx, LockWriter,
       LockMetaForWrite, PushTx, ScanReaders, ReleasePending, UpdateReturns, Commit,
       RollbackWriter, ClearRwtx, UnlockWriter, Drop, BeginRWTxThrows, ReleaseThrows,
       NullRootTrap, ManagedAssert
  <2>1. UNCHANGED <<state, writable>>
    BY <1>2 DEF txVars
  <2>2. \A s \in Threads : pc'[s] \in {"c_rwtx", "c_unlock", "c_end"} =>
          cur'[s] = cur[s] /\ state[cur[s]] = "open"
    BY <1>1, <1>2 DEF Transition, TypeOK, CurInv, ClosingOpen, threadVars
  <2> QED
    BY <2>1, <2>2 DEF ClosedWriters, ClosingOpen
<1>3. CASE NewReadTx(t) \/ NewWriteTx(t) \/ BeginTxThrows(t)
  <2> USE DEF NewReadTx, NewWriteTx, BeginTxThrows
  <2>1. cur[t] \in TxIds /\ state[cur[t]] \in {"none", "open"}
    BY <1>1, <1>3 DEF Transition, TypeOK, CurInv
  <2>2. \/ UNCHANGED <<state, writable>>
        \/ \E w \in BOOLEAN : /\ state' = [state EXCEPT ![cur[t]] = "open"]
                              /\ writable' = [writable EXCEPT ![cur[t]] = w]
    BY <1>3 DEF Tx
  <2>3. \A x \in TxIds : (state'[x] = "closed" /\ writable'[x]) <=> (state[x] = "closed" /\ writable[x])
    BY <1>1, <2>1, <2>2 DEF TypeOK
  <2>4. \A s \in Threads : pc'[s] \in {"c_rwtx", "c_unlock", "c_end"} =>
          cur'[s] = cur[s] /\ state[cur[s]] = "open" /\ cur[s] \in TxIds
    <3> SUFFICES ASSUME NEW s \in Threads, pc'[s] \in {"c_rwtx", "c_unlock", "c_end"}
                 PROVE  cur'[s] = cur[s] /\ state[cur[s]] = "open" /\ cur[s] \in TxIds
      OBVIOUS
    <3>1. s # t /\ pc'[s] = pc[s]
      BY <1>1, <1>3 DEF Transition, TypeOK
    <3>2. cur'[s] = cur[s]
      BY <1>1, <1>3, <3>1 DEF TypeOK
    <3> QED
      BY <1>1, <3>1, <3>2 DEF TypeOK, CurInv, ClosingOpen
  <2>5. \A x \in TxIds : state[x] = "open" => state'[x] = "open"
    BY <1>1, <2>1, <2>2 DEF TypeOK
  <2> QED
    BY <2>3, <2>4, <2>5 DEF ClosedWriters, ClosingOpen
<1>4. CASE RollbackReader(t)
  <2> USE DEF RollbackReader
  <2>1. /\ cur[t] \in TxIds /\ ~writable[cur[t]] /\ UNCHANGED <<writable, cur>>
        /\ state' = [state EXCEPT ![cur[t]] = "closed"]
    BY <1>1, <1>4 DEF Transition, TypeOK, CurInv
  <2>2. \A x \in TxIds : (state'[x] = "closed" /\ writable'[x]) <=> (state[x] = "closed" /\ writable[x])
    BY <1>1, <2>1 DEF TypeOK
  <2>3. \A s \in Threads : pc'[s] \in {"c_rwtx", "c_unlock", "c_end"} =>
          pc[s] = pc'[s] /\ s # t /\ cur[s] \in TxIds
    BY <1>1, <1>4 DEF Transition, TypeOK, CurInv
  <2>4. \A s \in Threads : cur[s] \in TxIds /\ s # t => cur[s] # cur[t]
    BY <1>1, <2>1 DEF CurInv
  <2> QED
    BY <1>1, <2>1, <2>2, <2>3, <2>4 DEF ClosedWriters, ClosingOpen, TypeOK
<1> QED
  BY <1>2, <1>3, <1>4 DEF LockingStep, CallerStep

LEMMA StatUnchanged ==
  ASSUME StatInv, ClosedWriters' = ClosedWriters, ClosingOpen', UNCHANGED statVars
  PROVE  StatInv'
<1>1. UNCHANGED <<statlock, tx_stats, seen, stats>>
  BY DEF statVars
<1>2. IsFiniteSet(ClosedWriters)'
  BY DEF StatInv
<1> QED
  BY <1>1, <1>2 DEF StatInv

LEMMA LockStatsKeeps ==
  ASSUME StatInv, NEW t \in Threads, LockStats(t)
  PROVE  StatInv'
<1>1. UNCHANGED <<state, writable, pc, cur, tx_stats, stats>>
  BY DEF LockStats, vars, txVars, threadVars
<1>2. ClosedWriters' = ClosedWriters /\ ClosingOpen'
  BY <1>1 DEF ClosedWriters, ClosingOpen, StatInv
<1>3. statlock' = t /\ seen' = [seen EXCEPT ![t] = tx_stats]
  BY DEF LockStats
<1>4. seen' \in [Threads -> Int] /\ seen'[t] = tx_stats
  BY <1>3 DEF StatInv
<1>5. IsFiniteSet(ClosedWriters)'
  BY <1>2 DEF StatInv
<1> QED
  BY <1>1, <1>2, <1>3, <1>4, <1>5 DEF StatInv

\* The writer that closes was not among the closed ones: its counters are added once.
LEMMA MergeStatsKeeps ==
  ASSUME IInv, StatInv, NEW t \in Threads, MergeStats(t)
  PROVE  StatInv'
<1> DEFINE x == cur[t]
           C == ClosedWriters
<1>1. TypeOK /\ CurInv /\ ClosingOpen
  BY DEF IInv, LockDiscipline, StatInv
<1>2. /\ pc[t] = "c_end" /\ pc' = [pc EXCEPT ![t] = "have"]
      /\ state' = [state EXCEPT ![x] = "closed"] /\ UNCHANGED <<writable, cur>>
  BY DEF MergeStats, CloseEnd, Transition
<1>3. x \in TxIds /\ state[x] = "open" /\ writable[x]
  BY <1>1, <1>2 DEF TypeOK, CurInv, ClosingOpen
<1>4. PICK v \in Garbage : tx_stats' = seen[t] + v /\ stats' = [stats EXCEPT ![x] = v]
  BY DEF MergeStats
<1>5. v \in Int
  BY TxAssumption DEF TxAssumption
<1>6. x \notin C /\ C \in SUBSET TxIds
  BY <1>3 DEF ClosedWriters
<1>7. ClosedWriters' = C \cup {x}
  <2>1. \A y \in TxIds : (state'[y] = "closed" /\ writable'[y])
                           <=> (state[y] = "closed" /\ writable[y]) \/ y = x
    BY <1>1, <1>2, <1>3 DEF TypeOK
  <2> QED
    BY <1>3, <2>1 DEF ClosedWriters
<1>8. ClosingOpen'
  <2> SUFFICES ASSUME NEW s \in Threads, pc'[s] \in {"c_rwtx", "c_unlock", "c_end"}
               PROVE  state'[cur'[s]] = "open"
    BY DEF ClosingOpen
  <2>1. s # t /\ pc'[s] = pc[s]
    BY <1>1, <1>2 DEF TypeOK
  <2>2. cur[s] \in TxIds /\ state[cur[s]] = "open" /\ cur[s] # x
    BY <1>1, <1>3, <2>1, TxAssumption DEF TypeOK, CurInv, ClosingOpen, TxAssumption
  <2> QED
    BY <1>1, <1>2, <2>2 DEF TypeOK
<1>9. /\ stats \in [TxIds -> Int] /\ seen[t] = tx_stats /\ tx_stats \in Int
      /\ IsFiniteSet(C) /\ tx_stats = SumOf(stats, C)
  BY DEF StatInv, MergeStats
<1> DEFINE f == stats'
<1>10. f \in [TxIds -> Int] /\ f[x] = v /\ \A y \in C : f[y] = stats[y] /\ stats[y] \in Int
  BY <1>3, <1>4, <1>5, <1>6, <1>9
<1>11. tx_stats' \in Int
  BY <1>4, <1>5, <1>9
<1> HIDE DEF f, C, x
<1>12. SumOf(f, C \cup {x}) = f[x] + SumOf(stats, C)
  BY <1>5, <1>6, <1>9, <1>10, SumAdd
<1>13. tx_stats' = SumOf(f, C \cup {x})
  BY <1>4, <1>5, <1>9, <1>10, <1>12
<1>14. IsFiniteSet(C \cup {x})
  BY <1>9, FS_AddElement
<1>15. /\ tx_stats' = SumOf(stats', ClosedWriters')
       /\ IsFiniteSet(ClosedWriters') /\ stats' \in [TxIds -> Int]
  BY <1>7, <1>10, <1>13, <1>14 DEF f
<1>16. statlock' = NoThread /\ seen' = seen
  BY DEF MergeStats
<1>17. \A s \in Threads : statlock' # s
  BY <1>16, TxAssumption DEF TxAssumption
<1>18. seen' \in [Threads -> Int]
  BY <1>16 DEF StatInv
<1> QED
  BY <1>8, <1>11, <1>15, <1>17, <1>18 DEF StatInv

LEMMA StatStep == IInv /\ StatInv /\ [DbNext]_allVars => StatInv'
<1> SUFFICES ASSUME IInv, StatInv, [DbNext]_allVars PROVE StatInv'
  OBVIOUS
<1>1. ASSUME UNCHANGED vars, UNCHANGED statVars PROVE StatInv'
  <2>1. UNCHANGED <<state, writable, pc, cur>>
    BY <1>1 DEF vars, txVars, threadVars
  <2>2. ClosedWriters' = ClosedWriters /\ ClosingOpen'
    BY <2>1 DEF ClosedWriters, ClosingOpen, StatInv
  <2> QED
    BY <1>1, <2>2, StatUnchanged
<1>2. ASSUME NEW t \in Threads, UNCHANGED statVars,
             \/ LockingStep(t) \/ CallerStep(t) \/ StatBeginTx(t) \/ ReleasePending(t)
             \/ ReleaseThrows(t)
      PROVE  StatInv'
  <2>1. ClosedWriters' = ClosedWriters /\ ClosingOpen'
    BY <1>2, ClosedStay DEF StatInv
  <2> QED
    BY <1>2, <2>1, StatUnchanged
<1>3. CASE UNCHANGED allVars
  BY <1>1, <1>3 DEF allVars
<1>4. ASSUME NEW t \in Threads,
             \/ ReleaseBegin(t) \/ ReleaseEntry(t) \/ ReleaseReturns(t) \/ ReleaseAborts(t)
             \/ CountReader(t)
             \/ (LockingStep(t) \/ CallerStep(t)) /\ UNCHANGED <<listVars, statVars>>
      PROVE  StatInv'
  <2>1. CASE ReleaseBegin(t) \/ ReleaseEntry(t)
    BY <1>1, <2>1 DEF ReleaseBegin, ReleaseEntry
  <2>2. CASE ReleaseReturns(t) \/ ReleaseAborts(t) \/ CountReader(t)
    <3>1. UNCHANGED statVars
      BY <2>2 DEF ReleaseReturns, ReleaseAborts, CountReader, statVars
    <3>2. ReleasePending(t) \/ ReleaseThrows(t) \/ StatBeginTx(t)
      BY <2>2 DEF ReleaseReturns, ReleaseAborts, CountReader
    <3> QED
      BY <1>2, <3>1, <3>2
  <2>3. CASE (LockingStep(t) \/ CallerStep(t)) /\ UNCHANGED <<listVars, statVars>>
    BY <1>2, <2>3
  <2> QED
    BY <1>4, <2>1, <2>2, <2>3
<1> QED
  BY <1>3, <1>4, LockStatsKeeps, MergeStatsKeeps DEF DbNext, DbStep

LEMMA StatInit == DbInit => StatInv
<1> SUFFICES ASSUME DbInit PROVE StatInv
  OBVIOUS
<1>1. /\ state = [x \in TxIds |-> "none"] /\ pc = [t \in Threads |-> "idle"]
      /\ statlock = NoThread /\ tx_stats = 0
      /\ seen = [t \in Threads |-> 0] /\ stats = [x \in TxIds |-> 0]
  BY DEF DbInit, Init
<1>2. ClosedWriters = {} /\ ClosingOpen
  BY <1>1 DEF ClosedWriters, ClosingOpen
<1>3. IsFiniteSet(ClosedWriters) /\ SumOf(stats, ClosedWriters) = 0
  BY <1>2, FS_EmptySet, SumFacts
<1>4. \A t \in Threads : statlock # t
  BY <1>1, TxAssumption DEF TxAssumption
<1> QED
  BY <1>1, <1>2, <1>3, <1>4 DEF StatInv

\* DB::stats_ adds up: each closed writer is counted once, although it merges after it has
\* given rwlock_ back and others may be closing too (tx.cpp:120-129).
THEOREM StatsAddUp == DbSpec => []TotalsAddUp
<1>1. DbInv => IInv
  BY DEF DbInv
<1>2. StatInv => TotalsAddUp
  BY DEF StatInv, TotalsAddUp, SumOf, ClosedWriters
<1> QED
  BY <1>1, <1>2, DbInvariant, StatInit, StatStep, PTL DEF DbSpec
=============================================================================
