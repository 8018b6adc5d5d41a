------------------------------- MODULE BoltTx -------------------------------
(***************************************************************************)
(* Transactions of bolt-cpp: DB::begin, DB::update (db.cpp) and             *)
(* Tx::commit, Tx::rollback, Tx::close (tx.cpp), called by several threads  *)
(* on one DB object.  A step is the code between two accesses to state that *)
(* other threads share; the critical sections of statlock_ contain no       *)
(* blocking call and are single steps, so statlock_ has no variable.        *)
(*                                                                          *)
(* The DB object is taken as its constructor's last line would leave it.    *)
(***************************************************************************)
EXTENDS Integers, Sequences, FiniteSets, Functions

CONSTANTS Threads,    \* the calling threads
          TxIds,      \* the Tx objects they may create (bounds the number of begins)
          TxidMax,    \* 0xFFFFFFFFFFFFFFFF, the largest txid_t
          Garbage,    \* what an int may hold that was never written, and what txs_.size()
                      \* may return while another thread is in push_back
          NoThread, NoTx

ASSUME TxAssumption ==
    /\ TxidMax \in Nat /\ TxidMax >= 2
    /\ Garbage \subseteq Int
    /\ NoThread \notin Threads
    /\ NoTx \notin TxIds

VARIABLES
    rwlock,     \* DB::rwlock_: the thread that holds it, or NoThread
    metalock,   \* DB::metalock_
    mmaplock,   \* DB::mmaplock_: the number of shared holds
    rwtx,       \* DB::rwtx_; nothing reads it, and it is NoTx before the first write
    txs,        \* DB::txs_
    tx_n,       \* DB::stats_.tx_n, less the value the memory held at first
    open_tx_n,  \* DB::stats_.open_tx_n
    read_only,  \* DB::read_only_
    state,      \* state[x]: "none" before the constructor, "open" while db_ is set, "closed"
    writable,   \* writable[x]: Tx::writable_
    txid,       \* txid[x]: Tx::meta_->txid
    pc,         \* what each thread does next
    cur,        \* the Tx its call is about, or whose handle it keeps
    minid,      \* the local minid of begin_rwtx
    released,   \* the last call of FreeList::release: by which Tx, up to which id
    committed,  \* the Tx whose commit() has returned
    readThrew,  \* the Tx of the begin_tx() that ended in std::bad_alloc, or NoTx
    writeThrew, \* whether new Tx has thrown std::bad_alloc in a begin_rwtx()
    crashed     \* the process is gone (null dereference or failed assert)

dbVars == <<rwlock, metalock, mmaplock, rwtx, txs, tx_n, open_tx_n, read_only>>
txVars == <<state, writable, txid, committed, readThrew, writeThrew>>
threadVars == <<pc, cur, minid>>
vars == <<dbVars, txVars, threadVars, released, crashed>>

Txids == 0..TxidMax

ReadPCs  == {"r_meta", "r_mmap", "r_new", "r_push", "r_stat"}
WritePCs == {"w_lock", "w_meta", "w_new", "w_scan", "w_release"}
ClosePCs == {"c_rwtx", "c_unlock", "c_end"}
PCs == ReadPCs \cup WritePCs \cup ClosePCs \cup {"idle", "have", "fn"}

TypeOK ==
    /\ rwlock \in Threads \cup {NoThread}
    /\ metalock \in Threads \cup {NoThread}
    /\ mmaplock \in Nat
    /\ rwtx \in TxIds \cup {NoTx}
    /\ txs \in Seq(TxIds)
    /\ tx_n \in Nat
    /\ open_tx_n \in Int
    /\ read_only \in BOOLEAN
    /\ state \in [TxIds -> {"none", "open", "closed"}]
    /\ writable \in [TxIds -> BOOLEAN]
    /\ txid \in [TxIds -> Txids]
    /\ pc \in [Threads -> PCs]
    /\ cur \in [Threads -> TxIds \cup {NoTx}]
    /\ minid \in [Threads -> Txids]
    /\ released \in [by : TxIds \cup {NoTx}, upto : Txids]
    /\ committed \in SUBSET TxIds
    /\ readThrew \in TxIds \cup {NoTx}
    /\ writeThrew \in BOOLEAN
    /\ crashed \in BOOLEAN

-----------------------------------------------------------------------------
(* The data the operations read.                                           *)

\* DB::opened_: false from the constructor's initialiser on; nothing sets it,
\* so the "not open" branches of begin_tx and begin_rwtx are never taken.
opened_ == FALSE

\* DB::meta() returns a value-initialised Meta: every field is zero.
meta == [txid |-> 0]

Fresh(x) == state[x] = "none" /\ \A t \in Threads : cur[t] # x

Registered == {txs[i] : i \in 1..Len(txs)}

OpenReaders == {x \in TxIds : state[x] = "open" /\ ~writable[x]}

Transition(t, from, to) ==
    /\ ~crashed
    /\ pc[t] = from
    /\ pc' = [pc EXCEPT ![t] = to]

\* read_only_ is set to true for Option::ReadOnly and never to false: without
\* the option it has whatever value the memory held.  stats_ is not initialised
\* either.
Init ==
    /\ rwlock = NoThread /\ metalock = NoThread /\ mmaplock = 0
    /\ rwtx = NoTx /\ txs = <<>>
    /\ tx_n = 0 /\ open_tx_n \in Garbage
    /\ read_only \in BOOLEAN
    /\ state = [x \in TxIds |-> "none"]
    /\ writable = [x \in TxIds |-> FALSE]
    /\ txid = [x \in TxIds |-> 0]
    /\ pc = [t \in Threads |-> "idle"]
    /\ cur = [t \in Threads |-> NoTx]
    /\ minid = [t \in Threads |-> 0]
    /\ released = [by |-> NoTx, upto |-> 0]
    /\ committed = {} /\ readThrew = NoTx /\ writeThrew = FALSE
    /\ crashed = FALSE

-----------------------------------------------------------------------------
(* Tx::Tx: copies the meta page; a writer takes the next transaction id.    *)

Tx(x, wr) ==
    /\ state' = [state EXCEPT ![x] = "open"]
    /\ writable' = [writable EXCEPT ![x] = wr]
    /\ txid' = [txid EXCEPT ![x] = IF wr THEN meta.txid + 1 ELSE meta.txid]

\* The same constructor dereferences meta_->root, which is null in the Meta
\* that DB::meta() returns.  The load kills the process, or (undefined
\* behaviour) it does not and the transaction gets an arbitrary root bucket.
NullRootTrap(t) ==
    /\ ~crashed
    /\ pc[t] \in {"r_new", "w_new"}
    /\ crashed' = TRUE
    /\ UNCHANGED <<dbVars, txVars, threadVars, released>>

-----------------------------------------------------------------------------
(* Seeded faults: each replaces the operation it is named after in one run, *)
(* to show that a property depends on it.                                   *)

LockSharedMmap_Unlocks(t) ==
    /\ Transition(t, "r_mmap", "r_new")
    /\ mmaplock' = mmaplock - 1
    /\ UNCHANGED <<rwlock, metalock, rwtx, txs, tx_n, open_tx_n, read_only,
                   txVars, cur, minid, released, crashed>>

LockMetaForRead_Unguarded(t) ==
    /\ Transition(t, "r_meta", "r_mmap")
    /\ metalock' = t
    /\ UNCHANGED <<rwlock, mmaplock, rwtx, txs, tx_n, open_tx_n, read_only,
                   txVars, cur, minid, released, crashed>>

PushTx_Forgets(t) ==
    /\ Transition(t, "r_push", "r_stat")
    /\ metalock' = NoThread
    /\ UNCHANGED <<rwlock, mmaplock, rwtx, txs, tx_n, open_tx_n, read_only,
                   txVars, cur, minid, released, crashed>>

StatBeginTx_OffByOne(t) ==
    /\ Transition(t, "r_stat", "have")
    /\ tx_n' = tx_n + 1
    /\ open_tx_n' = Len(txs) - 1
    /\ UNCHANGED <<rwlock, metalock, mmaplock, rwtx, txs, read_only,
                   txVars, cur, minid, released, crashed>>

LockWriter_Unguarded(t) ==
    /\ Transition(t, "w_lock", "w_meta")
    /\ rwlock' = t
    /\ UNCHANGED <<metalock, mmaplock, rwtx, txs, tx_n, open_tx_n, read_only,
                   txVars, cur, minid, released, crashed>>

LockMetaForWrite_Skipped(t) ==
    /\ Transition(t, "w_meta", "w_new")
    /\ UNCHANGED <<dbVars, txVars, cur, minid, released, crashed>>

ReleasePending_NoZeroCheck(t) ==
    /\ Transition(t, "w_release", "have") \/ Transition(t, "w_release", "fn")
    /\ released' = [by |-> cur[t], upto |-> (minid[t] - 1) % (TxidMax + 1)]
    /\ metalock' = NoThread
    /\ UNCHANGED <<rwlock, mmaplock, rwtx, txs, tx_n, open_tx_n, read_only,
                   txVars, cur, minid, crashed>>

BeginRWTxThrows_KeepsMetalock(t) ==
    /\ Transition(t, "w_new", "idle")
    /\ writeThrew' = TRUE
    /\ cur' = [cur EXCEPT ![t] = NoTx]
    /\ UNCHANGED <<dbVars, state, writable, txid, committed, readThrew,
                   minid, released, crashed>>

ReleaseThrows_Unlocks(t) ==
    /\ minid[t] > 0
    /\ Transition(t, "w_release", "idle")
    /\ released' = [by |-> cur[t], upto |-> minid[t] - 1]
    /\ cur' = [cur EXCEPT ![t] = NoTx]
    /\ metalock' = NoThread /\ rwlock' = NoThread
    /\ UNCHANGED <<mmaplock, rwtx, txs, tx_n, open_tx_n, read_only,
                   txVars, minid, crashed>>

UnlockWriter_Leaks(t) ==
    /\ Transition(t, "c_unlock", "c_end")
    /\ UNCHANGED <<dbVars, txVars, cur, minid, released, crashed>>

-----------------------------------------------------------------------------
(* DB::begin_tx                                                            *)

BeginTx(t) ==
    /\ Transition(t, "idle", "r_meta")
    /\ \E x \in TxIds : Fresh(x) /\ cur' = [cur EXCEPT ![t] = x]
    /\ UNCHANGED <<dbVars, txVars, minid, released, crashed>>

LockMetaForRead(t) ==
    /\ Transition(t, "r_meta", "r_mmap")
    /\ metalock = NoThread
    /\ metalock' = t
    /\ UNCHANGED <<rwlock, mmaplock, rwtx, txs, tx_n, open_tx_n, read_only,
                   txVars, cur, minid, released, crashed>>

\* Nothing in the code takes mmaplock_ exclusively, so lock_shared never waits.
LockSharedMmap(t) ==
    /\ Transition(t, "r_mmap", "r_new")
    /\ mmaplock' = mmaplock + 1
    /\ UNCHANGED <<rwlock, metalock, rwtx, txs, tx_n, open_tx_n, read_only,
                   txVars, cur, minid, released, crashed>>

NewReadTx(t) ==
    /\ ~opened_
    /\ Transition(t, "r_new", "r_push")
    /\ Tx(cur[t], FALSE)
    /\ UNCHANGED <<dbVars, committed, readThrew, writeThrew, cur, minid, released, crashed>>

\* new Tx throws std::bad_alloc, or it succeeds and the vector cannot grow.  Both
\* locks were taken by hand: metalock_ and the shared hold are never given back.
BeginTxThrows(t) ==
    /\ Transition(t, "r_new", "idle")
    /\ Tx(cur[t], FALSE) \/ UNCHANGED <<state, writable, txid>>
    /\ readThrew' = cur[t]
    /\ cur' = [cur EXCEPT ![t] = NoTx]
    /\ UNCHANGED <<dbVars, committed, writeThrew, minid, released, crashed>>

\* While pc[t] = "r_push", txs_.push_back is under way; it ends here, and
\* metalock_ is given back.
PushTx(t) ==
    /\ Transition(t, "r_push", "r_stat")
    /\ txs' = Append(txs, cur[t])
    /\ metalock' = NoThread
    /\ UNCHANGED <<rwlock, mmaplock, rwtx, tx_n, open_tx_n, read_only,
                   txVars, cur, minid, released, crashed>>

\* txs_.size() is read without metalock_: it races with another push_back.
StatBeginTx(t) ==
    /\ Transition(t, "r_stat", "have")
    /\ tx_n' = tx_n + 1
    /\ IF \E s \in Threads : pc[s] = "r_push"
         THEN open_tx_n' \in Garbage
         ELSE open_tx_n' = Len(txs)
    /\ UNCHANGED <<rwlock, metalock, mmaplock, rwtx, txs, read_only,
                   txVars, cur, minid, released, crashed>>

-----------------------------------------------------------------------------
(* DB::begin_rwtx                                                          *)

BeginRWTx(t) ==
    /\ ~read_only
    /\ Transition(t, "idle", "w_lock")
    /\ \E x \in TxIds : Fresh(x) /\ cur' = [cur EXCEPT ![t] = x]
    /\ UNCHANGED <<dbVars, txVars, minid, released, crashed>>

LockWriter(t) ==
    /\ Transition(t, "w_lock", "w_meta")
    /\ rwlock = NoThread
    /\ rwlock' = t
    /\ UNCHANGED <<metalock, mmaplock, rwtx, txs, tx_n, open_tx_n, read_only,
                   txVars, cur, minid, released, crashed>>

LockMetaForWrite(t) ==
    /\ Transition(t, "w_meta", "w_new")
    /\ metalock = NoThread
    /\ metalock' = t
    /\ UNCHANGED <<rwlock, mmaplock, rwtx, txs, tx_n, open_tx_n, read_only,
                   txVars, cur, minid, released, crashed>>

NewWriteTx(t) ==
    /\ ~opened_
    /\ Transition(t, "w_new", "w_scan")
    /\ Tx(cur[t], TRUE)
    /\ rwtx' = cur[t]
    /\ UNCHANGED <<rwlock, metalock, mmaplock, txs, tx_n, open_tx_n, read_only,
                   committed, readThrew, writeThrew, cur, minid, released, crashed>>

\* new Tx throws: the lock_guard gives metalock_ back, rwlock_ stays locked.
BeginRWTxThrows(t) ==
    /\ Transition(t, "w_new", "idle")
    /\ writeThrew' = TRUE
    /\ cur' = [cur EXCEPT ![t] = NoTx]
    /\ metalock' = NoThread
    /\ UNCHANGED <<rwlock, mmaplock, rwtx, txs, tx_n, open_tx_n, read_only,
                   state, writable, txid, committed, readThrew,
                   minid, released, crashed>>

\* One turn of the loop over txs_: what the minimum may be after it.  A reader that
\* has been closed is still in txs_ and its meta_ has been deleted; txid is read
\* there twice, once to compare and once to assign, and both values are arbitrary.
Lowered(min, x) ==
    IF state[x] = "open" THEN {IF txid[x] < min THEN txid[x] ELSE min}
                         ELSE {min} \cup {id \in Txids : min > 0}

\* The loop: min[i] is the minimum after i turns.
ScanReaders(t) ==
    /\ Transition(t, "w_scan", "w_release")
    /\ \E min \in [0..Len(txs) -> Txids] :
        /\ min[0] = TxidMax
        /\ \A i \in 1..Len(txs) : min[i] \in Lowered(min[i - 1], txs[i])
        /\ minid' = [minid EXCEPT ![t] = min[Len(txs)]]
    /\ UNCHANGED <<dbVars, txVars, cur, released, crashed>>

\* The caller is begin(true), which hands the Tx out, or update, which calls fn.
ReleasePending(t) ==
    /\ Transition(t, "w_release", "have") \/ Transition(t, "w_release", "fn")
    /\ released' = IF minid[t] > 0 THEN [by |-> cur[t], upto |-> minid[t] - 1]
                                   ELSE released
    /\ metalock' = NoThread
    /\ UNCHANGED <<rwlock, mmaplock, rwtx, txs, tx_n, open_tx_n, read_only,
                   txVars, cur, minid, crashed>>

\* A vector of release() cannot grow: the open Tx and rwlock_ are left behind.
ReleaseThrows(t) ==
    /\ minid[t] > 0
    /\ Transition(t, "w_release", "idle")
    /\ released' = [by |-> cur[t], upto |-> minid[t] - 1]
    /\ cur' = [cur EXCEPT ![t] = NoTx]
    /\ metalock' = NoThread
    /\ UNCHANGED <<rwlock, mmaplock, rwtx, txs, tx_n, open_tx_n, read_only,
                   txVars, minid, crashed>>

\* DB::update: fn has returned or thrown; update keeps no handle on the Tx.
\* (An fn that ends the Tx by itself, which db.h:74 forbids, behaves like a
\* caller of begin(true): it is in "have".)
UpdateReturns(t) ==
    /\ Transition(t, "fn", "idle")
    /\ cur' = [cur EXCEPT ![t] = NoTx]
    /\ UNCHANGED <<dbVars, txVars, minid, released, crashed>>

-----------------------------------------------------------------------------
(* Tx::commit, Tx::rollback and Tx::close.  A call on a closed Tx throws    *)
(* TxClosedException and commit of a reader throws TxNotWritableException:  *)
(* neither changes any state.                                               *)

\* assert(!managed_): managed_ is never initialised, so the assert may fail.
ManagedAssert(t) ==
    /\ ~crashed
    /\ pc[t] = "have"
    /\ crashed' = TRUE
    /\ UNCHANGED <<dbVars, txVars, threadVars, released>>

\* After its checks commit() does nothing.
Commit(t) ==
    /\ Transition(t, "have", "have")
    /\ state[cur[t]] = "open"
    /\ writable[cur[t]]
    /\ committed' = committed \cup {cur[t]}
    /\ UNCHANGED <<dbVars, state, writable, txid, readThrew, writeThrew,
                   cur, minid, released, crashed>>

\* FreeList::rollback and reload are empty, remove_tx is empty: a reader's
\* rollback only clears db_ and deletes meta_.
RollbackReader(t) ==
    /\ Transition(t, "have", "have")
    /\ state[cur[t]] = "open"
    /\ ~writable[cur[t]]
    /\ state' = [state EXCEPT ![cur[t]] = "closed"]
    /\ UNCHANGED <<dbVars, writable, txid, committed, readThrew, writeThrew,
                   cur, minid, released, crashed>>

RollbackWriter(t) ==
    /\ Transition(t, "have", "c_rwtx")
    /\ state[cur[t]] = "open"
    /\ writable[cur[t]]
    /\ UNCHANGED <<dbVars, txVars, cur, minid, released, crashed>>

ClearRwtx(t) ==
    /\ Transition(t, "c_rwtx", "c_unlock")
    /\ rwtx' = NoTx
    /\ UNCHANGED <<rwlock, metalock, mmaplock, txs, tx_n, open_tx_n, read_only,
                   txVars, cur, minid, released, crashed>>

UnlockWriter(t) ==
    /\ Transition(t, "c_unlock", "c_end")
    /\ rwlock' = NoThread
    /\ UNCHANGED <<metalock, mmaplock, rwtx, txs, tx_n, open_tx_n, read_only,
                   txVars, cur, minid, released, crashed>>

\* The freelist counters are stubs that return 0; only db_ and meta_ change.
CloseEnd(t) ==
    /\ Transition(t, "c_end", "have")
    /\ state' = [state EXCEPT ![cur[t]] = "closed"]
    /\ UNCHANGED <<dbVars, writable, txid, committed, readThrew, writeThrew,
                   cur, minid, released, crashed>>

\* The caller drops its handle on a Tx it has rolled back or committed.
Drop(t) ==
    /\ Transition(t, "have", "idle")
    /\ state[cur[t]] = "closed" \/ cur[t] \in committed
    /\ cur' = [cur EXCEPT ![t] = NoTx]
    /\ UNCHANGED <<dbVars, txVars, minid, released, crashed>>

-----------------------------------------------------------------------------
BeginReadStep(t) ==
    \/ LockMetaForRead(t) \/ LockSharedMmap(t) \/ NewReadTx(t)
    \/ PushTx(t) \/ StatBeginTx(t)

BeginWriteStep(t) ==
    \/ LockWriter(t) \/ LockMetaForWrite(t) \/ NewWriteTx(t)
    \/ ScanReaders(t) \/ ReleasePending(t)

CloseStep(t) ==
    \/ RollbackReader(t) \/ RollbackWriter(t) \/ ClearRwtx(t)
    \/ UnlockWriter(t) \/ CloseEnd(t)

\* What a thread does by itself once it is inside a call.
Step(t) == BeginReadStep(t) \/ BeginWriteStep(t) \/ CloseStep(t) \/ UpdateReturns(t)

Next ==
    \E t \in Threads :
        \/ Step(t)
        \/ BeginTx(t) \/ BeginRWTx(t) \/ Commit(t) \/ Drop(t)
        \/ BeginTxThrows(t) \/ BeginRWTxThrows(t) \/ ReleaseThrows(t)
        \/ NullRootTrap(t) \/ ManagedAssert(t)

Spec == Init /\ [][Next]_vars

-----------------------------------------------------------------------------
(* Properties.                                                             *)

Closing(x) == \E t \in Threads : cur[t] = x /\ pc[t] \in {"c_unlock", "c_end"}

\* rwlock_ "allows only one writer at a time" (db.h:175): every write
\* transaction that has been begun and is not yet being closed is the one in
\* rwtx_, so there is never a second one and none is ever forgotten by the DB.
OneWriter ==
    \A x \in TxIds : state[x] = "open" /\ writable[x] /\ ~Closing(x) => rwtx = x

\* begin_rwtx frees "pages associated with closed read-only transactions"
\* (db.cpp:227): whatever a deleted Meta in txs_ reads as, and whichever
\* readers begin or end meanwhile, release() is never called with an id that
\* reaches the snapshot of a reader that is open.
ReleaseSparesReaders ==
    [][released' # released =>
         \A x \in OpenReaders : released'.upto < txid[x]]_vars

\* The read transactions that begin_tx has started; the one that threw is none.
Started == {x \in TxIds : state[x] # "none" /\ ~writable[x] /\ x # readThrew}

\* No begin_tx is between its push_back and its stats update.
Settled == \A t \in Threads : pc[t] \notin {"r_push", "r_stat"}

\* tx_n is the "total number of started read transactions" (stats.h:84) and open_tx_n
\* misses none that is open and invents none, once every begin_tx has updated them,
\* although txs_.size() is read without metalock_ and may be torn while another
\* push_back runs (db.cpp:195-199).
StatsSettle ==
    Settled =>
        /\ tx_n = Cardinality(Started)
        /\ Started # {} => open_tx_n \in Cardinality(OpenReaders \ {readThrew})..tx_n

\* Every open reader that begin_tx has handed out is in txs_ (db.cpp:189, "Keep track
\* of transaction until it closes"), once, and mmaplock_ is held for each, so that
\* "all transactions must finish before it can be remapped" (db.cpp:174-176),
\* whoever begins, throws or rolls back meanwhile.
ReadersPinned ==
    /\ IsInjective(txs)
    /\ \A x \in OpenReaders :
         x \in Registered \cup {readThrew} \/ \E t \in Threads : pc[t] = "r_push" /\ cur[t] = x
    /\ Cardinality(OpenReaders) <= mmaplock

\* begin_tx returns whatever the writers do: it never needs rwlock_, and
\* metalock_ is never held across a wait (db.cpp:168-201), even when a writer
\* has left rwlock_ locked for good or has thrown inside begin_rwtx.  Only a
\* begin_tx that throws, with metalock_ locked by hand, stops them.
ReadersNeverBlock ==
    \A t \in Threads :
        (pc[t] = "r_meta") ~> (pc[t] = "have" \/ crashed \/ readThrew # NoTx)

Abandoned ==
    \E x \in TxIds : /\ state[x] = "open" /\ writable[x]
                    /\ \A t \in Threads : cur[t] # x

\* begin_rwtx returns once the writers before it have rolled back (db.cpp:203-239),
\* unless one of them was abandoned by update(), after commit() or by an
\* exception in release(), or a begin has thrown with its locks held.
WritersTakeTurns ==
    \A t \in Threads :
        (pc[t] = "w_lock") ~> \/ pc[t] \in {"have", "fn"}
                              \/ crashed \/ Abandoned \/ readThrew # NoTx \/ writeThrew

\* The whole protocol implements the locks-free contract.
Contract == INSTANCE TxContract WITH
    writer <- rwtx, readers <- OpenReaders, snapshot <- txid, reclaimed <- released

\* begin and rollback implement TxContract: one writer slot that is never
\* overwritten, readers pinned to their ids, reclamation below all of them
\* (db.cpp:161-239, tx.cpp:89-139).
ImplementsContract == Contract!Spec

-----------------------------------------------------------------------------
(* The inductive invariant behind the safety properties.                   *)

\* Which Tx a thread works on: none while idle, never the one of another
\* thread, and one whose constructor has not run until begin reaches it.
CurInv ==
    /\ \A t \in Threads : (cur[t] = NoTx) <=> (pc[t] = "idle")
    /\ \A s, t \in Threads : cur[s] = cur[t] /\ cur[s] # NoTx => s = t
    /\ \A t \in Threads :
         pc[t] \in {"r_meta", "r_mmap", "r_new", "w_lock", "w_meta", "w_new"}
             => state[cur[t]] = "none"
    /\ \A t \in Threads : pc[t] \in {"r_push", "w_scan", "w_release", "fn", "c_rwtx"}
             => state[cur[t]] = "open"
    /\ \A t \in Threads : pc[t] \in {"r_push", "r_stat"} => ~writable[cur[t]]
    /\ \A t \in Threads :
         pc[t] \in {"w_scan", "w_release", "fn", "c_rwtx", "c_unlock", "c_end"}
             => writable[cur[t]]

InMeta(t) == pc[t] \in {"r_mmap", "r_new", "r_push", "w_new", "w_scan", "w_release"}
InWrite(t) ==
    \/ pc[t] \in {"w_meta", "w_new", "w_scan", "w_release", "fn", "c_rwtx", "c_unlock"}
    \/ pc[t] = "have" /\ state[cur[t]] = "open" /\ writable[cur[t]]

\* Who holds the two mutexes, by place in the code.  A begin that has thrown
\* leaves its mutex locked although no thread is where it is held.
LockInv ==
    /\ \A t \in Threads : InMeta(t) => metalock = t
    /\ \A t \in Threads : InWrite(t) => rwlock = t
    /\ readThrew # NoTx => metalock # NoThread /\ \A t \in Threads : ~InMeta(t)
    /\ writeThrew => rwlock # NoThread /\ \A t \in Threads : ~InWrite(t)

\* rwtx_ is set exactly from the constructor of the writer to its close.
RwtxInv ==
    /\ rwlock = NoThread => rwtx = NoTx
    /\ \A t \in Threads : pc[t] \in {"w_meta", "w_new", "c_unlock"} => rwtx = NoTx
    /\ \A t \in Threads : pc[t] \in {"w_scan", "w_release", "fn", "c_rwtx"} => rwtx = cur[t]
    /\ OneWriter

\* A reader is in txs_ from its push_back on, and the writer's minimum stays
\* below every open reader until metalock_ is given back.  A deleted Meta may raise
\* the minimum as well as lower it, but not from zero, the id of every reader.
ReaderInv ==
    /\ \A x \in OpenReaders : txid[x] = meta.txid
    /\ \A x \in OpenReaders :
         x \in Registered \cup {readThrew} \/ \E t \in Threads : pc[t] = "r_push" /\ cur[t] = x
    /\ \A t \in Threads : pc[t] = "w_release" =>
         \A x \in OpenReaders : minid[t] <= txid[x]

\* The locks of db.cpp and tx.cpp held at each place, the Tx each place works on,
\* and what they guarantee together about rwtx_ and the registered readers.
LockDiscipline == CurInv /\ LockInv /\ RwtxInv /\ ReaderInv
=============================================================================
