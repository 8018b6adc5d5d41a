------------------------------- MODULE BoltDb -------------------------------
(***************************************************************************)
(* The transactions of BoltTx with the two things they share besides the    *)
(* locks: the FreeList, whose release() begin_rwtx runs entry by entry      *)
(* while it holds metalock_ and rwlock_ (db.cpp:227-236), and the           *)
(* statistics that close() merges under statlock_, after it has given       *)
(* rwlock_ back (tx.cpp:118-129).                                           *)
(***************************************************************************)
EXTENDS BoltTx, FiniteSetsExt

CONSTANTS Pgids, CountMax, Pages, Pendings   \* as in FreeList

VARIABLES
    ids, pending, cache, upto, m, freedBy, mark,  \* as in FreeList
    listpc,    \* where release() is: FreeList's pc
    statlock,  \* DB::statlock_, held exclusively by a thread, or NoThread
    tx_stats,  \* DB::stats_.tx_stats less what it held at first; each of its twelve
               \* counters is added to in the same way and this stands for any one
    seen,      \* seen[t]: tx_stats as close() read it, to be added to
    stats      \* stats[x]: what Tx::stats_, which nothing writes, added at close()

List == INSTANCE FreeList WITH pc <- listpc

listVars == <<ids, pending, cache, upto, m, freedBy, mark, listpc>>
statVars == <<statlock, tx_stats, seen, stats>>
allVars == <<vars, listVars, statVars>>

ASSUME DbAssumption == List!FreeListAssumption /\ List!DistinctPages

\* The constructor of DB ends by reading the freelist page.
DbInit ==
    /\ Init
    /\ pending \in Pendings /\ freedBy = pending
    /\ \E p \in Pages : ids \in List!sort(List!Loaded(p))
    /\ cache = List!reindex(ids, pending)
    /\ listpc = "idle" /\ upto = 0 /\ m = <<>> /\ mark = -1
    /\ statlock = NoThread /\ tx_stats = 0
    /\ seen = [t \in Threads |-> 0] /\ stats = [x \in TxIds |-> 0]

-----------------------------------------------------------------------------
(* Seeded faults: each replaces the operation it is named after in one run. *)

MergeStats_Unlocked(t) ==
    /\ CloseEnd(t)
    /\ \E v \in Garbage : /\ tx_stats' = seen[t] + v
                          /\ stats' = [stats EXCEPT ![cur[t]] = v]
    /\ statlock' = NoThread
    /\ UNCHANGED <<listVars, seen>>

-----------------------------------------------------------------------------
(* FreeList::release inside begin_rwtx.                                    *)

ReleaseBegin(t) ==
    /\ ~crashed /\ pc[t] = "w_release" /\ minid[t] > 0
    /\ List!ReleaseCall(minid[t] - 1)
    /\ UNCHANGED <<vars, statVars>>

ReleaseEntry(t) ==
    /\ ~crashed /\ pc[t] = "w_release"
    /\ List!ReleaseLoopEnd \/ \E d \in Txids : List!ReleaseMove(d)
    /\ UNCHANGED <<vars, statVars>>

\* The merge, or nothing to release, and begin_rwtx returns.
ReleaseReturns(t) ==
    /\ ReleasePending(t)
    /\ IF minid[t] > 0 THEN List!ReleaseMerge ELSE UNCHANGED listVars
    /\ UNCHANGED statVars

\* m or ids cannot grow (std::bad_alloc).  What m held is in no list any more.
ReleaseAborts(t) ==
    /\ ReleaseThrows(t)
    /\ \/ listpc = "loop" /\ \E d \in DOMAIN pending : d <= upto /\ pending[d] # <<>>
       \/ listpc = "merge" /\ m # <<>>
    /\ listpc' = "idle" /\ m' = <<>>
    /\ UNCHANGED <<ids, pending, cache, upto, freedBy, mark, statVars>>

-----------------------------------------------------------------------------
(* The statistics.                                                         *)

\* begin_tx counts the reader under statlock_.
CountReader(t) == statlock = NoThread /\ StatBeginTx(t) /\ UNCHANGED <<listVars, statVars>>

\* close() of a writer: TxStats::operator+= reads the totals ...
LockStats(t) ==
    /\ ~crashed /\ pc[t] = "c_end"
    /\ statlock = NoThread
    /\ statlock' = t
    /\ seen' = [seen EXCEPT ![t] = tx_stats]
    /\ UNCHANGED <<vars, listVars, tx_stats, stats>>

\* ... and writes them back; the rest of close() clears db_.
MergeStats(t) ==
    /\ statlock = t
    /\ CloseEnd(t)
    /\ \E v \in Garbage : /\ tx_stats' = seen[t] + v
                          /\ stats' = [stats EXCEPT ![cur[t]] = v]
    /\ statlock' = NoThread
    /\ UNCHANGED <<listVars, seen>>

-----------------------------------------------------------------------------
\* The steps that touch neither the freelist nor the statistics.
LockingStep(t) ==
    \/ LockMetaForRead(t) \/ LockSharedMmap(t) \/ NewReadTx(t) \/ PushTx(t)
    \/ LockWriter(t) \/ LockMetaForWrite(t) \/ NewWriteTx(t) \/ ScanReaders(t)
    \/ UpdateReturns(t) \/ RollbackReader(t) \/ RollbackWriter(t) \/ ClearRwtx(t)
    \/ UnlockWriter(t)

CallerStep(t) ==
    \/ BeginTx(t) \/ BeginRWTx(t) \/ Commit(t) \/ Drop(t)
    \/ BeginTxThrows(t) \/ BeginRWTxThrows(t)
    \/ NullRootTrap(t) \/ ManagedAssert(t)

\* What a thread does once it is inside a call, and the rollback that every
\* caller owes its transaction.
DbStep(t) ==
    \/ LockingStep(t) /\ UNCHANGED <<listVars, statVars>>
    \/ ReleaseBegin(t) \/ ReleaseEntry(t) \/ ReleaseReturns(t)
    \/ CountReader(t) \/ LockStats(t) \/ MergeStats(t)

DbNext ==
    \E t \in Threads :
        \/ DbStep(t) \/ ReleaseAborts(t)
        \/ CallerStep(t) /\ UNCHANGED <<listVars, statVars>>

\* Every thread keeps running and a mutex that stays free is granted.
Fairness == \A t \in Threads : WF_allVars(DbStep(t))
DbSpec == DbInit /\ [][DbNext]_allVars /\ Fairness

-----------------------------------------------------------------------------
(* Properties.                                                             *)

\* While a reader is open, no page becomes available that was freed by its own
\* transaction id or a later one, although release() moves the pages in many
\* steps after begin_rwtx has looked at txs_ (db.cpp:228-236), whichever readers
\* begin or end meanwhile, whatever a deleted Meta reads as, and if release() throws.
PagesOfReadersStay ==
    [][\A x \in OpenReaders : \A d \in DOMAIN freedBy :
         txid[x] <= d => Range(freedBy[d]) \cap (Range(ids') \ Range(ids)) = {}]_allVars

\* Whoever holds the writer lock finds every free page in exactly one list and in
\* the cache.  A release() that throws half way loses the pages it has taken out of
\* pending (freelist.cpp:10-12), and it is rwlock_, left locked, that keeps the
\* next writer from the lists it leaves behind.
WriterSeesExactLists ==
    (\E t \in Threads : InWrite(t)) => List!CacheExact /\ List!NoPageTwice

\* The totals in DB::stats_ are those of the writers that have been closed, each
\* counted once, although a closing writer gives rwlock_ back before it merges, so
\* that the next one may be closing too (tx.cpp:120-129, stats.h:32-46).
TotalsAddUp ==
    statlock = NoThread =>
        tx_stats = MapThenSumSet(LAMBDA x : stats[x],
                                 {x \in TxIds : state[x] = "closed" /\ writable[x]})
=============================================================================
