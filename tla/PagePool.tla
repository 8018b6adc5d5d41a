------------------------------ MODULE PagePool ------------------------------
(***************************************************************************)
(* PagePool (page_pool.cpp, page_pool.h): recycled page buffers shared by   *)
(* threads.  get takes a reference to the last element of pages_, pops it,  *)
(* and copies the slice through the reference afterwards: the element is    *)
(* then outside of the vector but its storage is still there, and the       *)
(* lock_guard is released after the copy.  The vector is its storage and    *)
(* its size, and the steps of get are separate.                             *)
(*                                                                          *)
(* Nothing in the repository calls get or put yet.  The threads follow      *)
(* page_pool.h:13: who gets a slice is in charge of it until it is put back. *)
(***************************************************************************)
EXTENDS Naturals, FiniteSets

CONSTANTS Threads,   \* the callers
          Slices,    \* the buffers that operator new can provide
          NoThread   \* the mutex is free

ASSUME PoolAssumption == IsFiniteSet(Slices) /\ Slices # {} /\ NoThread \notin Threads

VARIABLES mutex,   \* _pool_mutex: the thread that holds it
          store,   \* pages_: what the storage holds
          length,  \* pages_.size()
          pc, slot, putting,
                   \* per thread: where it is, the reference of get, the argument of put
          own,     \* per thread: the slices it is in charge of
          made     \* the slices that new_page_ has returned

vars == <<mutex, store, length, pc, slot, putting, own, made>>

Places == 1..Cardinality(Slices)

TypeOK ==
    /\ mutex \in Threads \cup {NoThread}
    /\ store \in [Places -> Slices] /\ length \in 0..Cardinality(Slices)
    /\ pc \in [Threads -> {"idle", "get", "copy", "put", "unlock"}]
    /\ slot \in [Threads -> Places]
    /\ putting \in [Threads -> Slices]
    /\ own \in [Threads -> SUBSET Slices]
    /\ made \in SUBSET Slices

Init ==
    /\ mutex = NoThread
    /\ store = [i \in Places |-> CHOOSE s \in Slices : TRUE] /\ length = 0
    /\ pc = [t \in Threads |-> "idle"]
    /\ slot = [t \in Threads |-> 1]
    /\ putting = [t \in Threads |-> CHOOSE s \in Slices : TRUE]
    /\ own = [t \in Threads |-> {}]
    /\ made = {}

-----------------------------------------------------------------------------
(* Seeded faults: each replaces the definition it is named after in one run. *)

GetPop_Unlocks(t) ==
    /\ pc[t] = "get" /\ length > 0
    /\ slot' = [slot EXCEPT ![t] = length]
    /\ length' = length - 1
    /\ pc' = [pc EXCEPT ![t] = "copy"]
    /\ mutex' = NoThread
    /\ UNCHANGED <<store, putting, own, made>>

GetPop_BeforeLast(t) ==
    /\ pc[t] = "get" /\ length > 0
    /\ slot' = [slot EXCEPT ![t] = length - 1]
    /\ length' = length - 1
    /\ pc' = [pc EXCEPT ![t] = "copy"]
    /\ UNCHANGED <<mutex, store, putting, own, made>>

PutPush_Overwrites(t) ==
    /\ pc[t] = "put"
    /\ store' = [store EXCEPT ![IF length = 0 THEN 1 ELSE length] = putting[t]]
    /\ length' = IF length = 0 THEN 1 ELSE length
    /\ pc' = [pc EXCEPT ![t] = "unlock"]
    /\ UNCHANGED <<mutex, slot, putting, own, made>>

GetThrows_Retries(t) ==
    /\ pc[t] = "get" /\ length = 0
    /\ UNCHANGED vars

-----------------------------------------------------------------------------
(* get.                                                                    *)

LockForGet(t) ==
    /\ pc[t] = "idle" /\ mutex = NoThread
    /\ mutex' = t
    /\ pc' = [pc EXCEPT ![t] = "get"]
    /\ UNCHANGED <<store, length, slot, putting, own, made>>

\* pages_ is empty: new_page_ allocates, and the slice is returned.
GetNew(t) ==
    /\ pc[t] = "get" /\ length = 0
    /\ \E s \in Slices \ made :
         /\ made' = made \cup {s}
         /\ own' = [own EXCEPT ![t] = @ \cup {s}]
    /\ pc' = [pc EXCEPT ![t] = "unlock"]
    /\ UNCHANGED <<mutex, store, length, slot, putting>>

\* new_page_ throws std::bad_alloc; the lock_guard releases the mutex.
GetThrows(t) ==
    /\ pc[t] = "get" /\ length = 0
    /\ mutex' = NoThread
    /\ pc' = [pc EXCEPT ![t] = "idle"]
    /\ UNCHANGED <<store, length, slot, putting, own, made>>

\* The reference is to the last element, which is popped.
GetPop(t) ==
    /\ pc[t] = "get" /\ length > 0
    /\ slot' = [slot EXCEPT ![t] = length]
    /\ length' = length - 1
    /\ pc' = [pc EXCEPT ![t] = "copy"]
    /\ UNCHANGED <<mutex, store, putting, own, made>>

\* return s: the slice is read through the reference.
GetCopy(t) ==
    /\ pc[t] = "copy"
    /\ own' = [own EXCEPT ![t] = @ \cup {store[slot[t]]}]
    /\ pc' = [pc EXCEPT ![t] = "unlock"]
    /\ UNCHANGED <<mutex, store, length, slot, putting, made>>

-----------------------------------------------------------------------------
(* put.                                                                    *)

LockForPut(t) ==
    /\ pc[t] = "idle" /\ mutex = NoThread
    /\ \E s \in own[t] :
         /\ putting' = [putting EXCEPT ![t] = s]
         /\ own' = [own EXCEPT ![t] = @ \ {s}]
    /\ mutex' = t
    /\ pc' = [pc EXCEPT ![t] = "put"]
    /\ UNCHANGED <<store, length, slot, made>>

PutPush(t) ==
    /\ pc[t] = "put"
    /\ store' = [store EXCEPT ![length + 1] = putting[t]]
    /\ length' = length + 1
    /\ pc' = [pc EXCEPT ![t] = "unlock"]
    /\ UNCHANGED <<mutex, slot, putting, own, made>>

\* The vector has to grow and push_back throws std::bad_alloc: pages_ is as it
\* was, the lock_guard releases the mutex, and the caller still has the slice.
\* (The capacity is not modelled: any push_back may find the vector full.)
PutThrows(t) ==
    /\ pc[t] = "put"
    /\ mutex' = NoThread
    /\ own' = [own EXCEPT ![t] = @ \cup {putting[t]}]
    /\ pc' = [pc EXCEPT ![t] = "idle"]
    /\ UNCHANGED <<store, length, slot, putting, made>>

\* The lock_guard of get or put.
Unlock(t) ==
    /\ pc[t] = "unlock"
    /\ mutex' = NoThread
    /\ pc' = [pc EXCEPT ![t] = "idle"]
    /\ UNCHANGED <<store, length, slot, putting, own, made>>

Next ==
    \E t \in Threads :
        \/ LockForGet(t) \/ GetNew(t) \/ GetThrows(t) \/ GetPop(t) \/ GetCopy(t)
        \/ LockForPut(t) \/ PutPush(t) \/ PutThrows(t) \/ Unlock(t)

Spec == Init /\ [][Next]_vars

\* A thread inside get or put keeps running.
FairSpec ==
    Spec /\ \A t \in Threads :
        WF_vars(GetNew(t) \/ GetThrows(t) \/ GetPop(t) \/ GetCopy(t) \/ PutPush(t) \/ Unlock(t))

-----------------------------------------------------------------------------
(* Properties.                                                             *)

\* The slices on their way: the argument of a put that has not pushed it, and
\* the popped element that get has not copied.
Moving(t) == IF pc[t] = "put" THEN {putting[t]} ELSE IF pc[t] = "copy" THEN {store[slot[t]]} ELSE {}

Pooled == {store[i] : i \in 1..length}

\* "protects page pool" (page_pool.h:18): a buffer is in one place only, with one
\* thread, in the pool once, or on its way.  get returns the slice that it popped
\* although it reads it after pop_back (page_pool.cpp:8-10).
NoSliceTwice ==
    /\ \A i, j \in 1..length : store[i] = store[j] => i = j
    /\ \A t \in Threads :
         /\ (own[t] \cup Moving(t)) \cap Pooled = {}
         /\ own[t] \cap Moving(t) = {}
         /\ \A u \in Threads \ {t} : (own[t] \cup Moving(t)) \cap (own[u] \cup Moving(u)) = {}

\* No buffer is lost, by a put that throws neither: each one that new_page_ has
\* returned is with a thread, in the pool or on its way (page_pool.cpp:3-16).
NoSliceLost == made = Pooled \cup UNION {own[t] \cup Moving(t) : t \in Threads}

\* The mutex is always released again, also when new_page_ or push_back throws
\* (page_pool.cpp:4-15).
PoolIsReleased == (mutex # NoThread) ~> (mutex = NoThread)

\* What the lock gives: the thread inside get or put, and no other, holds the
\* mutex, and the popped element is the one right behind the vector.
InsideHoldsMutex ==
    \A t \in Threads :
        /\ pc[t] # "idle" <=> mutex = t
        /\ pc[t] = "copy" => slot[t] = length + 1
=============================================================================
