--------------------------- MODULE PagePoolProofs ---------------------------
(***************************************************************************)
(* Proofs about PagePool, for every set of threads and every finite set of  *)
(* buffers.                                                                 *)
(***************************************************************************)
EXTENDS PagePool, FiniteSetTheorems, TLAPS

\* The inductive invariant.  NoSliceTwice needs the mutex: a thread between
\* pop_back and the copy is the only one that changes the storage.  TypeOK needs
\* NoSliceTwice: the vector has room for a put because its slices are distinct.
PoolInv == TypeOK /\ InsideHoldsMutex /\ NoSliceTwice /\ NoSliceLost

\* A put finds fewer slices in the pool than there are.
LEMMA RoomForPut ==
  ASSUME PoolInv, NEW t \in Threads, pc[t] = "put"
  PROVE  length + 1 \in Places
<1> DEFINE f == [i \in 1..(length + 1) |-> IF i = length + 1 THEN putting[t] ELSE store[i]]
<1>1. Cardinality(Slices) \in Nat
  BY PoolAssumption, FS_CardinalityType
<1>2. length \in Nat /\ length <= Cardinality(Slices) /\ putting[t] \in Slices /\ store \in [Places -> Slices]
  BY <1>1 DEF PoolInv, TypeOK
<1>3. Moving(t) = {putting[t]}
  BY DEF Moving
<1>4. \A i \in 1..length : store[i] \in Pooled
  BY DEF Pooled
<1>5. \A i \in 1..length : store[i] # putting[t]
  BY <1>3, <1>4 DEF PoolInv, NoSliceTwice
<1>6. \A i \in 1..length : i \in Places
  BY <1>1, <1>2 DEF Places
<1>7. f \in [1..(length + 1) -> Slices]
  BY <1>2, <1>6
<1>8. \A i, j \in 1..(length + 1) : f[i] = f[j] => i = j
  <2> SUFFICES ASSUME NEW i \in 1..(length + 1), NEW j \in 1..(length + 1), f[i] = f[j]
               PROVE  i = j
    OBVIOUS
  <2>1. CASE i \in 1..length /\ j \in 1..length
    BY <1>2, <2>1 DEF PoolInv, NoSliceTwice
  <2>2. CASE i = length + 1 /\ j \in 1..length
    BY <1>2, <1>5, <2>2
  <2>3. CASE j = length + 1 /\ i \in 1..length
    BY <1>2, <1>5, <2>3
  <2> QED
    BY <1>2, <2>1, <2>2, <2>3
<1>9. f \in Injection(1..(length + 1), Slices)
  BY <1>7, <1>8 DEF Injection, IsInjective
<1>10. Cardinality(1..(length + 1)) <= Cardinality(Slices)
  BY <1>9, PoolAssumption, FS_Injection
<1>11. Cardinality(1..(length + 1)) = length + 1
  BY <1>2, FS_Interval
<1> QED
  BY <1>1, <1>2, <1>10, <1>11 DEF Places

\* The invariant holds in the initial state.
LEMMA InitPoolInv == Init => PoolInv
<1> SUFFICES ASSUME Init PROVE PoolInv
  OBVIOUS
<1>1. Cardinality(Slices) \in Nat /\ Cardinality(Slices) # 0
  BY PoolAssumption, FS_CardinalityType, FS_EmptySet
<1>2. (CHOOSE s \in Slices : TRUE) \in Slices
  BY PoolAssumption
<1>3. TypeOK
  BY <1>1, <1>2 DEF Init, TypeOK, Places
<1>4. InsideHoldsMutex
  BY PoolAssumption DEF Init, InsideHoldsMutex
<1>5. Pooled = {} /\ \A t \in Threads : Moving(t) = {} /\ own[t] = {}
  BY DEF Init, Pooled, Moving
<1>6. NoSliceTwice
  BY <1>5 DEF Init, NoSliceTwice
<1>7. NoSliceLost
  BY <1>5 DEF Init, NoSliceLost
<1> QED
  BY <1>3, <1>4, <1>6, <1>7 DEF PoolInv

\* When t is inside, or is about to lock the mutex, the other threads are idle.
LEMMA OthersIdle ==
  ASSUME PoolInv, NEW t \in Threads, mutex = t \/ mutex = NoThread
  PROVE  \A u \in Threads \ {t} : pc[u] = "idle" /\ Moving(u) = {}
BY PoolAssumption DEF PoolInv, InsideHoldsMutex, Moving

\* How the two properties follow when one thread moves: the others keep what
\* they have, and t and the pool exchange slices.
LEMMA Exchange ==
  ASSUME PoolInv, NEW t \in Threads,
         \A u \in Threads \ {t} : Moving(u) = {} /\ Moving(u)' = {} /\ own'[u] = own[u],
         own'[t] \cap Moving(t)' = {},
         own'[t] \cup Moving(t)' \cup Pooled' = own[t] \cup Moving(t) \cup Pooled \cup (made' \ made),
         (own'[t] \cup Moving(t)') \cap Pooled' = {},
         made \subseteq made',
         \A i, j \in 1..length' : store'[i] = store'[j] => i = j
  PROVE  NoSliceTwice' /\ NoSliceLost'
<1>1. \A u \in Threads : own[u] \cup Moving(u) \subseteq made
  BY DEF PoolInv, NoSliceLost
<1>2. Pooled \subseteq made
  BY DEF PoolInv, NoSliceLost
<1>3. \A u \in Threads \ {t} : own[u] \cap (own'[t] \cup Moving(t)' \cup Pooled') = {}
  BY <1>1 DEF PoolInv, NoSliceTwice
<1>4. \A u, v \in Threads : u # v => own[u] \cap own[v] = {}
  BY DEF PoolInv, NoSliceTwice
<1>5. NoSliceTwice'
  BY <1>3, <1>4 DEF NoSliceTwice
<1>6. \A x : x \in made' <=> x \in Pooled' \/ \E u \in Threads : x \in own'[u] \cup Moving(u)'
  <2>1. \A x : x \in made <=> x \in Pooled \/ \E u \in Threads : x \in own[u] \cup Moving(u)
    BY DEF PoolInv, NoSliceLost
  <2> QED
    BY <2>1
<1>7. NoSliceLost'
  BY <1>6 DEF NoSliceLost
<1> QED
  BY <1>5, <1>7

\* Every step keeps the invariant.
LEMMA PoolStep == PoolInv /\ [Next]_vars => PoolInv'
<1> SUFFICES ASSUME PoolInv, [Next]_vars PROVE PoolInv'
  OBVIOUS
<1> USE DEF PoolInv
<1>0. Cardinality(Slices) \in Nat /\ length \in Nat
  BY PoolAssumption, FS_CardinalityType DEF TypeOK
<1>1. CASE UNCHANGED vars
  BY <1>1 DEF vars, TypeOK, InsideHoldsMutex, NoSliceTwice, NoSliceLost, Moving, Pooled
<1>2. ASSUME NEW t \in Threads, LockForGet(t) PROVE PoolInv'
  <2>1. \A u \in Threads \ {t} : pc[u] = "idle" /\ Moving(u) = {}
    BY <1>2, OthersIdle DEF LockForGet, InsideHoldsMutex
  <2>2. TypeOK'
    BY <1>0, <1>2 DEF LockForGet, TypeOK, Places
  <2>3. InsideHoldsMutex'
    BY <1>0, <1>2, <2>1, PoolAssumption DEF LockForGet, TypeOK, InsideHoldsMutex
  <2>4. \A u \in Threads \ {t} : Moving(u)' = {} /\ own'[u] = own[u]
    BY <1>2, <2>1 DEF LockForGet, TypeOK, Moving
  <2>5. Moving(t) = {} /\ Moving(t)' = {}
    BY <1>0, <1>2 DEF LockForGet, TypeOK, Moving, InsideHoldsMutex, Places
  <2>6. Pooled' = Pooled /\ own'[t] = own[t] /\ made' = made /\ store' = store /\ length' = length
    BY <1>2 DEF LockForGet, TypeOK, Pooled
  <2>7. NoSliceTwice' /\ NoSliceLost'
    BY <2>1, <2>4, <2>5, <2>6, Exchange DEF NoSliceTwice
  <2> QED
    BY <2>2, <2>3, <2>7
<1>3. ASSUME NEW t \in Threads, GetNew(t) PROVE PoolInv'
  <2>1. \A u \in Threads \ {t} : pc[u] = "idle" /\ Moving(u) = {}
    BY <1>3, OthersIdle DEF GetNew, InsideHoldsMutex
  <2>2. TypeOK'
    BY <1>0, <1>3 DEF GetNew, TypeOK, Places
  <2>3. InsideHoldsMutex'
    BY <1>0, <1>3, <2>1, PoolAssumption DEF GetNew, TypeOK, InsideHoldsMutex
  <2>4. \A u \in Threads \ {t} : Moving(u)' = {} /\ own'[u] = own[u]
    BY <1>3, <2>1 DEF GetNew, TypeOK, Moving
  <2>5. Moving(t) = {} /\ Moving(t)' = {}
    BY <1>0, <1>3 DEF GetNew, TypeOK, Moving, InsideHoldsMutex, Places
  <2>6. Pooled' = Pooled /\ store' = store /\ length' = length
    BY <1>3 DEF GetNew, Pooled
  <2>7. PICK s \in Slices \ made : made' = made \cup {s} /\ own'[t] = own[t] \cup {s}
    BY <1>3 DEF GetNew, TypeOK
  <2>8. s \notin Pooled
    BY <2>7 DEF NoSliceLost
  <2>9. NoSliceTwice' /\ NoSliceLost'
    BY <2>1, <2>4, <2>5, <2>6, <2>7, <2>8, Exchange DEF NoSliceTwice
  <2> QED
    BY <2>2, <2>3, <2>9
<1>4. ASSUME NEW t \in Threads, GetThrows(t) PROVE PoolInv'
  <2>1. \A u \in Threads \ {t} : pc[u] = "idle" /\ Moving(u) = {}
    BY <1>4, OthersIdle DEF GetThrows, InsideHoldsMutex
  <2>2. TypeOK'
    BY <1>0, <1>4 DEF GetThrows, TypeOK, Places
  <2>3. InsideHoldsMutex'
    BY <1>0, <1>4, <2>1, PoolAssumption DEF GetThrows, TypeOK, InsideHoldsMutex
  <2>4. \A u \in Threads \ {t} : Moving(u)' = {} /\ own'[u] = own[u]
    BY <1>4, <2>1 DEF GetThrows, TypeOK, Moving
  <2>5. Moving(t) = {} /\ Moving(t)' = {}
    BY <1>0, <1>4 DEF GetThrows, TypeOK, Moving, InsideHoldsMutex, Places
  <2>6. Pooled' = Pooled /\ own'[t] = own[t] /\ made' = made /\ store' = store /\ length' = length
    BY <1>4 DEF GetThrows, TypeOK, Pooled
  <2>7. NoSliceTwice' /\ NoSliceLost'
    BY <2>1, <2>4, <2>5, <2>6, Exchange DEF NoSliceTwice
  <2> QED
    BY <2>2, <2>3, <2>7
<1>5. ASSUME NEW t \in Threads, GetPop(t) PROVE PoolInv'
  <2>1. \A u \in Threads \ {t} : pc[u] = "idle" /\ Moving(u) = {}
    BY <1>5, OthersIdle DEF GetPop, InsideHoldsMutex
  <2>2. TypeOK'
    BY <1>0, <1>5 DEF GetPop, TypeOK, Places
  <2>3. InsideHoldsMutex'
    BY <1>0, <1>5, <2>1, PoolAssumption DEF GetPop, TypeOK, InsideHoldsMutex
  <2>4. \A u \in Threads \ {t} : Moving(u)' = {} /\ own'[u] = own[u]
    BY <1>5, <2>1 DEF GetPop, TypeOK, Moving
  <2>5. Moving(t) = {} /\ Moving(t)' = {store[length]}
    BY <1>0, <1>5 DEF GetPop, TypeOK, Moving, InsideHoldsMutex, Places
  <2>6. own'[t] = own[t] /\ made' = made /\ store' = store /\ length' = length - 1
    BY <1>5 DEF GetPop
  <2>7. Pooled = Pooled' \cup {store[length]} /\ store[length] \notin Pooled'
    <3>1. \A i \in 1..length : i = length \/ i \in 1..(length - 1)
      BY <1>0
    <3>2. length \in 1..length /\ \A i \in 1..(length - 1) : i \in 1..length /\ i # length
      BY <1>0, <1>5 DEF GetPop
    <3> QED
      BY <2>6, <3>1, <3>2 DEF Pooled, NoSliceTwice
  <2>8. \A i, j \in 1..length' : store'[i] = store'[j] => i = j
    BY <1>0, <2>6 DEF NoSliceTwice
  <2>9. store[length] \in Pooled /\ store[length] \notin own[t]
    BY <2>7 DEF NoSliceTwice
  <2>10. NoSliceTwice' /\ NoSliceLost'
    <3>1. own'[t] \cap Moving(t)' = {} /\ (own'[t] \cup Moving(t)') \cap Pooled' = {}
      BY <2>5, <2>6, <2>7, <2>9 DEF NoSliceTwice
    <3>2. own'[t] \cup Moving(t)' \cup Pooled' = own[t] \cup Moving(t) \cup Pooled \cup (made' \ made)
      BY <2>5, <2>6, <2>7
    <3> QED
      BY <2>1, <2>4, <2>6, <2>8, <3>1, <3>2, Exchange
  <2> QED
    BY <2>2, <2>3, <2>10
<1>6. ASSUME NEW t \in Threads, GetCopy(t) PROVE PoolInv'
  <2>1. \A u \in Threads \ {t} : pc[u] = "idle" /\ Moving(u) = {}
    BY <1>6, OthersIdle DEF GetCopy, InsideHoldsMutex
  <2>2. TypeOK'
    BY <1>0, <1>6 DEF GetCopy, TypeOK, Places
  <2>3. InsideHoldsMutex'
    BY <1>0, <1>6, <2>1, PoolAssumption DEF GetCopy, TypeOK, InsideHoldsMutex
  <2>4. \A u \in Threads \ {t} : Moving(u)' = {} /\ own'[u] = own[u]
    BY <1>6, <2>1 DEF GetCopy, TypeOK, Moving
  <2>5. Moving(t) = {store[slot[t]]} /\ Moving(t)' = {}
    BY <1>0, <1>6 DEF GetCopy, TypeOK, Moving, InsideHoldsMutex, Places
  <2>6. Pooled' = Pooled /\ own'[t] = own[t] \cup {store[slot[t]]} /\ made' = made /\ store' = store /\ length' = length
    BY <1>6 DEF GetCopy, TypeOK, Pooled
  <2>7. NoSliceTwice' /\ NoSliceLost'
    BY <2>1, <2>4, <2>5, <2>6, Exchange DEF NoSliceTwice
  <2> QED
    BY <2>2, <2>3, <2>7
<1>7. ASSUME NEW t \in Threads, LockForPut(t) PROVE PoolInv'
  <2>1. \A u \in Threads \ {t} : pc[u] = "idle" /\ Moving(u) = {}
    BY <1>7, OthersIdle DEF LockForPut, InsideHoldsMutex
  <2>2. TypeOK'
    BY <1>0, <1>7 DEF LockForPut, TypeOK, Places
  <2>3. InsideHoldsMutex'
    BY <1>0, <1>7, <2>1, PoolAssumption DEF LockForPut, TypeOK, InsideHoldsMutex
  <2>4. \A u \in Threads \ {t} : Moving(u)' = {} /\ own'[u] = own[u]
    BY <1>7, <2>1 DEF LockForPut, TypeOK, Moving
  <2>5. Moving(t) = {} /\ Moving(t)' = {putting'[t]}
    BY <1>0, <1>7 DEF LockForPut, TypeOK, Moving, InsideHoldsMutex, Places
  <2>6. Pooled' = Pooled /\ made' = made /\ store' = store /\ length' = length
    BY <1>7 DEF LockForPut, Pooled
  <2>7. putting'[t] \in own[t] /\ own'[t] = own[t] \ {putting'[t]}
    BY <1>7 DEF LockForPut, TypeOK
  <2>8. NoSliceTwice' /\ NoSliceLost'
    BY <2>1, <2>4, <2>5, <2>6, <2>7, Exchange DEF NoSliceTwice
  <2> QED
    BY <2>2, <2>3, <2>8
<1>8. ASSUME NEW t \in Threads, PutPush(t) PROVE PoolInv'
  <2>1. \A u \in Threads \ {t} : pc[u] = "idle" /\ Moving(u) = {}
    BY <1>8, OthersIdle DEF PutPush, InsideHoldsMutex
  <2>r. length + 1 \in Places
    BY <1>8, RoomForPut DEF PutPush
  <2>2. TypeOK'
    BY <1>0, <1>8, <2>r DEF PutPush, TypeOK, Places
  <2>3. InsideHoldsMutex'
    BY <1>0, <1>8, <2>1, PoolAssumption DEF PutPush, TypeOK, InsideHoldsMutex
  <2>4. \A u \in Threads \ {t} : Moving(u)' = {} /\ own'[u] = own[u]
    BY <1>8, <2>1 DEF PutPush, TypeOK, Moving
  <2>5. Moving(t) = {putting[t]} /\ Moving(t)' = {}
    BY <1>0, <1>8, <2>r DEF PutPush, TypeOK, Moving, InsideHoldsMutex, Places
  <2>6. own'[t] = own[t] /\ made' = made /\ length' = length + 1 /\ store'[length + 1] = putting[t]
    BY <1>8, <2>r DEF PutPush, TypeOK
  <2>7. \A i \in 1..length : store'[i] = store[i]
    BY <1>0, <1>8 DEF PutPush, TypeOK, Places
  <2>8. \A i \in 1..(length + 1) : i = length + 1 \/ i \in 1..length
    BY <1>0
  <2>9. length + 1 \in 1..(length + 1) /\ \A i \in 1..length : i \in 1..(length + 1)
    BY <1>0
  <2>10. Pooled' = Pooled \cup {putting[t]} /\ putting[t] \notin Pooled /\ putting[t] \notin own[t]
    <3>1. putting[t] \notin Pooled /\ putting[t] \notin own[t]
      BY <2>5 DEF NoSliceTwice
    <3> QED
      BY <2>6, <2>7, <2>8, <2>9, <3>1 DEF Pooled
  <2>11. \A i \in 1..length : store[i] \in Pooled
    BY DEF Pooled
  <2>12. \A i, j \in 1..length' : store'[i] = store'[j] => i = j
    BY <2>6, <2>7, <2>8, <2>10, <2>11 DEF NoSliceTwice
  <2>13. NoSliceTwice' /\ NoSliceLost'
    <3>1. own'[t] \cap Moving(t)' = {} /\ (own'[t] \cup Moving(t)') \cap Pooled' = {}
      BY <2>5, <2>6, <2>10 DEF NoSliceTwice
    <3>2. own'[t] \cup Moving(t)' \cup Pooled' = own[t] \cup Moving(t) \cup Pooled \cup (made' \ made)
      BY <2>5, <2>6, <2>10
    <3> QED
      BY <2>1, <2>4, <2>6, <2>12, <3>1, <3>2, Exchange
  <2> QED
    BY <2>2, <2>3, <2>13
<1>9. ASSUME NEW t \in Threads, Unlock(t) PROVE PoolInv'
  <2>1. \A u \in Threads \ {t} : pc[u] = "idle" /\ Moving(u) = {}
    BY <1>9, OthersIdle DEF Unlock, InsideHoldsMutex
  <2>2. TypeOK'
    BY <1>0, <1>9 DEF Unlock, TypeOK, Places
  <2>3. InsideHoldsMutex'
    BY <1>0, <1>9, <2>1, PoolAssumption DEF Unlock, TypeOK, InsideHoldsMutex
  <2>4. \A u \in Threads \ {t} : Moving(u)' = {} /\ own'[u] = own[u]
    BY <1>9, <2>1 DEF Unlock, TypeOK, Moving
  <2>5. Moving(t) = {} /\ Moving(t)' = {}
    BY <1>0, <1>9 DEF Unlock, TypeOK, Moving, InsideHoldsMutex, Places
  <2>6. Pooled' = Pooled /\ own'[t] = own[t] /\ made' = made /\ store' = store /\ length' = length
    BY <1>9 DEF Unlock, TypeOK, Pooled
  <2>7. NoSliceTwice' /\ NoSliceLost'
    BY <2>1, <2>4, <2>5, <2>6, Exchange DEF NoSliceTwice
  <2> QED
    BY <2>2, <2>3, <2>7
<1>10. ASSUME NEW t \in Threads, PutThrows(t) PROVE PoolInv'
  <2>1. \A u \in Threads \ {t} : pc[u] = "idle" /\ Moving(u) = {}
    BY <1>10, OthersIdle DEF PutThrows, InsideHoldsMutex
  <2>2. TypeOK'
    BY <1>0, <1>10 DEF PutThrows, TypeOK, Places
  <2>3. InsideHoldsMutex'
    BY <1>0, <1>10, <2>1, PoolAssumption DEF PutThrows, TypeOK, InsideHoldsMutex
  <2>4. \A u \in Threads \ {t} : Moving(u)' = {} /\ own'[u] = own[u]
    BY <1>10, <2>1 DEF PutThrows, TypeOK, Moving
  <2>5. Moving(t) = {putting[t]} /\ Moving(t)' = {}
    BY <1>0, <1>10 DEF PutThrows, TypeOK, Moving, InsideHoldsMutex, Places
  <2>6. Pooled' = Pooled /\ own'[t] = own[t] \cup {putting[t]} /\ made' = made /\ store' = store /\ length' = length
    BY <1>10 DEF PutThrows, TypeOK, Pooled
  <2>7. NoSliceTwice' /\ NoSliceLost'
    BY <2>1, <2>4, <2>5, <2>6, Exchange DEF NoSliceTwice
  <2> QED
    BY <2>2, <2>3, <2>7
<1> QED
  BY <1>1, <1>2, <1>3, <1>4, <1>5, <1>6, <1>7, <1>8, <1>9, <1>10 DEF Next

\* PoolInv holds in every reachable state.
THEOREM PoolInvariant == Spec => []PoolInv
<1> QED
  BY InitPoolInv, PoolStep, PTL DEF Spec

\* page_pool.cpp: whatever the threads do, no buffer is in two places: the slice
\* that get copies after pop_back is the one it popped.
THEOREM SlicesAreUnique == Spec => []NoSliceTwice
<1>1. PoolInv => NoSliceTwice
  BY DEF PoolInv
<1> QED
  BY <1>1, PoolInvariant, PTL

\* page_pool.cpp: no buffer that new_page_ has returned is lost.
THEOREM SlicesAreKept == Spec => []NoSliceLost
<1>1. PoolInv => NoSliceLost
  BY DEF PoolInv
<1> QED
  BY <1>1, PoolInvariant, PTL

\* pages_ never outgrows its storage and every place has its type (page_pool.cpp).
THEOREM PoolTypes == Spec => []TypeOK
<1>1. PoolInv => TypeOK
  BY DEF PoolInv
<1> QED
  BY PoolInvariant, <1>1, PTL
=============================================================================
