--------------------------- MODULE FreeListProofs ---------------------------
(***************************************************************************)
(* Proofs about FreeList, for every freelist page and every assignment of   *)
(* freed pages to transactions.                                             *)
(***************************************************************************)
EXTENDS FreeList, TLAPS

-----------------------------------------------------------------------------
(* Facts about sequences.                                                  *)

\* A concatenation has the elements of both parts.
LEMMA RangeConcat ==
  ASSUME NEW S, NEW a \in Seq(S), NEW b \in Seq(S)
  PROVE  /\ a \o b \in Seq(S)
         /\ Range(a \o b) = Range(a) \cup Range(b)
<1>1. /\ a \o b \in Seq(S) /\ Len(a \o b) = Len(a) + Len(b)
      /\ Len(a) \in Nat /\ Len(b) \in Nat
  OBVIOUS
<1>2. DOMAIN a = 1..Len(a) /\ DOMAIN b = 1..Len(b) /\ DOMAIN (a \o b) = 1..(Len(a) + Len(b))
  BY <1>1
<1>3. \A i \in 1..Len(a) : (a \o b)[i] = a[i]
  OBVIOUS
<1>4. \A i \in 1..Len(b) : (a \o b)[Len(a) + i] = b[i]
  OBVIOUS
<1>5. \A i \in (Len(a) + 1)..(Len(a) + Len(b)) : i - Len(a) \in 1..Len(b) /\ (a \o b)[i] = b[i - Len(a)]
  BY <1>1, <1>4
<1>6. \A i \in 1..(Len(a) + Len(b)) : i \in 1..Len(a) \/ i \in (Len(a) + 1)..(Len(a) + Len(b))
  BY <1>1
<1>7. \A i \in 1..Len(b) : Len(a) + i \in 1..(Len(a) + Len(b))
  BY <1>1
<1>8. \A i \in 1..Len(a) : i \in 1..(Len(a) + Len(b))
  BY <1>1
<1>9. Range(a \o b) \subseteq Range(a) \cup Range(b)
  BY <1>2, <1>3, <1>5, <1>6 DEF Range
<1>10. Range(a) \subseteq Range(a \o b)
  BY <1>2, <1>3, <1>8 DEF Range
<1>11. Range(b) \subseteq Range(a \o b)
  BY <1>2, <1>4, <1>7 DEF Range
<1> QED
  BY <1>1, <1>9, <1>10, <1>11

\* The concatenation of two sequences without repetitions that share no element
\* has no repetitions.
LEMMA InjectiveConcat ==
  ASSUME NEW S, NEW a \in Seq(S), NEW b \in Seq(S),
         IsInjective(a), IsInjective(b), Range(a) \cap Range(b) = {}
  PROVE  IsInjective(a \o b)
<1>1. Len(a \o b) = Len(a) + Len(b) /\ Len(a) \in Nat /\ Len(b) \in Nat
  OBVIOUS
<1>2. DOMAIN a = 1..Len(a) /\ DOMAIN b = 1..Len(b) /\ DOMAIN (a \o b) = 1..(Len(a) + Len(b))
  BY <1>1
<1>3. \A i \in 1..Len(a) : (a \o b)[i] = a[i]
  OBVIOUS
<1>4. \A i \in (Len(a) + 1)..(Len(a) + Len(b)) : i - Len(a) \in 1..Len(b) /\ (a \o b)[i] = b[i - Len(a)]
  BY <1>1
<1>5. \A i \in 1..Len(a), j \in 1..Len(b) : a[i] # b[j]
  BY <1>2 DEF Range
<1> SUFFICES ASSUME NEW i \in 1..(Len(a) + Len(b)), NEW j \in 1..(Len(a) + Len(b)),
                    (a \o b)[i] = (a \o b)[j]
             PROVE  i = j
  BY <1>2 DEF IsInjective
<1>6. CASE i \in 1..Len(a) /\ j \in 1..Len(a)
  BY <1>2, <1>3, <1>6 DEF IsInjective
<1>7. CASE i \in (Len(a) + 1)..(Len(a) + Len(b)) /\ j \in (Len(a) + 1)..(Len(a) + Len(b))
  <2>1. b[i - Len(a)] = b[j - Len(a)]
    BY <1>4, <1>7
  <2>2. i - Len(a) = j - Len(a)
    BY <1>2, <1>4, <1>7, <2>1 DEF IsInjective
  <2> QED
    BY <1>1, <2>2
<1>8. CASE i \in 1..Len(a) /\ j \in (Len(a) + 1)..(Len(a) + Len(b))
  BY <1>3, <1>4, <1>5, <1>8
<1>9. CASE j \in 1..Len(a) /\ i \in (Len(a) + 1)..(Len(a) + Len(b))
  BY <1>3, <1>4, <1>5, <1>9
<1> QED
  BY <1>1, <1>6, <1>7, <1>8, <1>9

\* std::sort and std::inplace_merge keep the elements and add no repetition.
LEMMA Rearranged ==
  ASSUME NEW S, NEW s \in Seq(S), NEW r \in Rearrangements(s)
  PROVE  /\ r \in Seq(S) /\ Range(r) = Range(s)
         /\ IsInjective(s) => IsInjective(r)
<1>1. PICK p \in Bijection(1..Len(s), 1..Len(s)) : r = [i \in 1..Len(s) |-> s[p[i]]]
  BY DEF Rearrangements
<1>2. /\ p \in [1..Len(s) -> 1..Len(s)]
      /\ \A i, j \in 1..Len(s) : p[i] = p[j] => i = j
      /\ \A k \in 1..Len(s) : \E i \in 1..Len(s) : p[i] = k
  <2>1. p \in Injection(1..Len(s), 1..Len(s)) /\ p \in Surjection(1..Len(s), 1..Len(s))
    BY DEF Bijection
  <2>2. p \in [1..Len(s) -> 1..Len(s)] /\ IsInjective(p)
    BY <2>1 DEF Injection
  <2>3. \A k \in 1..Len(s) : \E i \in 1..Len(s) : p[i] = k
    BY <2>1 DEF Surjection
  <2> QED
    BY <2>2, <2>3 DEF IsInjective
<1>3. Len(s) \in Nat /\ DOMAIN s = 1..Len(s) /\ \A i \in 1..Len(s) : s[i] \in S
  OBVIOUS
<1>4. r \in Seq(S)
  BY <1>1, <1>2, <1>3
<1>5. DOMAIN r = 1..Len(s) /\ \A i \in 1..Len(s) : r[i] = s[p[i]]
  BY <1>1
<1>6. Range(r) = Range(s)
  <2>1. Range(r) \subseteq Range(s)
    BY <1>2, <1>3, <1>5 DEF Range
  <2>2. \A k \in 1..Len(s) : \E i \in 1..Len(s) : r[i] = s[k]
    BY <1>2, <1>5
  <2>3. Range(s) \subseteq Range(r)
    BY <1>3, <1>5, <2>2 DEF Range
  <2> QED
    BY <2>1, <2>3
<1>7. IsInjective(s) => IsInjective(r)
  <2> SUFFICES ASSUME IsInjective(s), NEW i \in 1..Len(s), NEW j \in 1..Len(s), r[i] = r[j]
               PROVE  i = j
    BY <1>5 DEF IsInjective
  <2>1. p[i] \in 1..Len(s) /\ p[j] \in 1..Len(s) /\ s[p[i]] = s[p[j]]
    BY <1>2, <1>5
  <2>2. p[i] = p[j]
    BY <1>3, <2>1 DEF IsInjective
  <2> QED
    BY <1>2, <2>2
<1> QED
  BY <1>4, <1>6, <1>7
-----------------------------------------------------------------------------
(* The invariant.                                                          *)

LocalInv ==
    /\ pc \in {"new", "idle"} => m = <<>>
    /\ pc = "new" => ids = <<>> /\ pending = freedBy /\ mark = -1
    /\ pc \in {"loop", "merge"} => upto <= mark

\* What has left pending is available or on its way, and only because a release
\* asked for it.
OwnerInv ==
    /\ DOMAIN pending \subseteq DOMAIN freedBy
    /\ \A t \in DOMAIN pending : pending[t] = freedBy[t]
    /\ \A t \in DOMAIN freedBy \ DOMAIN pending :
         t <= mark /\ Range(freedBy[t]) \subseteq Range(ids) \cup Range(m)
    /\ pc \in {"idle", "merge"} => \A t \in DOMAIN pending : mark < t
    /\ pc = "loop" => \A t \in DOMAIN pending : t <= upto \/ mark < t

ListsInv == \A t \in DOMAIN pending : IsInjective(pending[t])

FInv == TypeOK /\ LocalInv /\ OwnerInv /\ ListsInv /\ NoPageTwice /\ CacheExact

\* Every FreeList a user may start with satisfies the invariant.
LEMMA InitFInv == Init => FInv
<1> SUFFICES ASSUME Init PROVE FInv
  OBVIOUS
<1> USE FreeListAssumption, DistinctPages
<1>1. Range(<<>>) = {} /\ IsInjective(<<>>)
  BY DEF Range, IsInjective
<1>2. TypeOK
  BY DEF Init, TypeOK
<1>3. NoPageTwice
  BY <1>1 DEF Init, NoPageTwice
<1> QED
  BY <1>2, <1>3 DEF Init, FInv, LocalInv, OwnerInv, ListsInv, CacheExact

\* read() establishes the invariant.
LEMMA ReadStep == ASSUME FInv, NEW p \in Pages, Read(p) PROVE FInv'
<1> USE FreeListAssumption, DistinctPages
<1>1. ids = <<>> /\ m = <<>> /\ pending = freedBy /\ mark = -1 /\ pc' = "idle" /\ freedBy \in Pendings
  BY DEF FInv, LocalInv, Read, TypeOK
<1>2. ids' \in Rearrangements(ids \o Loaded(p))
  BY DEF Read, sort
<1>3. Loaded(p) \in Seq(Pgids) /\ IsInjective(Loaded(p))
  OBVIOUS
<1>4. <<>> \o Loaded(p) = Loaded(p)
  BY <1>3
<1>5. ids' \in Seq(Pgids) /\ Range(ids') = Range(Loaded(p)) /\ IsInjective(ids')
  BY <1>1, <1>2, <1>3, <1>4, Rearranged
<1>6. UNCHANGED <<pending, upto, m, freedBy, mark>>
  BY DEF Read
<1>7. Range(m) = {} /\ IsInjective(m)
  BY <1>1 DEF Range, IsInjective
<1>8. cache' = Range(ids') \cup PagesOf(pending)
  BY DEF Read, reindex
<1>9. PagesOf(pending) \subseteq Pgids /\ Range(ids') \subseteq Pgids
  BY <1>5, <1>1 DEF PagesOf, Range
<1>10. TypeOK'
  BY <1>1, <1>5, <1>6, <1>8, <1>9 DEF TypeOK, FInv
<1>11. NoPageTwice'
  BY <1>1, <1>5, <1>6, <1>7 DEF NoPageTwice, PagesOf
<1>12. CacheExact'
  BY <1>6, <1>7, <1>8 DEF CacheExact, PagesOf
<1>13. ListsInv' /\ LocalInv'
  BY <1>1, <1>6 DEF ListsInv, LocalInv, FInv
<1>14. OwnerInv'
  <2>1. DOMAIN pending \subseteq Nat
    BY DEF FInv, TypeOK
  <2> QED
    BY <1>1, <1>6, <2>1 DEF OwnerInv
<1> QED
  BY <1>10, <1>11, <1>12, <1>13, <1>14 DEF FInv

\* The start of a release keeps the invariant.
LEMMA CallStep == ASSUME FInv, NEW t \in Txids, ReleaseCall(t) PROVE FInv'
<1> USE FreeListAssumption
<1>1. /\ pc = "idle" /\ pc' = "loop" /\ upto' = t /\ m' = <<>> /\ m = <<>>
      /\ UNCHANGED <<ids, pending, cache, freedBy>> /\ mark' = IF t > mark THEN t ELSE mark
  BY DEF ReleaseCall, FInv, LocalInv
<1>2. t \in Int /\ mark \in Int /\ mark <= mark' /\ t <= mark' /\ mark' \in Int
  BY <1>1 DEF FInv, TypeOK
<1>3. TypeOK'
  BY <1>1, <1>2 DEF FInv, TypeOK
<1>4. LocalInv' /\ ListsInv' /\ NoPageTwice' /\ CacheExact'
  BY <1>1, <1>2 DEF FInv, LocalInv, ListsInv, NoPageTwice, CacheExact, PagesOf
<1>5. OwnerInv'
  <2>1. DOMAIN pending \subseteq Nat /\ DOMAIN freedBy \subseteq Nat
    BY DEF FInv, TypeOK
  <2>2. \A s \in DOMAIN pending : s <= t \/ mark' < s
    BY <1>1, <1>2, <2>1 DEF FInv, OwnerInv
  <2>3. \A s \in DOMAIN freedBy : s <= mark => s <= mark'
    BY <1>2, <2>1
  <2> QED
    BY <1>1, <2>2, <2>3 DEF FInv, OwnerInv
<1> QED
  BY <1>3, <1>4, <1>5 DEF FInv

\* Moving the pages of one transaction into m keeps the invariant.
LEMMA MoveStep == ASSUME FInv, NEW t \in Txids, ReleaseMove(t) PROVE FInv'
<1> USE FreeListAssumption
<1> DEFINE D == DOMAIN pending \ {t}
<1>1. /\ t \in DOMAIN pending /\ t <= upto /\ pc = "loop" /\ m' = m \o pending[t]
      /\ pending' = [s \in D |-> pending[s]]
      /\ UNCHANGED <<ids, cache, pc, upto, freedBy, mark>>
  BY DEF ReleaseMove, Restrict
<1>2. DOMAIN pending' = D /\ \A s \in D : pending'[s] = pending[s]
  BY <1>1
<1>3. pending[t] \in Seq(Pgids) /\ m \in Seq(Pgids)
  BY <1>1 DEF FInv, TypeOK
<1>4. m' \in Seq(Pgids) /\ Range(m') = Range(m) \cup Range(pending[t])
  BY <1>1, <1>3, RangeConcat
<1>5. Range(pending[t]) \subseteq PagesOf(pending)
  BY <1>1 DEF PagesOf
<1>6. PagesOf(pending) = PagesOf(pending') \cup Range(pending[t])
  BY <1>1, <1>2 DEF PagesOf
<1>7. Range(pending[t]) \cap PagesOf(pending') = {}
  BY <1>1, <1>2 DEF PagesOf, FInv, NoPageTwice
<1>8. IsInjective(m')
  <2>1. Range(m) \cap Range(pending[t]) = {}
    BY <1>5 DEF FInv, NoPageTwice
  <2>2. IsInjective(m) /\ IsInjective(pending[t])
    BY <1>1 DEF FInv, NoPageTwice, ListsInv
  <2> QED
    BY <1>1, <1>3, <2>1, <2>2, InjectiveConcat
<1>9. TypeOK'
  BY <1>1, <1>2, <1>4 DEF FInv, TypeOK
<1>10. NoPageTwice'
  BY <1>1, <1>2, <1>4, <1>5, <1>6, <1>7, <1>8 DEF FInv, NoPageTwice
<1>11. CacheExact'
  BY <1>1, <1>4, <1>6 DEF FInv, CacheExact
<1>12. LocalInv' /\ ListsInv'
  BY <1>1, <1>2 DEF FInv, LocalInv, ListsInv
<1>13. OwnerInv'
  <2>1. upto <= mark /\ upto \in Nat /\ mark \in Int /\ t \in Nat
    BY <1>1 DEF FInv, LocalInv, TypeOK
  <2>2. t <= mark
    BY <1>1, <2>1
  <2> QED
    BY <1>1, <1>2, <1>4, <2>2 DEF FInv, OwnerInv
<1> QED
  BY <1>9, <1>10, <1>11, <1>12, <1>13 DEF FInv

\* The end of the loop keeps the invariant: nothing old enough is left.
LEMMA LoopEndStep == ASSUME FInv, ReleaseLoopEnd PROVE FInv'
<1> USE FreeListAssumption
<1>1. /\ pc = "loop" /\ pc' = "merge" /\ \A t \in DOMAIN pending : upto < t
      /\ UNCHANGED <<ids, pending, cache, upto, m, freedBy, mark>>
  BY DEF ReleaseLoopEnd
<1>2. \A t \in DOMAIN pending : mark < t
  <2>1. DOMAIN pending \subseteq Nat /\ upto \in Nat
    BY DEF FInv, TypeOK
  <2> QED
    BY <1>1, <2>1 DEF FInv, OwnerInv
<1>3. TypeOK' /\ LocalInv' /\ ListsInv'
  BY <1>1 DEF FInv, TypeOK, LocalInv, ListsInv
<1>4. NoPageTwice' /\ CacheExact'
  BY <1>1 DEF FInv, NoPageTwice, CacheExact, PagesOf
<1>5. OwnerInv'
  BY <1>1, <1>2 DEF FInv, OwnerInv
<1> QED
  BY <1>3, <1>4, <1>5 DEF FInv

\* The merge keeps the invariant, sorted or not: it only rearranges.
LEMMA MergeStep == ASSUME FInv, ReleaseMerge PROVE FInv'
<1> USE FreeListAssumption
<1>1. /\ pc = "merge" /\ pc' = "idle" /\ m' = <<>> /\ ids' \in Rearrangements(ids \o m)
      /\ UNCHANGED <<pending, cache, upto, freedBy, mark>>
  BY DEF ReleaseMerge, inplace_merge
<1>2. ids \in Seq(Pgids) /\ m \in Seq(Pgids)
  BY DEF FInv, TypeOK
<1>3. ids \o m \in Seq(Pgids) /\ Range(ids \o m) = Range(ids) \cup Range(m)
  BY <1>2, RangeConcat
<1>4. IsInjective(ids \o m)
  BY <1>2, InjectiveConcat DEF FInv, NoPageTwice
<1>5. ids' \in Seq(Pgids) /\ Range(ids') = Range(ids) \cup Range(m) /\ IsInjective(ids')
  BY <1>1, <1>3, <1>4, Rearranged
<1>6. Range(m') = {} /\ IsInjective(m') /\ m' \in Seq(Pgids)
  BY <1>1 DEF Range, IsInjective
<1>7. TypeOK' /\ LocalInv' /\ ListsInv'
  BY <1>1, <1>5, <1>6 DEF FInv, TypeOK, LocalInv, ListsInv
<1>8. NoPageTwice' /\ CacheExact'
  BY <1>1, <1>5, <1>6 DEF FInv, NoPageTwice, CacheExact, PagesOf
<1>9. OwnerInv'
  BY <1>1, <1>5, <1>6 DEF FInv, OwnerInv
<1> QED
  BY <1>7, <1>8, <1>9 DEF FInv

\* The invariant of the free list holds in every state.
THEOREM FreeListInvariant == Spec => []FInv
<1>1. FInv /\ [Next]_vars => FInv'
  <2> SUFFICES ASSUME FInv, [Next]_vars PROVE FInv'
    OBVIOUS
  <2>1. CASE UNCHANGED vars
    BY <2>1 DEF vars, FInv, TypeOK, LocalInv, OwnerInv, ListsInv, NoPageTwice, CacheExact, PagesOf
  <2>2. CASE Next
    BY <2>2, ReadStep, CallStep, MoveStep, LoopEndStep, MergeStep DEF Next
  <2> QED
    BY <2>1, <2>2
<1> QED
  BY InitFInv, <1>1, PTL DEF Spec

\* No sequence of releases puts a page in two places (freelist.cpp:5-20), even
\* where inplace_merge is given unsorted runs.
THEOREM PagesFreeOnce == Spec => []NoPageTwice
<1>1. FInv => NoPageTwice
  BY DEF FInv
<1> QED
  BY <1>1, FreeListInvariant, PTL

\* The cache is exactly the free and pending pages although release never
\* touches it (freelist.cpp:10).
THEOREM CacheStaysExact == Spec => []CacheExact
<1>1. FInv => CacheExact
  BY DEF FInv
<1> QED
  BY <1>1, FreeListInvariant, PTL

\* release makes available exactly the pages of the transactions up to its
\* argument (freelist.h:42).
THEOREM ReleasesExactly == Spec => []ReleaseExact
<1>1. FInv => ReleaseExact
  <2> SUFFICES ASSUME FInv, pc = "idle", NEW t \in DOMAIN freedBy, NEW x \in Range(freedBy[t])
               PROVE  (x \in Range(ids)) <=> (t <= mark)
    BY DEF ReleaseExact
  <2>1. t \in Nat /\ mark \in Int
    BY FreeListAssumption DEF FInv, TypeOK
  <2>2. CASE t \in DOMAIN pending
    <3>1. mark < t /\ x \in PagesOf(pending)
      BY <2>2 DEF FInv, OwnerInv, PagesOf
    <3> QED
      BY <2>1, <3>1 DEF FInv, NoPageTwice
  <2>3. CASE t \notin DOMAIN pending
    <3>1. Range(m) = {}
      BY DEF FInv, LocalInv, Range
    <3> QED
      BY <2>3, <3>1 DEF FInv, OwnerInv
  <2> QED
    BY <2>2, <2>3
<1> QED
  BY <1>1, FreeListInvariant, PTL

\* The fields of FreeList keep their types (freelist.h:11-18), whatever arrangement
\* the sort and the merge choose.
THEOREM FreeListTypes == Spec => []TypeOK
<1>1. FInv => TypeOK
  BY DEF FInv
<1> QED
  BY FreeListInvariant, <1>1, PTL
=============================================================================
