------------------------------ MODULE FreeList ------------------------------
(***************************************************************************)
(* FreeList (freelist.cpp): the pages available for allocation, the pages   *)
(* freed by transactions that may still be read, and the cache of both.     *)
(* A DB reads the list once from its freelist page and then releases        *)
(* pending pages; both run under metalock_, so they are not interleaved.    *)
(* release is modelled by its loop, one step for each transaction it moves. *)
(***************************************************************************)
EXTENDS Integers, Sequences, Functions

CONSTANTS Pgids,     \* page ids
          Txids,     \* transaction ids
          CountMax,  \* 0xFFFF, the page count that marks an overflowing list
          Pages,     \* the freelist pages read() may be given
          Pendings   \* what the fields of the struct may hold before read()

ASSUME FreeListAssumption ==
    /\ Pgids \subseteq Nat
    /\ Txids \subseteq Nat
    /\ CountMax \in Nat \ {0}
    /\ \A p \in Pages : p.count \in 0..CountMax
    /\ \A d \in Pendings : DOMAIN d \subseteq Txids /\ d \in [DOMAIN d -> Seq(Pgids)]

VARIABLES
    ids,      \* FreeList::ids
    pending,  \* FreeList::pending, a function on the transactions it has
    cache,    \* FreeList::cache
    pc,       \* "new" before read(), "idle", "loop" and "merge" inside release()
    upto,     \* the argument of the release() under way, or of the last one
    m,        \* its local vector
    freedBy,  \* what pending was before the first release
    mark      \* the largest argument of a release so far; -1 before the first

vars == <<ids, pending, cache, pc, upto, m, freedBy, mark>>

PagesOf(d) == UNION {Range(d[t]) : t \in DOMAIN d}

TypeOK ==
    /\ ids \in Seq(Pgids)
    /\ DOMAIN pending \subseteq Txids
    /\ pending \in [DOMAIN pending -> Seq(Pgids)]
    /\ cache \subseteq Pgids
    /\ pc \in {"new", "idle", "loop", "merge"}
    /\ upto \in Nat
    /\ m \in Seq(Pgids)
    /\ freedBy \in Pendings
    /\ mark \in Int

-----------------------------------------------------------------------------
(* std::sort and std::inplace_merge.                                       *)

IsSorted(s) == \A i, j \in 1..Len(s) : i < j => s[i] <= s[j]

Rearrangements(s) ==
    {[i \in 1..Len(s) |-> s[p[i]]] : p \in Bijection(1..Len(s), 1..Len(s))}

sort(s) == {r \in Rearrangements(s) : IsSorted(r)}

\* Two sorted runs are merged; if one of them is not sorted the outcome is some
\* arrangement of their elements.
inplace_merge(a, b) ==
    {r \in Rearrangements(a \o b) : IsSorted(a) /\ IsSorted(b) => IsSorted(r)}

-----------------------------------------------------------------------------
\* Where the ids start among the page's words, and how many ids there are.
Header(p) ==
    IF p.count = CountMax THEN [idx |-> 1, count |-> p.words[1]]
                          ELSE [idx |-> 0, count |-> p.count]

\* read() copies the words from ids + idx up to ids + count.
Loaded(p) ==
    LET h == Header(p)
    IN  IF h.count > 0 THEN SubSeq(p.words, h.idx + 1, h.count) ELSE <<>>

\* A page is free for one reason: the freelist page names it once or a
\* transaction has freed it once, and not both.
ASSUME DistinctPages ==
    /\ \A p \in Pages : Loaded(p) \in Seq(Pgids) /\ IsInjective(Loaded(p))
    /\ \A d \in Pendings :
         /\ \A t \in DOMAIN d : IsInjective(d[t])
         /\ \A s, t \in DOMAIN d : s # t => Range(d[s]) \cap Range(d[t]) = {}
         /\ \A p \in Pages : Range(Loaded(p)) \cap PagesOf(d) = {}

Init ==
    /\ pending \in Pendings /\ freedBy = pending
    /\ ids = <<>> /\ cache = {} /\ m = <<>>
    /\ pc = "new" /\ upto = 0 /\ mark = -1

-----------------------------------------------------------------------------
(* Seeded faults: each replaces the definition it is named after in one run. *)

reindex_IdsOnly(i, d) == Range(i)

ReleaseMove_Keeps(t) ==
    /\ pc = "loop"
    /\ t \in DOMAIN pending /\ t <= upto
    /\ \A s \in DOMAIN pending : t <= s
    /\ m' = m \o pending[t]
    /\ pc' = "merge"
    /\ UNCHANGED <<ids, pending, cache, upto, freedBy, mark>>

ReleaseMove_PushesKey(t) ==
    /\ pc = "loop"
    /\ t \in DOMAIN pending /\ t <= upto
    /\ \A s \in DOMAIN pending : t <= s
    /\ m' = Append(m, t)
    /\ pending' = Restrict(pending, DOMAIN pending \ {t})
    /\ UNCHANGED <<ids, cache, pc, upto, freedBy, mark>>

ReleaseCall_OffByOne(t) ==
    /\ pc = "idle"
    /\ pc' = "loop" /\ upto' = t + 1 /\ m' = <<>>
    /\ mark' = IF t > mark THEN t ELSE mark
    /\ UNCHANGED <<ids, pending, cache, freedBy>>

-----------------------------------------------------------------------------
\* FreeList::reindex: the cache holds the available and the pending pages.
reindex(i, d) == Range(i) \cup PagesOf(d)

Read(p) ==
    /\ pc = "new"
    /\ pc' = "idle"
    /\ ids' \in sort(ids \o Loaded(p))
    /\ cache' = reindex(ids', pending)
    /\ UNCHANGED <<pending, upto, m, freedBy, mark>>

ReleaseCall(t) ==
    /\ pc = "idle"
    /\ pc' = "loop" /\ upto' = t /\ m' = <<>>
    /\ mark' = IF t > mark THEN t ELSE mark
    /\ UNCHANGED <<ids, pending, cache, freedBy>>

\* The map is walked in key order, so the next transaction to be moved is the
\* least one, if it is not above the argument.
ReleaseMove(t) ==
    /\ pc = "loop"
    /\ t \in DOMAIN pending /\ t <= upto
    /\ \A s \in DOMAIN pending : t <= s
    /\ m' = m \o pending[t]
    /\ pending' = Restrict(pending, DOMAIN pending \ {t})
    /\ UNCHANGED <<ids, cache, pc, upto, freedBy, mark>>

ReleaseLoopEnd ==
    /\ pc = "loop"
    /\ \A t \in DOMAIN pending : upto < t
    /\ pc' = "merge"
    /\ UNCHANGED <<ids, pending, cache, upto, m, freedBy, mark>>

ReleaseMerge ==
    /\ pc = "merge"
    /\ ids' \in inplace_merge(ids, m)
    /\ m' = <<>> /\ pc' = "idle"
    /\ UNCHANGED <<pending, cache, upto, freedBy, mark>>

Next ==
    \/ \E p \in Pages : Read(p)
    \/ \E t \in Txids : ReleaseCall(t) \/ ReleaseMove(t)
    \/ ReleaseLoopEnd \/ ReleaseMerge

Spec == Init /\ [][Next]_vars

-----------------------------------------------------------------------------
(* Properties.                                                             *)

\* The cache is not touched by release ("Don't remove from the cache since the
\* page is still free", freelist.cpp:10): at every point of every release it is
\* exactly the pages that are available, being moved, or pending.
CacheExact ==
    pc # "new" => cache = Range(ids) \cup Range(m) \cup PagesOf(pending)

\* A page is in one place only, so it can be allocated once: never twice in ids,
\* never in ids while still pending (freelist.cpp:5-20).
NoPageTwice ==
    /\ IsInjective(ids) /\ IsInjective(m)
    /\ Range(ids) \cap Range(m) = {}
    /\ (Range(ids) \cup Range(m)) \cap PagesOf(pending) = {}
    /\ \A s, t \in DOMAIN pending : s # t => Range(pending[s]) \cap Range(pending[t]) = {}

\* After any sequence of releases the available pages contain every page freed
\* by a transaction up to the largest argument, and none freed by a later one
\* ("release moves all page ids for a transaction id (or older)", freelist.h:42).
ReleaseExact ==
    pc = "idle" => \A t \in DOMAIN freedBy : \A x \in Range(freedBy[t]) :
                       (x \in Range(ids)) <=> (t <= mark)

-----------------------------------------------------------------------------
(* Statements of the repository that the code does not satisfy.            *)

\* freelist.cpp:37: the ids are sorted.
IdsSorted == pc = "idle" => IsSorted(ids)
=============================================================================
