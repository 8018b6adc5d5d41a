---------------------------- MODULE CursorProofs ----------------------------
(***************************************************************************)
(* Proofs about Cursor, for every search tree: any depth, any number of      *)
(* children, empty leaves anywhere.                                         *)
(***************************************************************************)
EXTENDS Cursor, FiniteSetTheorems, WellFoundedInduction, TLAPS

-----------------------------------------------------------------------------
(* The inductive invariant.                                                *)

TreeOK(t) ==
    /\ t = [id \in DOMAIN t |-> t[id]] /\ Root \in DOMAIN t
    /\ \A id \in DOMAIN t : PageOK(t, id)

CountOf(t, ref) == Len(t[ref.id].keys)

KidOf(t, ref) == t[ref.id].kids[ref.index + 1]

\* The index of a ref: on a branch that of a child; on a leaf it may be just outside, before
\* the keys only if there are none.
RefOK(t, ref) ==
    IF t[ref.id].leaf THEN \/ ref.index \in 0..CountOf(t, ref)
                           \/ ref.index = -1 /\ CountOf(t, ref) = 0
                      ELSE ref.index \in 0..(CountOf(t, ref) - 1)

\* The refs lead from the root down.
PathOK(t, st) ==
    /\ st \in Seq([id : DOMAIN t, index : Int])
    /\ st # <<>> => st[1].id = Root
    /\ \A j \in 1..Len(st) : RefOK(t, st[j])
    /\ \A j \in 1..(Len(st) - 1) : ~t[st[j].id].leaf /\ st[j + 1].id = KidOf(t, st[j])

\* Which call is in which loop, and what the top of the stack is then.
Control ==
    /\ pc \in PCs /\ op \in Ops /\ arg \in SeekKeys /\ aborted \in BOOLEAN
    /\ pc \in {"first_", "next_", "next_first_", "last_"} => stack # <<>>
    /\ pc \in {"idle", "next_"} /\ stack # <<>> => isLeaf(Last(stack))
    /\ pc = "search" /\ stack # <<>> => ~isLeaf(Last(stack))
    /\ pc = "first_" => op = "first"
    /\ pc \in {"next_", "next_first_"} => op \in {"first", "next", "seek"}
    /\ pc = "last_" => op \in {"last", "prev"}
    /\ pc = "search" => op = "seek"
    /\ pc \in {"first_", "next_first_"} =>
         LET top == Last(stack) IN top.index = 0 \/ top.index \in 1..(count(top) - 1)
    /\ pc = "last_" => LET top == Last(stack) IN top.index = count(top) - 1

KeysKnown ==
    /\ \A id \in DOMAIN tree : \A i \in DOMAIN tree[id].keys : tree[id].keys[i] \in Keys
    /\ ret \in Keys \cup {Nil} /\ reached \in Keys \cup {Nil}

CursorInv == TreeOK(tree) /\ PathOK(tree, stack) /\ Control /\ KeysKnown

\* The keys under the m-th child of a branch, or the m-th key of a leaf.
Part(t, u, id, m) == IF t[id].leaf THEN {t[id].keys[m]} ELSE u[t[id].kids[m]]

\* The keys a ref points at, and those behind them in the same page.
Here(t, u, ref) ==
    UNION {Part(t, u, ref.id, m) : m \in {n \in 1..CountOf(t, ref) : n = ref.index + 1}}

Behind(t, u, ref) ==
    UNION {Part(t, u, ref.id, m) : m \in {n \in 1..CountOf(t, ref) : n > ref.index + 1}}

\* The keys that the cursor has still to visit, without and with those it points at.
After(t, u, st) == UNION {Behind(t, u, st[j]) : j \in 1..Len(st)}

Ahead(t, u, st) == After(t, u, st) \cup Here(t, u, Last(st))

\* Every page of the path splits the other keys of the tree: those behind one of the refs
\* above it, and smaller ones.
Split(t, u, st) ==
    \A j \in 1..Len(st) :
        /\ \A i \in 1..j : u[st[j].id] \subseteq u[st[i].id]
        /\ \A k \in u[Root] :
             \/ k \in u[st[j].id]
             \/ \A l \in u[st[j].id] : k < l
             \/ \E i \in 1..(j - 1) : k \in Behind(t, u, st[i])

\* The keys after key r, none after the end.
Beyond(t, r) == IF r = Nil THEN {} ELSE {k \in LeafKeysOf(t) : k > r}

\* The keys that a call has to choose from, of which it returns the least one.
Wanted(t, name, key, r) ==
    CASE name = "first" -> LeafKeysOf(t)
      [] name = "next"  -> Beyond(t, r)
      [] name = "seek"  -> {k \in LeafKeysOf(t) : k >= key}
      [] OTHER          -> {}

\* On pages a seek may end anywhere.
Tracked(t, name) == name = "seek" => \A id \in DOMAIN t : t[id].node

\* What is ahead of the cursor in each loop, for the values of the variables.
Position(t, u, st, at, name, key, r) ==
    /\ at = "idle" /\ st # <<>> => After(t, u, st) = Beyond(t, r)
    /\ at = "next_" /\ Tracked(t, name) => After(t, u, st) = Wanted(t, name, key, r)
    /\ at \in {"first_", "next_first_"} /\ Tracked(t, name) =>
         Ahead(t, u, st) = Wanted(t, name, key, r)
    /\ at = "last_" => After(t, u, st) = {}
    /\ at = "search" /\ Tracked(t, name) =>
         /\ \A k \in After(t, u, st) : k >= key
         /\ \A k \in LeafKeysOf(t) : k >= key =>
              k \in After(t, u, st) \cup u[IF st = <<>> THEN Root ELSE KidOf(t, Last(st))]

ScanWith(u) ==
    /\ SearchTree(tree, u) /\ Split(tree, u, stack)
    /\ Position(tree, u, stack, pc, op, arg, reached)

ScanInv == CursorInv /\ \E u : ScanWith(u)

-----------------------------------------------------------------------------
(* Facts about numbers, pages and lower_bound.                             *)

\* A set of numbers that is not empty has a smallest one.
LEMMA SmallestNat ==
  ASSUME NEW T, T \subseteq Nat, T # {}
  PROVE  \E n \in T : \A k \in T : n <= k
<1>1. PICK n \in T : \A k \in T : ~(<<k, n>> \in OpToRel(<, Nat))
  BY NatLessThanWellFounded, WFMin
<1>2. \A k \in T : ~(k < n)
  BY <1>1 DEF OpToRel
<1> QED
  BY <1>2

LEMMA MaxOfIndices ==
  ASSUME NEW N \in Nat, NEW S \in SUBSET (1..N), S # {}
  PROVE  Max(S) \in S /\ \A i \in S : i <= Max(S)
<1> DEFINE T == {N - i : i \in S}
<1>1. T \subseteq Nat /\ T # {}
  <2>1. \A i \in S : N - i \in Nat
    OBVIOUS
  <2>2. PICK i \in S : TRUE
    OBVIOUS
  <2>3. N - i \in T
    BY <2>2
  <2> QED
    BY <2>1, <2>3
<1>2. PICK n \in T : \A k \in T : n <= k
  <2> HIDE DEF T
  <2> QED
    BY <1>1, SmallestNat
<1>3. PICK m \in S : n = N - m
  BY <1>2
<1>4. \A i \in S : m >= i
  <2> SUFFICES ASSUME NEW i \in S PROVE m >= i
    OBVIOUS
  <2>1. N - i \in T
    OBVIOUS
  <2>2. n <= N - i
    <3> HIDE DEF T
    <3> QED
      BY <1>2, <2>1
  <2> QED
    BY <1>3, <2>2
<1>5. \E x \in S : \A y \in S : x >= y
  BY <1>4
<1>6. Max(S) \in S /\ \A y \in S : Max(S) >= y
  BY <1>5 DEF Max
<1> QED
  BY <1>6

\* On sorted keys std::lower_bound separates the smaller keys from the others.
LEMMA LowerBound ==
  ASSUME NEW s \in Seq(Nat), \A i, j \in DOMAIN s : i < j => s[i] < s[j], NEW k \in Nat
  PROVE  LET n == Cardinality({i \in DOMAIN s : s[i] < k})
         IN  /\ n \in 0..Len(s)
             /\ \A i \in 1..n : s[i] < k
             /\ \A i \in (n + 1)..Len(s) : k <= s[i]
<1> DEFINE N == Len(s)
           L == {i \in DOMAIN s : s[i] < k}
           T == {n \in Nat : n # 0 /\ n \notin L}
<1>1. N \in Nat /\ DOMAIN s = 1..N /\ \A i \in 1..N : s[i] \in Nat
  OBVIOUS
<1>2. N + 1 \in T /\ T \subseteq Nat
  BY <1>1
<1>3. PICK n \in T : \A j \in T : n <= j
  <2> HIDE DEF T
  <2> QED
    BY <1>2, SmallestNat
<1>4. n \in 1..(N + 1) /\ n \notin L
  <2>1. n <= N + 1
    <3> HIDE DEF T
    <3> QED
      BY <1>2, <1>3
  <2> QED
    BY <1>1, <1>3, <2>1
<1>5. \A i \in 1..(n - 1) : i \in L
  <2> SUFFICES ASSUME NEW i \in 1..(n - 1), i \notin L PROVE FALSE
    OBVIOUS
  <2>1. i \in T
    BY <1>4
  <2> HIDE DEF T
  <2> QED
    BY <1>3, <1>4, <2>1
<1>6. \A i \in n..N : i \notin L
  <2> SUFFICES ASSUME NEW i \in n..N, i \in L PROVE FALSE
    OBVIOUS
  <2>1. i \in 1..N /\ s[i] < k /\ n \in 1..N
    BY <1>1, <1>4
  <2>2. ~(s[n] < k)
    BY <1>1, <1>4, <2>1
  <2>3. n < i
    BY <2>1, <2>2
  <2>4. s[n] < s[i]
    BY <1>1, <2>1, <2>3
  <2> QED
    BY <1>1, <2>1, <2>2, <2>4
<1>7. L = 1..(n - 1)
  <2>1. \A i \in L : i \in 1..(n - 1)
    BY <1>1, <1>4, <1>6
  <2> HIDE DEF L
  <2> QED
    BY <1>5, <2>1
<1>8. Cardinality(L) = n - 1
  <2> HIDE DEF L
  <2>1. Cardinality(1..(n - 1)) = IF 1 > n - 1 THEN 0 ELSE (n - 1) - 1 + 1
    BY <1>4, FS_Interval
  <2> QED
    BY <1>4, <1>7, <2>1
<1>9. \A i \in 1..(n - 1) : s[i] < k
  BY <1>5
<1>10. \A i \in n..N : k <= s[i]
  BY <1>1, <1>4, <1>6
<1>11. /\ Cardinality(L) \in 0..N
       /\ \A i \in 1..Cardinality(L) : s[i] < k
       /\ \A i \in (Cardinality(L) + 1)..N : k <= s[i]
  <2> HIDE DEF L, T
  <2> QED
    BY <1>1, <1>4, <1>8, <1>9, <1>10
<1> QED
  BY <1>11

\* What a page of a tree is.
LEMMA PageFacts ==
  ASSUME NEW t, TreeOK(t), NEW id \in DOMAIN t
  PROVE  /\ t[id].leaf \in BOOLEAN /\ t[id].node \in BOOLEAN
         /\ t[id].keys \in Seq(Nat) /\ t[id].kids \in Seq(DOMAIN t)
         /\ Len(t[id].keys) \in Nat /\ DOMAIN t[id].keys = 1..Len(t[id].keys)
         /\ \A i \in 1..Len(t[id].keys) : t[id].keys[i] \in Nat
         /\ \A i, j \in 1..Len(t[id].keys) : i < j => t[id].keys[i] < t[id].keys[j]
         /\ ~t[id].leaf => /\ Len(t[id].keys) > 0 /\ Len(t[id].kids) = Len(t[id].keys)
                           /\ DOMAIN t[id].kids = 1..Len(t[id].keys)
                           /\ \A i \in 1..Len(t[id].keys) : t[id].kids[i] \in DOMAIN t
<1>1. /\ t[id] \in [leaf : BOOLEAN, node : BOOLEAN, keys : Seq(Nat), kids : Seq(DOMAIN t)]
      /\ \A i, j \in DOMAIN t[id].keys : i < j => t[id].keys[i] < t[id].keys[j]
      /\ ~t[id].leaf => t[id].kids # <<>> /\ Len(t[id].kids) = Len(t[id].keys)
  BY DEF TreeOK, PageOK
<1>2. /\ t[id].leaf \in BOOLEAN /\ t[id].node \in BOOLEAN
      /\ t[id].keys \in Seq(Nat) /\ t[id].kids \in Seq(DOMAIN t)
  BY <1>1
<1> DEFINE ks == t[id].keys
           cs == t[id].kids
<1>3. ks \in Seq(Nat) /\ cs \in Seq(DOMAIN t)
  BY <1>2
<1>4. /\ \A i, j \in DOMAIN ks : i < j => ks[i] < ks[j]
      /\ ~t[id].leaf => cs # <<>> /\ Len(cs) = Len(ks)
  BY <1>1
<1> HIDE DEF ks, cs
<1>5. /\ Len(ks) \in Nat /\ DOMAIN ks = 1..Len(ks)
      /\ \A i \in 1..Len(ks) : ks[i] \in Nat
  BY <1>3
<1>6. Len(cs) \in Nat /\ DOMAIN cs = 1..Len(cs) /\ \A i \in 1..Len(cs) : cs[i] \in DOMAIN t
  BY <1>3
<1>7. cs # <<>> => Len(cs) > 0
  BY <1>3
<1>8. /\ Len(ks) \in Nat /\ DOMAIN ks = 1..Len(ks)
      /\ \A i \in 1..Len(ks) : ks[i] \in Nat
      /\ \A i, j \in 1..Len(ks) : i < j => ks[i] < ks[j]
      /\ ~t[id].leaf => /\ Len(ks) > 0 /\ Len(cs) = Len(ks)
                        /\ DOMAIN cs = 1..Len(ks)
                        /\ \A i \in 1..Len(ks) : cs[i] \in DOMAIN t
  BY <1>4, <1>5, <1>6, <1>7
<1> QED
  BY <1>2, <1>8 DEF ks, cs

LEMMA TopFacts ==
  ASSUME NEW t, TreeOK(t), NEW st, PathOK(t, st)
  PROVE  /\ Len(st) \in Nat /\ DOMAIN st = 1..Len(st)
         /\ \A j \in 1..Len(st) : st[j].id \in DOMAIN t /\ st[j].index \in Int
         /\ st # <<>> => /\ Len(st) > 0 /\ Last(st) = st[Len(st)]
                         /\ Last(st).id \in DOMAIN t /\ Last(st).index \in Int
                         /\ RefOK(t, Last(st))
<1> DEFINE R == [id : DOMAIN t, index : Int]
<1>1. st \in Seq(R) /\ \A j \in 1..Len(st) : RefOK(t, st[j])
  BY DEF PathOK
<1>2. \A r \in R : r.id \in DOMAIN t /\ r.index \in Int
  OBVIOUS
<1> HIDE DEF R
<1>3. Len(st) \in Nat /\ DOMAIN st = 1..Len(st) /\ \A j \in 1..Len(st) : st[j] \in R
  BY <1>1
<1>4. st # <<>> => Len(st) > 0 /\ Len(st) \in 1..Len(st)
  BY <1>1
<1>5. Last(st) = st[Len(st)]
  BY DEF Last
<1> QED
  BY <1>1, <1>2, <1>3, <1>4, <1>5

-----------------------------------------------------------------------------
(* Paths.                                                                  *)

LEMMA PathRoot ==
  ASSUME NEW t, TreeOK(t), NEW i \in Int, RefOK(t, [id |-> Root, index |-> i])
  PROVE  PathOK(t, <<[id |-> Root, index |-> i]>>)
<1> DEFINE R == [id : DOMAIN t, index : Int]
           r == [id |-> Root, index |-> i]
<1>1. r \in R /\ r.id = Root
  BY DEF TreeOK
<1>2. RefOK(t, r)
  OBVIOUS
<1> HIDE DEF R, r
<1>3. <<r>> \in Seq(R) /\ Len(<<r>>) = 1 /\ <<r>>[1] = r
  BY <1>1
<1>4. PathOK(t, <<r>>)
  BY <1>1, <1>2, <1>3 DEF PathOK, R
<1> QED
  BY <1>4 DEF r

LEMMA PathEmpty ==
  ASSUME NEW t PROVE PathOK(t, <<>>)
BY DEF PathOK

\* A child is put on the stack.
LEMMA PathPush ==
  ASSUME NEW t, TreeOK(t), NEW st, PathOK(t, st), st # <<>>, ~t[Last(st).id].leaf,
         NEW i \in Int, RefOK(t, [id |-> KidOf(t, Last(st)), index |-> i])
  PROVE  LET new == Append(st, [id |-> KidOf(t, Last(st)), index |-> i])
         IN  /\ PathOK(t, new) /\ KidOf(t, Last(st)) \in DOMAIN t
             /\ new # <<>> /\ Len(new) = Len(st) + 1
             /\ \A j \in 1..Len(st) : new[j] = st[j]
             /\ Last(new) = [id |-> KidOf(t, Last(st)), index |-> i]
             /\ new[Len(st) + 1] = [id |-> KidOf(t, Last(st)), index |-> i]
<1> DEFINE R == [id : DOMAIN t, index : Int]
           top == Last(st)
           r == [id |-> KidOf(t, top), index |-> i]
           new == Append(st, r)
<1>1. /\ Len(st) \in Nat /\ Len(st) > 0 /\ top = st[Len(st)]
      /\ top.id \in DOMAIN t /\ top.index \in Int /\ RefOK(t, top)
  BY TopFacts
<1>2. KidOf(t, top) \in DOMAIN t
  <2>1. top.index + 1 \in 1..Len(t[top.id].keys)
    BY <1>1 DEF RefOK, CountOf
  <2> QED
    BY <1>1, <2>1, PageFacts DEF KidOf
<1>3. r \in R /\ r.id = KidOf(t, top)
  BY <1>2
<1>4. /\ st \in Seq(R) /\ st[1].id = Root /\ \A j \in 1..Len(st) : RefOK(t, st[j])
      /\ \A j \in 1..(Len(st) - 1) : ~t[st[j].id].leaf /\ st[j + 1].id = KidOf(t, st[j])
  BY DEF PathOK
<1>5. RefOK(t, r)
  OBVIOUS
<1>6. ~t[top.id].leaf
  OBVIOUS
<1> HIDE DEF R, r, top
<1>7. /\ new \in Seq(R) /\ Len(new) = Len(st) + 1 /\ new # <<>>
      /\ \A j \in 1..Len(st) : new[j] = st[j]
      /\ new[Len(st) + 1] = r
  BY <1>3, <1>4
<1> HIDE DEF new
<1>8. Last(new) = r
  BY <1>7 DEF Last
<1>9. \A j \in 1..(Len(new) - 1) : ~t[new[j].id].leaf /\ new[j + 1].id = KidOf(t, new[j])
  <2> SUFFICES ASSUME NEW j \in 1..Len(st)
               PROVE  ~t[new[j].id].leaf /\ new[j + 1].id = KidOf(t, new[j])
    BY <1>1, <1>7
  <2>1. CASE j = Len(st)
    BY <1>1, <1>3, <1>6, <1>7, <2>1
  <2>2. CASE j # Len(st)
    <3>1. j \in 1..(Len(st) - 1) /\ j + 1 \in 1..Len(st)
      BY <1>1, <2>2
    <3> QED
      BY <1>4, <1>7, <3>1
  <2> QED
    BY <2>1, <2>2
<1>10. \A j \in 1..Len(new) : RefOK(t, new[j])
  <2> SUFFICES ASSUME NEW j \in 1..Len(new) PROVE RefOK(t, new[j])
    OBVIOUS
  <2>1. j \in 1..Len(st) \/ j = Len(st) + 1
    BY <1>1, <1>7
  <2> QED
    BY <1>4, <1>5, <1>7, <2>1
<1>11. new[1].id = Root
  BY <1>1, <1>4, <1>7
<1>12. PathOK(t, new)
  BY <1>7, <1>9, <1>10, <1>11 DEF PathOK, R
<1> QED
  BY <1>2, <1>7, <1>8, <1>12 DEF new, r, top

\* The stack is cut below a ref, which moves on.
Cut(st, n) == [SubSeq(st, 1, n) EXCEPT ![n].index = @ + 1]

LEMMA PathCut ==
  ASSUME NEW t, TreeOK(t), NEW st, PathOK(t, st), NEW n \in 1..Len(st),
         st[n].index < CountOf(t, st[n]) - 1
  PROVE  LET new == Cut(st, n)
         IN  /\ PathOK(t, new) /\ new # <<>> /\ Len(new) = n
             /\ \A j \in 1..(n - 1) : new[j] = st[j]
             /\ new[n].id = st[n].id /\ new[n].index = st[n].index + 1 /\ Last(new) = new[n]
<1> DEFINE R == [id : DOMAIN t, index : Int]
           cut == SubSeq(st, 1, n)
           r == [st[n] EXCEPT !.index = @ + 1]
           new == Cut(st, n)
<1>1. /\ Len(st) \in Nat /\ n \in Int
      /\ \A j \in 1..Len(st) : st[j].id \in DOMAIN t /\ st[j].index \in Int
  BY TopFacts
<1>2. /\ st \in Seq(R) /\ st[1].id = Root /\ \A j \in 1..Len(st) : RefOK(t, st[j])
      /\ \A j \in 1..(Len(st) - 1) : ~t[st[j].id].leaf /\ st[j + 1].id = KidOf(t, st[j])
  <2>1. st # <<>>
    BY <1>1
  <2> QED
    BY <2>1 DEF PathOK
<1>3. r \in R /\ r.id = st[n].id /\ r.index = st[n].index + 1
  <2>1. st[n] \in R
    <3> HIDE DEF R
    <3> QED
      BY <1>2
  <2> QED
    BY <2>1
<1>4. RefOK(t, r)
  <2>1. RefOK(t, st[n]) /\ st[n].index \in Int
    BY <1>1, <1>2
  <2>2. Len(t[st[n].id].keys) \in Nat
    BY <1>1, PageFacts
  <2> QED
    BY <1>3, <2>1, <2>2 DEF RefOK, CountOf
<1>5. cut \in Seq(R) /\ Len(cut) = n /\ \A j \in 1..n : cut[j] = st[j]
  <2> HIDE DEF R
  <2> QED
    BY <1>1, <1>2
<1>6. new = [cut EXCEPT ![n] = r]
  <2>1. cut[n] = st[n]
    BY <1>5
  <2>2. new = [cut EXCEPT ![n].index = @ + 1]
    BY DEF Cut
  <2> HIDE DEF cut, new
  <2> QED
    BY <2>1, <2>2
<1> HIDE DEF R, r, cut, new
<1>7. /\ new \in Seq(R) /\ Len(new) = n /\ new[n] = r /\ \A j \in 1..(n - 1) : new[j] = st[j]
  BY <1>1, <1>3, <1>5, <1>6
<1>8. new # <<>> /\ Last(new) = new[n]
  BY <1>1, <1>7 DEF Last
<1>9. new[1].id = Root
  <2>1. CASE n = 1
    BY <1>2, <1>3, <1>7, <2>1
  <2>2. CASE n # 1
    BY <1>1, <1>2, <1>7, <2>2
  <2> QED
    BY <2>1, <2>2
<1>10. \A j \in 1..n : RefOK(t, new[j])
  <2> SUFFICES ASSUME NEW j \in 1..n PROVE RefOK(t, new[j])
    OBVIOUS
  <2>1. j = n \/ (j \in 1..(n - 1) /\ j \in 1..Len(st))
    BY <1>1
  <2> QED
    BY <1>2, <1>4, <1>7, <2>1
<1>11. \A j \in 1..(n - 1) : ~t[new[j].id].leaf /\ new[j + 1].id = KidOf(t, new[j])
  <2> SUFFICES ASSUME NEW j \in 1..(n - 1)
               PROVE  ~t[new[j].id].leaf /\ new[j + 1].id = KidOf(t, new[j])
    OBVIOUS
  <2>1. /\ j \in 1..(Len(st) - 1) /\ new[j] = st[j]
        /\ j + 1 = n \/ j + 1 \in 1..(n - 1)
    BY <1>1, <1>7
  <2>2. new[j + 1].id = st[j + 1].id
    BY <1>3, <1>7, <2>1
  <2> QED
    BY <1>2, <2>1, <2>2
<1>12. PathOK(t, new)
  BY <1>7, <1>9, <1>10, <1>11 DEF PathOK, R
<1> QED
  BY <1>3, <1>7, <1>8, <1>12 DEF new, r, cut

-----------------------------------------------------------------------------
(* The operations keep the tree, the path and the control state.           *)

\* keyValue returns the key the ref points at, or none.
LEMMA KeyValueFacts ==
  ASSUME NEW st, CursorInv, PathOK(tree, st), st # <<>>
  PROVE  LET top == Last(st)
         IN  /\ keyValue(st) \in Keys \cup {Nil}
             /\ keyValue(st) # Nil =>
                  /\ top.index \in 0..(count(top) - 1) /\ keyValue(st) \in Nat
                  /\ keyValue(st) = tree[top.id].keys[top.index + 1]
             /\ keyValue(st) = Nil => top.index >= count(top) \/ count(top) = 0
<1> DEFINE top == Last(st)
           ks == tree[top.id].keys
<1>1. TreeOK(tree) /\ KeysKnown
  BY DEF CursorInv
<1>2. top.id \in DOMAIN tree /\ top.index \in Int /\ RefOK(tree, top)
  BY <1>1, TopFacts
<1>3. Len(ks) \in Nat /\ DOMAIN ks = 1..Len(ks) /\ \A i \in 1..Len(ks) : ks[i] \in Nat
  BY <1>1, <1>2, PageFacts
<1>4. \A i \in 1..Len(ks) : ks[i] \in Keys
  BY <1>1, <1>2, <1>3 DEF KeysKnown
<1>5. keyValue(st) = IF Len(ks) = 0 \/ top.index >= Len(ks) THEN Nil ELSE ks[top.index + 1]
  BY DEF keyValue, count
<1>6. count(top) = Len(ks)
  BY DEF count
<1>7. top.index >= 0 \/ Len(ks) = 0
  BY <1>2, <1>3 DEF RefOK, CountOf
<1>8. Nil \notin Nat
  BY CursorAssumption DEF CursorAssumption
<1> HIDE DEF top, ks
<1>9. CASE Len(ks) = 0 \/ top.index >= Len(ks)
  BY <1>5, <1>6, <1>9 DEF top, ks
<1>10. CASE ~(Len(ks) = 0 \/ top.index >= Len(ks))
  <2>1. top.index \in 0..(Len(ks) - 1) /\ top.index + 1 \in 1..Len(ks)
    BY <1>2, <1>3, <1>7, <1>10
  <2>2. keyValue(st) = ks[top.index + 1] /\ keyValue(st) \in Nat /\ keyValue(st) \in Keys
    BY <1>3, <1>4, <1>5, <1>10, <2>1
  <2> QED
    BY <1>6, <1>8, <2>1, <2>2 DEF top, ks
<1> QED
  BY <1>9, <1>10

LEMMA CursorInit ==
  ASSUME Init
  PROVE  CursorInv
<1>1. /\ tree \in Trees /\ stack = <<>> /\ pc = "idle" /\ op = "first" /\ arg \in SeekKeys
      /\ ret = Nil /\ reached = Nil /\ aborted = FALSE
  BY DEF Init
<1>2. TreeOK(tree)
  BY <1>1, CursorAssumption DEF CursorAssumption, TreeOK
<1>3. PathOK(tree, stack)
  BY <1>1, PathEmpty
<1>4. Control
  BY <1>1 DEF Control, PCs, Ops
<1>5. KeysKnown
  <2>1. ASSUME NEW id \in DOMAIN tree, NEW i \in DOMAIN tree[id].keys
        PROVE  tree[id].keys[i] \in Keys
    <3>1. tree[id].keys[i] \in ToSet(tree[id].keys)
      BY <2>1 DEF ToSet
    <3> QED
      BY <1>1, <3>1 DEF Keys
  <2> QED
    BY <1>1, <2>1 DEF KeysKnown
<1> QED
  BY <1>2, <1>3, <1>4, <1>5 DEF CursorInv

\* A step that moves the stack along a path and goes to another place.
LEMMA MoveKeeps ==
  ASSUME CursorInv, PathOK(tree, stack'), Control',
         UNCHANGED tree, ret' \in Keys \cup {Nil}, reached' \in Keys \cup {Nil}
  PROVE  CursorInv'
<1>1. TreeOK(tree)' /\ PathOK(tree, stack)'
  BY DEF CursorInv, TreeOK, PageOK, PathOK, RefOK, CountOf, KidOf
<1>2. KeysKnown'
  <2>1. Keys' = Keys
    BY DEF Keys
  <2> QED
    BY <2>1 DEF CursorInv, KeysKnown
<1> QED
  BY <1>1, <1>2 DEF CursorInv

LEMMA MaxPair ==
  ASSUME NEW a \in Int, NEW b \in Int
  PROVE  Max({a, b}) = IF a >= b THEN a ELSE b
<1> DEFINE m == IF a >= b THEN a ELSE b
<1>1. m \in {a, b} /\ \A y \in {a, b} : m >= y
  OBVIOUS
<1>2. Max({a, b}) \in {a, b} /\ \A y \in {a, b} : Max({a, b}) >= y
  BY <1>1 DEF Max
<1> QED
  BY <1>1, <1>2

\* The page that search looks at, and what it may choose there.
LEMMA SearchFacts ==
  ASSUME CursorInv, pc = "search"
  PROVE  /\ SearchId \in DOMAIN tree /\ arg \in Nat
         /\ ~tree[SearchId].leaf => BranchIndex(SearchId, arg)
                                      \subseteq 0..(Len(tree[SearchId].keys) - 1)
         /\ lower_bound(SearchId, arg) \subseteq 0..Len(tree[SearchId].keys)
<1> DEFINE id == SearchId
           ks == tree[id].keys
<1>1. TreeOK(tree) /\ PathOK(tree, stack) /\ Control
  BY DEF CursorInv
<1>2. id \in DOMAIN tree
  <2>1. CASE stack = <<>>
    BY <1>1, <2>1 DEF SearchId, TreeOK
  <2>2. CASE stack # <<>>
    <3> DEFINE top == Last(stack)
    <3>1. top.id \in DOMAIN tree /\ top.index \in Int /\ RefOK(tree, top) /\ ~tree[top.id].leaf
      BY <1>1, <2>2, TopFacts DEF Control, isLeaf
    <3>2. top.index + 1 \in 1..Len(tree[top.id].keys)
      BY <3>1 DEF RefOK, CountOf
    <3>3. tree[top.id].kids[top.index + 1] \in DOMAIN tree
      BY <1>1, <3>1, <3>2, PageFacts
    <3> QED
      BY <2>2, <3>3 DEF SearchId, Child
  <2> QED
    BY <2>1, <2>2
<1>3. arg \in Nat
  BY <1>1, CursorAssumption DEF CursorAssumption, Control
<1>4. /\ ks \in Seq(Nat) /\ Len(ks) \in Nat /\ DOMAIN ks = 1..Len(ks)
      /\ \A i, j \in DOMAIN ks : i < j => ks[i] < ks[j]
      /\ ~tree[id].leaf => Len(ks) > 0
  BY <1>1, <1>2, PageFacts
<1> HIDE DEF id, ks
<1>5. lower_bound(id, arg) \subseteq 0..Len(ks)
  <2> DEFINE n == Cardinality({i \in DOMAIN ks : ks[i] < arg})
  <2>1. n \in 0..Len(ks)
    BY <1>3, <1>4, LowerBound
  <2>2. lower_bound(id, arg) = IF tree[id].node THEN {n} ELSE 0..Len(ks)
    BY DEF lower_bound, ks
  <2> HIDE DEF n
  <2> QED
    BY <2>1, <2>2
<1>6. ASSUME Len(ks) > 0 PROVE BranchIndex(id, arg) \subseteq 0..(Len(ks) - 1)
  <2> DEFINE child(i) == IF i < Len(ks) /\ ks[i + 1] = arg THEN i ELSE Max({i - 1, 0})
  <2>1. \A i \in 0..Len(ks) : child(i) \in 0..(Len(ks) - 1)
    <3> SUFFICES ASSUME NEW i \in 0..Len(ks) PROVE child(i) \in 0..(Len(ks) - 1)
      OBVIOUS
    <3>1. Max({i - 1, 0}) = IF i - 1 >= 0 THEN i - 1 ELSE 0
      BY <1>4, MaxPair
    <3> QED
      BY <1>4, <1>6, <3>1
  <2>2. BranchIndex(id, arg) = IF tree[id].node THEN {child(i) : i \in lower_bound(id, arg)}
                               ELSE 0..(Len(ks) - 1)
    BY DEF BranchIndex, ks
  <2> HIDE DEF child
  <2> QED
    BY <1>5, <2>1, <2>2
<1> QED
  BY <1>2, <1>3, <1>4, <1>5, <1>6 DEF id, ks

LEMMA SearchPush ==
  ASSUME CursorInv, pc = "search", NEW i \in Int, RefOK(tree, [id |-> SearchId, index |-> i]),
         Push(SearchId, i)
  PROVE  /\ PathOK(tree, stack') /\ stack' # <<>> /\ Len(stack') = Len(stack) + 1
         /\ \A j \in 1..Len(stack) : stack'[j] = stack[j]
         /\ Last(stack') = [id |-> SearchId, index |-> i]
         /\ stack'[Len(stack) + 1] = [id |-> SearchId, index |-> i]
<1> DEFINE r == [id |-> SearchId, index |-> i]
<1>1. TreeOK(tree) /\ PathOK(tree, stack) /\ Control
  BY DEF CursorInv
<1>2. stack' = Append(stack, r)
  BY DEF Push
<1>3. CASE stack = <<>>
  <2>1. SearchId = Root
    BY <1>3 DEF SearchId
  <2>2. stack' = <<r>>
    BY <1>2, <1>3
  <2>3. PathOK(tree, stack')
    BY <1>1, <2>1, <2>2, PathRoot
  <2> HIDE DEF r
  <2>4. /\ stack' # <<>> /\ Len(stack') = 1 /\ Len(stack) = 0 /\ stack'[1] = r
        /\ Last(stack') = r /\ 1..Len(stack) = {}
    BY <1>3, <2>2 DEF Last
  <2> QED
    BY <2>3, <2>4 DEF r
<1>4. CASE stack # <<>>
  <2>1. SearchId = KidOf(tree, Last(stack)) /\ ~tree[Last(stack).id].leaf
    BY <1>1, <1>4 DEF SearchId, Child, KidOf, Control, isLeaf
  <2> QED
    BY <1>1, <1>2, <1>4, <2>1, PathPush
<1> QED
  BY <1>3, <1>4

\* next_ or search ends on a leaf, or at the end of the tree.
LEMMA NextEndsKeeps ==
  ASSUME CursorInv, op \in {"first", "next", "seek"}, PathOK(tree, stack'), stack' # <<>>,
         tree[Last(stack').id].leaf, NEW k, k \in {Nil, keyValue(stack')}, NextEnds(k, stack')
  PROVE  /\ CursorInv' /\ pc' = "idle" /\ UNCHANGED <<tree, op, arg, aborted>>
         /\ op = "next" => ret' = k /\ reached' = k
         /\ op = "first" => ret' = keyValue(stack') /\ reached' = keyValue(stack')
         /\ op = "seek" => reached' = k
<1>1. keyValue(stack') \in Keys \cup {Nil}
  BY KeyValueFacts
<1>2. /\ pc' = "idle" /\ UNCHANGED <<tree, op, arg, aborted>>
      /\ op = "next" => ret' = k /\ reached' = k
      /\ op = "first" => ret' = keyValue(stack') /\ reached' = keyValue(stack')
      /\ op = "seek" => reached' = k /\ ret' \in {k, Nil}
  <2>1. CASE op = "next"
    BY <2>1 DEF NextEnds, Return
  <2>2. CASE op = "first"
    BY <2>2 DEF NextEnds, Return
  <2>3. CASE op = "seek"
    BY <2>3 DEF NextEnds, Return
  <2> QED
    BY <2>1, <2>2, <2>3
<1>3. ret' \in Keys \cup {Nil} /\ reached' \in Keys \cup {Nil}
  <2>1. k \in Keys \cup {Nil}
    BY <1>1
  <2> QED
    BY <1>1, <1>2, <2>1
<1>4. Control'
  BY <1>2 DEF CursorInv, Control, PCs, isLeaf
<1> QED
  BY <1>2, <1>3, <1>4, MoveKeeps

LEMMA GotoFacts ==
  ASSUME NEW to, Goto(to)
  PROVE  pc' = to /\ UNCHANGED <<tree, op, arg, ret, reached, aborted>>
BY DEF Goto

LEMMA FirstStepKeeps ==
  ASSUME CursorInv, FirstStep
  PROVE  CursorInv'
<1> DEFINE top == Last(stack)
           kid == KidOf(tree, top)
<1>1. TreeOK(tree) /\ PathOK(tree, stack) /\ Control /\ KeysKnown
  BY DEF CursorInv
<1>2. /\ pc \in {"first_", "next_first_"} /\ ~tree[top.id].leaf /\ stack # <<>>
      /\ stack' = Append(stack, [id |-> kid, index |-> 0])
      /\ pc' = pc /\ UNCHANGED <<tree, op, arg, ret, reached, aborted>>
  BY <1>1 DEF FirstStep, Push, Goto, Child, KidOf, isLeaf, Control
<1>3. top.id \in DOMAIN tree /\ top.index \in Int /\ RefOK(tree, top)
  BY <1>1, <1>2, TopFacts
<1>4. kid \in DOMAIN tree
  <2>1. top.index + 1 \in 1..Len(tree[top.id].keys)
    BY <1>2, <1>3 DEF RefOK, CountOf
  <2> QED
    BY <1>1, <1>2, <1>3, <2>1, PageFacts DEF KidOf
<1> HIDE DEF kid
<1>5. RefOK(tree, [id |-> kid, index |-> 0])
  <2>1. /\ Len(tree[kid].keys) \in Nat /\ ~tree[kid].leaf => Len(tree[kid].keys) > 0
    BY <1>1, <1>4, PageFacts
  <2> QED
    BY <2>1 DEF RefOK, CountOf
<1>6. PathOK(tree, stack') /\ stack' # <<>> /\ Last(stack') = [id |-> kid, index |-> 0]
  BY <1>1, <1>2, <1>5, PathPush DEF kid
<1>7. Last(stack').index = 0
  BY <1>6
<1>8. Control'
  BY <1>1, <1>2, <1>6, <1>7 DEF Control, PCs
<1> QED
  BY <1>1, <1>2, <1>6, <1>8, MoveKeeps DEF KeysKnown

LEMMA FirstLandsKeeps ==
  ASSUME CursorInv, FirstLands
  PROVE  CursorInv'
<1>1. TreeOK(tree) /\ PathOK(tree, stack) /\ Control /\ KeysKnown
  BY DEF CursorInv
<1>2. pc = "first_" /\ isLeaf(Last(stack)) /\ stack' = stack /\ stack # <<>> /\ op = "first"
  BY <1>1 DEF FirstLands, Control
<1>3. PathOK(tree, stack')
  BY <1>1, <1>2
<1>4. CASE count(Last(stack)) = 0
  <2>1. pc' = "next_" /\ UNCHANGED <<tree, op, arg, ret, reached, aborted>>
    BY <1>4 DEF FirstLands, Goto
  <2>2. Control'
    BY <1>1, <1>2, <2>1 DEF Control, PCs, isLeaf
  <2> QED
    BY <1>1, <1>3, <2>1, <2>2, MoveKeeps DEF KeysKnown
<1>5. CASE count(Last(stack)) # 0
  <2>1. /\ pc' = "idle" /\ ret' = keyValue(stack) /\ reached' = keyValue(stack)
        /\ UNCHANGED <<tree, op, arg, aborted>>
    BY <1>5 DEF FirstLands, Return
  <2>2. keyValue(stack) \in Keys \cup {Nil}
    BY <1>1, <1>2, KeyValueFacts
  <2>3. Control'
    BY <1>1, <1>2, <2>1 DEF Control, PCs, isLeaf
  <2> QED
    BY <1>3, <2>1, <2>2, <2>3, MoveKeeps
<1> QED
  BY <1>4, <1>5

\* The refs of next_ that can move on.
Movable == {i \in DOMAIN stack : stack[i].index < count(stack[i]) - 1}

LEMMA NextStepFacts ==
  ASSUME CursorInv, NextStep, Movable # {}
  PROVE  LET n == Max(Movable)
         IN  /\ n \in 1..Len(stack) /\ n \in Movable /\ \A i \in Movable : i <= n
             /\ stack' = Cut(stack, n)
             /\ pc' = "next_first_" /\ UNCHANGED <<tree, op, arg, ret, reached, aborted>>
<1>1. Len(stack) \in Nat /\ DOMAIN stack = 1..Len(stack)
  BY TopFacts DEF CursorInv
<1>2. Movable \subseteq 1..Len(stack)
  BY <1>1 DEF Movable
<1>3. Max(Movable) \in Movable /\ \A i \in Movable : i <= Max(Movable)
  BY <1>1, <1>2, MaxOfIndices
<1>4. /\ stack' = Cut(stack, Max(Movable))
      /\ pc' = "next_first_" /\ UNCHANGED <<tree, op, arg, ret, reached, aborted>>
  BY DEF NextStep, Movable, Goto, Cut
<1> QED
  BY <1>2, <1>3, <1>4

LEMMA NextStepKeeps ==
  ASSUME CursorInv, NextStep
  PROVE  CursorInv'
<1>1. TreeOK(tree) /\ PathOK(tree, stack) /\ Control /\ KeysKnown
  BY DEF CursorInv
<1>2. pc = "next_" /\ stack # <<>> /\ isLeaf(Last(stack)) /\ op \in {"first", "next", "seek"}
  BY <1>1 DEF NextStep, Control
<1>3. CASE Movable = {}
  <2>1. NextEnds(Nil, stack) /\ stack' = stack
    BY <1>3 DEF NextStep, Movable
  <2>2. PathOK(tree, stack') /\ NextEnds(Nil, stack') /\ tree[Last(stack').id].leaf
    BY <1>1, <1>2, <2>1 DEF isLeaf
  <2> QED
    BY <1>2, <2>1, <2>2, NextEndsKeeps
<1>4. CASE Movable # {}
  <2> DEFINE n == Max(Movable)
  <2>1. /\ n \in 1..Len(stack) /\ n \in Movable
        /\ stack' = Cut(stack, n)
        /\ pc' = "next_first_" /\ UNCHANGED <<tree, op, arg, ret, reached, aborted>>
    BY <1>4, NextStepFacts
  <2> HIDE DEF n
  <2>2. stack[n].index < CountOf(tree, stack[n]) - 1
    BY <2>1 DEF Movable, count, CountOf
  <2>3. /\ PathOK(tree, stack') /\ stack' # <<>>
        /\ Last(stack').id = stack[n].id /\ Last(stack').index = stack[n].index + 1
    BY <1>1, <2>1, <2>2, PathCut
  <2>4. stack[n].id \in DOMAIN tree /\ stack[n].index \in Int /\ RefOK(tree, stack[n])
    BY <1>1, <2>1, TopFacts DEF PathOK
  <2>5. Len(tree[stack[n].id].keys) \in Nat
    BY <1>1, <2>4, PageFacts
  <2>6. Last(stack').index = 0 \/ Last(stack').index \in 1..(Len(tree[Last(stack').id].keys) - 1)
    BY <2>2, <2>3, <2>4, <2>5 DEF RefOK, CountOf
  <2>7. Control'
    BY <1>1, <1>2, <2>1, <2>3, <2>6 DEF Control, PCs, count
  <2> QED
    BY <1>1, <2>1, <2>3, <2>7, MoveKeeps DEF KeysKnown
<1> QED
  BY <1>3, <1>4

LEMMA NextLandsKeeps ==
  ASSUME CursorInv, NextLands
  PROVE  CursorInv'
<1>1. TreeOK(tree) /\ PathOK(tree, stack) /\ Control /\ KeysKnown
  BY DEF CursorInv
<1>2. /\ pc = "next_first_" /\ isLeaf(Last(stack)) /\ stack' = stack /\ stack # <<>>
      /\ op \in {"first", "next", "seek"}
  BY <1>1 DEF NextLands, Control
<1>3. PathOK(tree, stack') /\ tree[Last(stack').id].leaf
  BY <1>1, <1>2 DEF isLeaf
<1>4. CASE count(Last(stack)) = 0
  <2>1. pc' = "next_" /\ UNCHANGED <<tree, op, arg, ret, reached, aborted>>
    BY <1>4 DEF NextLands, Goto
  <2>2. Control'
    BY <1>1, <1>2, <2>1 DEF Control, PCs, isLeaf
  <2> QED
    BY <1>1, <1>3, <2>1, <2>2, MoveKeeps DEF KeysKnown
<1>5. CASE count(Last(stack)) # 0
  <2>1. NextEnds(keyValue(stack'), stack')
    BY <1>2, <1>5 DEF NextLands
  <2> QED
    BY <1>2, <1>3, <2>1, NextEndsKeeps
<1> QED
  BY <1>4, <1>5

\* last puts the refs on the last child or key.
LEMMA LastRefOK ==
  ASSUME CursorInv, NEW id \in DOMAIN tree
  PROVE  /\ Len(tree[id].keys) \in Nat
         /\ RefOK(tree, [id |-> id, index |-> Len(tree[id].keys) - 1])
<1>1. /\ Len(tree[id].keys) \in Nat /\ ~tree[id].leaf => Len(tree[id].keys) > 0
  BY PageFacts DEF CursorInv
<1> QED
  BY <1>1 DEF RefOK, CountOf

LEMMA LastStepKeeps ==
  ASSUME CursorInv, LastStep
  PROVE  CursorInv'
<1> DEFINE top == Last(stack)
           kid == KidOf(tree, top)
           n == Len(tree[kid].keys) - 1
<1>1. TreeOK(tree) /\ PathOK(tree, stack) /\ Control /\ KeysKnown
  BY DEF CursorInv
<1>2. /\ pc = "last_" /\ ~tree[top.id].leaf /\ stack # <<>>
      /\ stack' = Append(stack, [id |-> kid, index |-> n])
      /\ pc' = "last_" /\ UNCHANGED <<tree, op, arg, ret, reached, aborted>>
  BY <1>1 DEF LastStep, Push, Goto, Child, KidOf, isLeaf, Control, count
<1>3. top.id \in DOMAIN tree /\ top.index \in Int /\ RefOK(tree, top)
  BY <1>1, <1>2, TopFacts
<1>4. kid \in DOMAIN tree
  <2>1. top.index + 1 \in 1..Len(tree[top.id].keys)
    BY <1>2, <1>3 DEF RefOK, CountOf
  <2> QED
    BY <1>1, <1>2, <1>3, <2>1, PageFacts DEF KidOf
<1>5. n \in Int /\ RefOK(tree, [id |-> kid, index |-> n])
  <2> HIDE DEF kid
  <2> QED
    BY <1>4, LastRefOK
<1> HIDE DEF n
<1>6. PathOK(tree, stack') /\ stack' # <<>> /\ Last(stack') = [id |-> kid, index |-> n]
  BY <1>1, <1>2, <1>5, PathPush
<1> HIDE DEF kid
<1>7. Last(stack').index = Len(tree[Last(stack').id].keys) - 1
  BY <1>6 DEF n
<1>8. Control'
  BY <1>1, <1>2, <1>6, <1>7 DEF Control, PCs, count
<1> QED
  BY <1>1, <1>2, <1>6, <1>8, MoveKeeps DEF KeysKnown

LEMMA LastLandsKeeps ==
  ASSUME CursorInv, LastLands
  PROVE  CursorInv'
<1>1. TreeOK(tree) /\ PathOK(tree, stack) /\ Control /\ KeysKnown
  BY DEF CursorInv
<1>2. /\ pc = "last_" /\ isLeaf(Last(stack)) /\ stack' = stack /\ stack # <<>>
      /\ pc' = "idle" /\ ret' = keyValue(stack) /\ reached' = keyValue(stack)
      /\ UNCHANGED <<tree, op, arg, aborted>>
  BY <1>1 DEF LastLands, Control, Return
<1>3. keyValue(stack) \in Keys \cup {Nil} /\ PathOK(tree, stack')
  BY <1>1, <1>2, KeyValueFacts
<1>4. Control'
  BY <1>1, <1>2 DEF Control, PCs, isLeaf
<1> QED
  BY <1>2, <1>3, <1>4, MoveKeeps

LEMMA SearchBranchKeeps ==
  ASSUME CursorInv, SearchBranch
  PROVE  CursorInv'
<1>1. TreeOK(tree) /\ PathOK(tree, stack) /\ Control /\ KeysKnown
  BY DEF CursorInv
<1>2. /\ pc = "search" /\ ~tree[SearchId].leaf
      /\ pc' = "search" /\ UNCHANGED <<tree, op, arg, ret, reached, aborted>>
  BY DEF SearchBranch, Goto
<1>3. PICK i \in BranchIndex(SearchId, arg) : Push(SearchId, i)
  BY DEF SearchBranch
<1>4. i \in 0..(Len(tree[SearchId].keys) - 1)
  BY <1>2, <1>3, SearchFacts
<1>5. RefOK(tree, [id |-> SearchId, index |-> i])
  BY <1>2, <1>4 DEF RefOK, CountOf
<1>6. /\ PathOK(tree, stack') /\ stack' # <<>>
      /\ Last(stack') = [id |-> SearchId, index |-> i]
  BY <1>2, <1>3, <1>4, <1>5, SearchPush
<1>7. ~tree[Last(stack').id].leaf
  BY <1>2, <1>6
<1>8. Control'
  BY <1>1, <1>2, <1>6, <1>7 DEF Control, PCs, isLeaf
<1> QED
  BY <1>1, <1>2, <1>6, <1>8, MoveKeeps DEF KeysKnown

LEMMA SearchLeafKeeps ==
  ASSUME CursorInv, SearchLeaf
  PROVE  CursorInv'
<1>1. TreeOK(tree) /\ PathOK(tree, stack) /\ Control /\ KeysKnown
  BY DEF CursorInv
<1>2. pc = "search" /\ tree[SearchId].leaf /\ op = "seek"
  BY <1>1 DEF SearchLeaf, Control
<1>3. PICK i \in lower_bound(SearchId, arg) :
        /\ Push(SearchId, i)
        /\ IF i >= Len(tree[SearchId].keys) THEN Goto("next_")
           ELSE NextEnds(keyValue(stack'), stack')
  BY DEF SearchLeaf
<1>4. i \in 0..Len(tree[SearchId].keys)
  BY <1>2, <1>3, SearchFacts
<1>5. RefOK(tree, [id |-> SearchId, index |-> i])
  BY <1>2, <1>4 DEF RefOK, CountOf
<1>6. /\ PathOK(tree, stack') /\ stack' # <<>>
      /\ Last(stack') = [id |-> SearchId, index |-> i]
  BY <1>2, <1>3, <1>4, <1>5, SearchPush
<1>7. tree[Last(stack').id].leaf
  BY <1>2, <1>6
<1>8. CASE i >= Len(tree[SearchId].keys)
  <2>1. pc' = "next_" /\ UNCHANGED <<tree, op, arg, ret, reached, aborted>>
    BY <1>3, <1>8 DEF Goto
  <2>2. Control'
    BY <1>1, <1>2, <1>6, <1>7, <2>1 DEF Control, PCs, isLeaf
  <2> QED
    BY <1>1, <1>6, <2>1, <2>2, MoveKeeps DEF KeysKnown
<1>9. CASE ~(i >= Len(tree[SearchId].keys))
  BY <1>2, <1>3, <1>6, <1>7, <1>9, NextEndsKeeps
<1> QED
  BY <1>8, <1>9

\* The calls, which set up the stack.
LEMMA CallsKeep ==
  ASSUME CursorInv, First \/ Next_ \/ Last_ \/ Prev \/ PrevAtBeginning \/ \E k \in SeekKeys : Seek(k)
  PROVE  CursorInv'
<1>1. TreeOK(tree) /\ PathOK(tree, stack) /\ Control /\ KeysKnown
  BY DEF CursorInv
<1>2. Root \in DOMAIN tree
  BY <1>1 DEF TreeOK
<1>3. CASE First
  <2> DEFINE r == [id |-> Root, index |-> 0]
  <2>1. /\ stack' = <<r>> /\ pc' = "first_" /\ op' = "first"
        /\ UNCHANGED <<tree, arg, ret, reached, aborted>>
    BY <1>3 DEF First, Call
  <2>2. Len(tree[Root].keys) \in Nat /\ ~tree[Root].leaf => Len(tree[Root].keys) > 0
    BY <1>1, <1>2, PageFacts
  <2>3. RefOK(tree, r)
    BY <2>2 DEF RefOK, CountOf
  <2>4. PathOK(tree, stack')
    BY <1>1, <2>1, <2>3, PathRoot
  <2>5. stack' # <<>> /\ Last(stack').index = 0
    BY <2>1 DEF Last
  <2>6. Control'
    BY <1>1, <2>1, <2>5 DEF Control, PCs, Ops
  <2> QED
    BY <1>1, <2>1, <2>4, <2>6, MoveKeeps DEF KeysKnown
<1>4. CASE Next_
  <2>1. /\ stack # <<>> /\ pc = "idle" /\ stack' = stack /\ pc' = "next_" /\ op' = "next"
        /\ UNCHANGED <<tree, arg, ret, reached, aborted>>
    BY <1>4 DEF Next_, Call
  <2>2. Control'
    BY <1>1, <2>1 DEF Control, PCs, Ops, isLeaf
  <2> QED
    BY <1>1, <2>1, <2>2, MoveKeeps DEF KeysKnown
<1>5. CASE Last_ \/ Prev
  <2> DEFINE n == Len(tree[Root].keys) - 1
             r == [id |-> Root, index |-> n]
  <2>1. /\ stack' = LastRoot /\ pc' = "last_" /\ op' \in {"last", "prev"}
        /\ UNCHANGED <<tree, arg, ret, reached, aborted>>
    BY <1>5 DEF Last_, Prev, Call
  <2>2. stack' = <<r>>
    BY <2>1 DEF LastRoot, count
  <2>3. n \in Int /\ RefOK(tree, r)
    BY <1>2, LastRefOK
  <2>4. PathOK(tree, stack')
    BY <1>1, <2>2, <2>3, PathRoot
  <2>5. r.id = Root /\ r.index = n
    OBVIOUS
  <2> HIDE DEF r
  <2>6. stack' # <<>> /\ Last(stack') = r
    BY <2>2 DEF Last
  <2>7. Last(stack').index = Len(tree[Last(stack').id].keys) - 1
    BY <2>5, <2>6
  <2>8. Control'
    BY <1>1, <2>1, <2>6, <2>7 DEF Control, PCs, Ops, count
  <2> QED
    BY <1>1, <2>1, <2>4, <2>8, MoveKeeps DEF KeysKnown
<1>6. CASE PrevAtBeginning
  <2>1. /\ stack' = <<>> /\ pc' = "idle" /\ op' = "prev" /\ ret' = Nil /\ reached' = Nil
        /\ UNCHANGED <<tree, arg, aborted>>
    BY <1>6 DEF PrevAtBeginning
  <2>2. Control'
    BY <1>1, <2>1 DEF Control, PCs, Ops
  <2> QED
    BY <1>1, <2>1, <2>2, MoveKeeps, PathEmpty
<1>7. CASE \E k \in SeekKeys : Seek(k)
  <2>1. PICK k \in SeekKeys : Seek(k)
    BY <1>7
  <2>2. /\ stack' = <<>> /\ pc' = "search" /\ op' = "seek" /\ arg' = k
        /\ UNCHANGED <<tree, ret, reached, aborted>>
    BY <2>1 DEF Seek, Call
  <2>3. Control'
    BY <1>1, <2>1, <2>2 DEF Control, PCs, Ops
  <2> QED
    BY <1>1, <2>2, <2>3, MoveKeeps, PathEmpty DEF KeysKnown
<1> QED
  BY <1>3, <1>4, <1>5, <1>6, <1>7

-----------------------------------------------------------------------------
(* deleteCurrent.                                                          *)

LEMMA RemoveKeyFacts ==
  ASSUME NEW S, NEW s \in Seq(S), NEW i \in 1..Len(s)
  PROVE  LET r == RemoveAt(s, i)
         IN  /\ r \in Seq(S) /\ Len(r) = Len(s) - 1
             /\ \A j \in 1..(i - 1) : r[j] = s[j]
             /\ \A j \in i..(Len(s) - 1) : r[j] = s[j + 1]
<1> DEFINE a == SubSeq(s, 1, i - 1)
           b == SubSeq(s, i + 1, Len(s))
           r == RemoveAt(s, i)
<1>1. Len(s) \in Nat /\ i \in Int
  OBVIOUS
<1>2. a \in Seq(S) /\ Len(a) = i - 1 /\ \A j \in 1..(i - 1) : a[j] = s[j]
  BY <1>1
<1>3. b \in Seq(S) /\ Len(b) = Len(s) - i /\ \A j \in 1..(Len(s) - i) : b[j] = s[i + j]
  BY <1>1
<1>4. r = a \o b
  BY DEF RemoveAt
<1> HIDE DEF a, b, r
<1>5. r \in Seq(S) /\ Len(r) = Len(s) - 1 /\ \A j \in 1..(i - 1) : r[j] = a[j]
  <2>1. r \in Seq(S)
    BY <1>2, <1>3, <1>4
  <2>2. Len(r) = Len(s) - 1
    BY <1>1, <1>2, <1>3, <1>4
  <2>3. \A j \in 1..(i - 1) : r[j] = a[j]
    BY <1>1, <1>2, <1>3, <1>4
  <2> QED
    BY <2>1, <2>2, <2>3
<1>6. \A j \in i..(Len(s) - 1) : r[j] = s[j + 1]
  <2> SUFFICES ASSUME NEW j \in i..(Len(s) - 1) PROVE r[j] = s[j + 1]
    OBVIOUS
  <2>1. j + 1 - i \in 1..Len(b) /\ j \in 1..(Len(a) + Len(b)) /\ j > Len(a)
    BY <1>1, <1>2, <1>3
  <2>2. r[j] = b[j + 1 - i]
    BY <1>2, <1>3, <1>4, <2>1
  <2> QED
    BY <1>1, <1>3, <2>1, <2>2
<1> QED
  BY <1>2, <1>5, <1>6 DEF r

\* The tree without the n-th key of a leaf.
Removed(t, id, n) == [t EXCEPT ![id].keys = RemoveAt(t[id].keys, n)]

IsRemoved(new, t, id, n) ==
    LET old == t[id].keys
        ks  == new[id].keys
    IN  /\ TreeOK(new) /\ DOMAIN new = DOMAIN t
        /\ \A a \in DOMAIN t : a # id => new[a] = t[a]
        /\ new[id].leaf /\ new[id].node = t[id].node
        /\ Len(ks) = Len(old) - 1
        /\ \A j \in 1..(n - 1) : ks[j] = old[j]
        /\ \A j \in n..(Len(old) - 1) : ks[j] = old[j + 1]

LEMMA RemovedFacts ==
  ASSUME NEW t, TreeOK(t), NEW id \in DOMAIN t, NEW n \in 1..Len(t[id].keys), t[id].leaf
  PROVE  IsRemoved(Removed(t, id, n), t, id, n)
<1> DEFINE new == Removed(t, id, n)
           old == t[id].keys
           ks == RemoveAt(old, n)
           P == [leaf : BOOLEAN, node : BOOLEAN, keys : Seq(Nat), kids : Seq(DOMAIN t)]
<1>1. /\ t = [a \in DOMAIN t |-> t[a]] /\ Root \in DOMAIN t
      /\ \A a \in DOMAIN t : PageOK(t, a)
  BY DEF TreeOK
<1>2. /\ old \in Seq(Nat) /\ Len(old) \in Nat
      /\ \A i \in 1..Len(old) : old[i] \in Nat
      /\ \A i, j \in 1..Len(old) : i < j => old[i] < old[j]
  BY PageFacts
<1>3. /\ ks \in Seq(Nat) /\ Len(ks) = Len(old) - 1
      /\ \A j \in 1..(n - 1) : ks[j] = old[j]
      /\ \A j \in n..(Len(old) - 1) : ks[j] = old[j + 1]
  BY <1>2, RemoveKeyFacts
<1>4. t[id] \in P
  BY <1>1 DEF PageOK
<1>5. new = [t EXCEPT ![id].keys = ks]
  BY DEF Removed
<1> HIDE DEF new, ks
<1>6. /\ DOMAIN new = DOMAIN t /\ new = [a \in DOMAIN new |-> new[a]]
      /\ \A a \in DOMAIN t : a # id => new[a] = t[a]
      /\ new[id] = [t[id] EXCEPT !.keys = ks]
  BY <1>1, <1>5
<1>7. /\ new[id] \in P /\ new[id].leaf = t[id].leaf /\ new[id].node = t[id].node
      /\ new[id].keys = ks /\ new[id].kids = t[id].kids
  <2>1. ks \in Seq(Nat)
    BY <1>3
  <2> DEFINE was == t[id]
             now == new[id]
  <2>2. was \in P /\ now = [was EXCEPT !.keys = ks]
    BY <1>4, <1>6
  <2> HIDE DEF was, now
  <2>3. /\ now \in P /\ now.leaf = was.leaf /\ now.node = was.node
        /\ now.keys = ks /\ now.kids = was.kids
    BY <2>1, <2>2
  <2> QED
    BY <2>3 DEF was, now
<1>8. \A i, j \in 1..Len(ks) : i < j => ks[i] < ks[j]
  <2> SUFFICES ASSUME NEW i \in 1..Len(ks), NEW j \in 1..Len(ks), i < j PROVE ks[i] < ks[j]
    OBVIOUS
  <2> HIDE DEF old
  <2>1. /\ i \in 1..Len(old) /\ j \in 1..Len(old) /\ i + 1 \in 1..Len(old) /\ j + 1 \in 1..Len(old)
    <3>1. Len(old) \in Nat /\ Len(ks) = Len(old) - 1
      BY <1>2, <1>3
    <3> QED
      BY <3>1
  <2>2. ks[i] = old[i] \/ (ks[i] = old[i + 1] /\ i >= n)
    BY <1>2, <1>3
  <2>3. (ks[j] = old[j] /\ j < n) \/ ks[j] = old[j + 1]
    BY <1>2, <1>3
  <2> QED
    BY <1>2, <2>1, <2>2, <2>3
<1>9. DOMAIN ks = 1..Len(ks)
  BY <1>3
<1>10. PageOK(new, id)
  BY <1>6, <1>7, <1>8, <1>9 DEF PageOK
<1>11. ASSUME NEW a \in DOMAIN t, a # id PROVE PageOK(new, a)
  <2>1. PageOK(t, a) /\ new[a] = t[a]
    BY <1>1, <1>6, <1>11
  <2> QED
    BY <1>6, <2>1 DEF PageOK
<1>12. TreeOK(new)
  BY <1>1, <1>6, <1>10, <1>11 DEF TreeOK
<1>13. IsRemoved(new, t, id, n)
  BY <1>3, <1>6, <1>7, <1>12 DEF IsRemoved
<1> QED
  BY <1>13 DEF new

LEMMA DeleteFacts ==
  ASSUME CursorInv, Delete
  PROVE  LET ref == Last(stack)
             ks  == tree[ref.id].keys
         IN  /\ stack # <<>> /\ pc = "idle" /\ tree[ref.id].leaf /\ ref.id \in DOMAIN tree
             /\ ref.index \in 0..(Len(ks) - 1) /\ ref.index + 1 \in 1..Len(ks)
             /\ keyValue(stack) = ks[ref.index + 1]
             /\ tree' = Removed(tree, ref.id, ref.index + 1)
             /\ reached' = IF reached # Nil /\ ref.index < Len(tree'[ref.id].keys)
                           THEN tree'[ref.id].keys[ref.index + 1] ELSE reached
             /\ UNCHANGED <<stack, pc, op, arg, ret, aborted>>
<1> DEFINE ref == Last(stack)
           ks == tree[ref.id].keys
           rest == RemoveAt(ks, ref.index + 1)
<1>1. TreeOK(tree) /\ PathOK(tree, stack) /\ Control
  BY DEF CursorInv
<1>2. /\ pc = "idle" /\ Len(stack) > 9 /\ keyValue(stack) # Nil
      /\ UNCHANGED <<stack, pc, op, arg, ret, aborted>>
  BY DEF Delete
<1>3. stack # <<>>
  BY <1>2
<1>4. tree[ref.id].leaf /\ ref.id \in DOMAIN tree /\ ref.index \in Int
  BY <1>1, <1>2, <1>3, TopFacts DEF Control, isLeaf
<1>5. Len(ks) \in Nat
  BY <1>1, <1>4, PageFacts
<1>6. ref.index \in 0..(Len(ks) - 1) /\ keyValue(stack) = ks[ref.index + 1]
  BY <1>1, <1>2, <1>3, KeyValueFacts DEF count
<1>7. ref.index + 1 \in 1..Len(ks)
  BY <1>5, <1>6
<1>8. tree' = Removed(tree, ref.id, ref.index + 1)
  BY DEF Delete, Removed
<1>9. tree'[ref.id].keys = rest
  <2>1. tree[ref.id] \in [leaf : BOOLEAN, node : BOOLEAN, keys : Seq(Nat), kids : Seq(DOMAIN tree)]
    BY <1>1, <1>4 DEF TreeOK, PageOK
  <2> HIDE DEF rest
  <2>2. tree' = [tree EXCEPT ![ref.id].keys = rest]
    BY DEF Delete, rest
  <2> HIDE DEF ref
  <2> QED
    BY <1>1, <1>4, <2>1, <2>2 DEF TreeOK
<1>10. reached' = IF reached # Nil /\ ref.index < Len(rest) THEN rest[ref.index + 1] ELSE reached
  BY DEF Delete
<1> HIDE DEF rest
<1> QED
  BY <1>2, <1>3, <1>4, <1>6, <1>7, <1>8, <1>9, <1>10

\* Only the leaf at the end of a path loses a key.
LEMMA DeleteKeeps ==
  ASSUME CursorInv, Delete
  PROVE  CursorInv'
<1> DEFINE ref == Last(stack)
           id == ref.id
           n == ref.index + 1
           old == tree[id].keys
           ks == tree'[id].keys
<1>1. TreeOK(tree) /\ PathOK(tree, stack) /\ Control /\ KeysKnown
  BY DEF CursorInv
<1>2. /\ stack # <<>> /\ pc = "idle" /\ tree[id].leaf /\ id \in DOMAIN tree
      /\ ref.index \in 0..(Len(old) - 1) /\ n \in 1..Len(old)
      /\ tree' = Removed(tree, id, n)
      /\ reached' = IF reached # Nil /\ ref.index < Len(ks) THEN ks[n] ELSE reached
      /\ UNCHANGED <<stack, pc, op, arg, ret, aborted>>
  BY DeleteFacts
<1>3. /\ TreeOK(tree') /\ DOMAIN tree' = DOMAIN tree
      /\ \A a \in DOMAIN tree : a # id => tree'[a] = tree[a]
      /\ tree'[id].leaf /\ tree'[id].node = tree[id].node
      /\ Len(ks) = Len(old) - 1
      /\ \A j \in 1..(n - 1) : ks[j] = old[j]
      /\ \A j \in n..(Len(old) - 1) : ks[j] = old[j + 1]
  <2> HIDE DEF id, n
  <2>1. IsRemoved(tree', tree, id, n)
    BY <1>1, <1>2, RemovedFacts
  <2> QED
    BY <2>1 DEF IsRemoved
<1>4. Len(old) \in Nat /\ DOMAIN old = 1..Len(old)
  BY <1>1, <1>2, PageFacts
<1>5. Len(ks) \in Nat /\ DOMAIN ks = 1..Len(ks)
  <2>1. id \in DOMAIN tree'
    BY <1>2, <1>3
  <2> QED
    BY <1>3, <2>1, PageFacts
<1>6. /\ Len(stack) \in Nat /\ Len(stack) > 0 /\ ref = stack[Len(stack)]
      /\ \A j \in 1..Len(stack) : stack[j].id \in DOMAIN tree /\ stack[j].index \in Int
  BY <1>1, <1>2, TopFacts
<1>7. \A j \in 1..(Len(stack) - 1) :
        ~tree[stack[j].id].leaf /\ stack[j + 1].id = KidOf(tree, stack[j]) /\ j \in 1..Len(stack)
  BY <1>1, <1>6 DEF PathOK
<1>8. \A j \in 1..(Len(stack) - 1) : stack[j].id # id /\ tree'[stack[j].id] = tree[stack[j].id]
  BY <1>2, <1>3, <1>6, <1>7
<1>9. PathOK(tree', stack)
  <2>1. \A j \in 1..Len(stack) : RefOK(tree', stack[j])
    <3> SUFFICES ASSUME NEW j \in 1..Len(stack) PROVE RefOK(tree', stack[j])
      OBVIOUS
    <3>1. CASE j = Len(stack)
      <4>1. ref.index \in 0..Len(ks)
        BY <1>2, <1>3, <1>4
      <4> QED
        BY <1>3, <1>6, <3>1, <4>1 DEF RefOK, CountOf
    <3>2. CASE j # Len(stack)
      <4>1. j \in 1..(Len(stack) - 1) /\ RefOK(tree, stack[j])
        BY <1>1, <1>6, <3>2 DEF PathOK
      <4> QED
        BY <1>8, <4>1 DEF RefOK, CountOf
    <3> QED
      BY <3>1, <3>2
  <2>2. \A j \in 1..(Len(stack) - 1) :
          ~tree'[stack[j].id].leaf /\ stack[j + 1].id = KidOf(tree', stack[j])
    BY <1>7, <1>8 DEF KidOf
  <2> QED
    BY <1>1, <1>3, <2>1, <2>2 DEF PathOK
<1>10. TreeOK(tree)' /\ PathOK(tree, stack)'
  BY <1>2, <1>3, <1>9 DEF TreeOK, PageOK, PathOK, RefOK, CountOf, KidOf
<1>11. Control'
  BY <1>1, <1>2, <1>3 DEF Control, isLeaf, PCs, Ops
<1>12. KeysKnown'
  <2>1. Keys' = Keys
    BY DEF Keys
  <2>2. ASSUME NEW a \in DOMAIN tree, NEW i \in DOMAIN tree'[a].keys
        PROVE  tree'[a].keys[i] \in Keys
    <3>1. CASE a # id
      BY <1>1, <1>3, <2>2, <3>1 DEF KeysKnown
    <3>2. CASE a = id
      <4>1. i \in 1..Len(ks) /\ \A j \in 1..Len(old) : old[j] \in Keys
        BY <1>1, <1>2, <1>4, <1>5, <2>2, <3>2 DEF KeysKnown
      <4>2. i \in 1..Len(old) /\ i + 1 \in 1..Len(old) /\ ks[i] \in {old[i], old[i + 1]}
        <5>1. n \in Int /\ Len(ks) = Len(old) - 1
          BY <1>2, <1>3
        <5> HIDE DEF ks, old, n
        <5>2. i \in 1..(n - 1) \/ i \in n..(Len(old) - 1)
          BY <1>4, <4>1, <5>1
        <5> QED
          BY <1>3, <1>4, <4>1, <5>1, <5>2
      <4> QED
        BY <3>2, <4>1, <4>2
    <3> QED
      BY <3>1, <3>2
  <2>3. reached' \in Keys \cup {Nil}
    <3>1. CASE reached # Nil /\ ref.index < Len(ks)
      <4>1. n \in DOMAIN ks
        BY <1>2, <1>4, <1>5, <3>1
      <4> QED
        BY <1>2, <2>2, <3>1, <4>1
    <3>2. CASE ~(reached # Nil /\ ref.index < Len(ks))
      BY <1>1, <1>2, <3>2 DEF KeysKnown
    <3> QED
      BY <3>1, <3>2
  <2> QED
    BY <1>1, <1>2, <1>3, <2>1, <2>2, <2>3 DEF KeysKnown
<1> QED
  BY <1>10, <1>11, <1>12 DEF CursorInv

LEMMA CursorNext ==
  ASSUME CursorInv, [Next]_vars
  PROVE  CursorInv'
<1>1. CASE Step
  BY <1>1, FirstStepKeeps, FirstLandsKeeps, NextStepKeeps, NextLandsKeeps, LastStepKeeps,
     LastLandsKeeps, SearchBranchKeeps, SearchLeafKeeps DEF Step
<1>2. CASE First \/ Next_ \/ Last_ \/ Prev \/ PrevAtBeginning \/ \E k \in SeekKeys : Seek(k)
  BY <1>2, CallsKeep
<1>3. CASE Delete
  BY <1>3, DeleteKeeps
<1>4. CASE NextAborts \/ DeleteAborts \/ UNCHANGED vars
  <2>1. UNCHANGED <<tree, stack, pc, op, arg, ret, reached>> /\ aborted' \in {TRUE, aborted}
    BY <1>4 DEF NextAborts, DeleteAborts, Abort, vars
  <2>2. Control' /\ PathOK(tree, stack') /\ ret' \in Keys \cup {Nil} /\ reached' \in Keys \cup {Nil}
    BY <2>1 DEF CursorInv, Control, isLeaf, count, KeysKnown
  <2> QED
    BY <2>1, <2>2, MoveKeeps
<1> QED
  BY <1>1, <1>2, <1>3, <1>4 DEF Next

-----------------------------------------------------------------------------
(* The first theorems.                                                     *)

\* The tree stays a tree of sorted pages, and the refs a path in it.
THEOREM CursorInvariant == Spec => []CursorInv
<1>1. Init => CursorInv
  BY CursorInit
<1>2. CursorInv /\ [Next]_vars => CursorInv'
  BY CursorNext
<1> QED
  BY <1>1, <1>2, PTL DEF Spec

\* The type invariant of Cursor: no index is more than one place outside its page.
THEOREM CursorTypes == Spec => []TypeOK
<1>1. CursorInv => TypeOK
  <2> SUFFICES ASSUME CursorInv PROVE TypeOK
    OBVIOUS
  <2>1. TreeOK(tree) /\ PathOK(tree, stack) /\ Control /\ KeysKnown
    BY DEF CursorInv
  <2>2. ASSUME NEW id \in DOMAIN tree
        PROVE  /\ \A i, j \in DOMAIN tree[id].keys : i < j => tree[id].keys[i] < tree[id].keys[j]
               /\ ~tree[id].leaf => Len(tree[id].kids) = Len(tree[id].keys)
    BY <2>1, <2>2, PageFacts
  <2>3. ASSUME NEW i \in DOMAIN stack
        PROVE  stack[i].id \in DOMAIN tree /\ stack[i].index \in -1..count(stack[i])
    <3>1. stack[i].id \in DOMAIN tree /\ stack[i].index \in Int /\ RefOK(tree, stack[i])
      BY <2>1, <2>3, TopFacts DEF PathOK
    <3>2. Len(tree[stack[i].id].keys) \in Nat
      BY <2>1, <3>1, PageFacts
    <3> QED
      BY <3>1, <3>2 DEF RefOK, CountOf, count
  <2> QED
    BY <2>1, <2>2, <2>3 DEF TypeOK, Control, KeysKnown
<1> QED
  BY <1>1, CursorInvariant, PTL

\* The refs of the stack lead from the root to a leaf (cursor.h:102-104), in every tree.
THEOREM StackStaysPath == Spec => []StackIsPath
<1>1. CursorInv => StackIsPath
  BY DEF CursorInv, Control, PathOK, StackIsPath, isLeaf, Child, KidOf
<1> QED
  BY <1>1, CursorInvariant, PTL

-----------------------------------------------------------------------------
(* The order of the keys along a path.                                     *)

LEMMA BehindFacts ==
  ASSUME NEW t, NEW u, NEW ref, NEW k
  PROVE  /\ k \in Behind(t, u, ref) <=>
              \E m \in 1..CountOf(t, ref) : m > ref.index + 1 /\ k \in Part(t, u, ref.id, m)
         /\ k \in Here(t, u, ref) <=>
              \E m \in 1..CountOf(t, ref) : m = ref.index + 1 /\ k \in Part(t, u, ref.id, m)
BY DEF Behind, Here

LEMMA AfterFacts ==
  ASSUME NEW t, NEW u, NEW st, NEW k
  PROVE  /\ k \in After(t, u, st) <=> \E j \in 1..Len(st) : k \in Behind(t, u, st[j])
         /\ k \in Ahead(t, u, st) <=> k \in After(t, u, st) \/ k \in Here(t, u, Last(st))
BY DEF After, Ahead

LEMMA RootKeys ==
  ASSUME NEW t, NEW u, TreeOK(t), SearchTree(t, u)
  PROVE  u[Root] \subseteq Nat /\ u[Root] = LeafKeysOf(t)
<1>1. u[Root] = LeafKeysOf(t)
  BY DEF SearchTree
<1>2. ASSUME NEW k \in LeafKeysOf(t) PROVE k \in Nat
  <2>1. PICK id \in DOMAIN t : k \in ToSet(t[id].keys)
    BY <1>2 DEF LeafKeysOf
  <2>2. PICK i \in DOMAIN t[id].keys : k = t[id].keys[i]
    BY <2>1 DEF ToSet
  <2> QED
    BY <2>2, PageFacts
<1> QED
  BY <1>1, <1>2

\* The parts of a page make it up, and are in order.
LEMMA PartFacts ==
  ASSUME NEW t, NEW u, TreeOK(t), SearchTree(t, u), NEW id \in DOMAIN t, u[id] \subseteq u[Root]
  PROVE  /\ \A k : k \in u[id] <=> \E m \in 1..Len(t[id].keys) : k \in Part(t, u, id, m)
         /\ \A m, n \in 1..Len(t[id].keys) : m < n =>
              \A x \in Part(t, u, id, m), y \in Part(t, u, id, n) : x < y
         /\ u[id] \subseteq Nat
<1> DEFINE N == Len(t[id].keys)
           ks == t[id].keys
           cs == t[id].kids
<1>1. /\ N \in Nat /\ DOMAIN ks = 1..N /\ t[id].leaf \in BOOLEAN
      /\ \A i \in 1..N : ks[i] \in Nat
      /\ \A i, j \in 1..N : i < j => ks[i] < ks[j]
      /\ ~t[id].leaf => DOMAIN cs = 1..N /\ Len(cs) = N
  BY PageFacts
<1>2. u[id] \subseteq Nat
  BY RootKeys
<1>3. CASE t[id].leaf
  <2>1. u[id] = ToSet(ks)
    BY <1>3 DEF SearchTree
  <2>2. \A k : k \in u[id] <=> \E m \in 1..N : k = ks[m]
    BY <1>1, <2>1 DEF ToSet
  <2>3. \A m : Part(t, u, id, m) = {ks[m]}
    BY <1>3 DEF Part
  <2> HIDE DEF ks, N
  <2>4. \A m, n \in 1..N : m < n => \A x \in Part(t, u, id, m), y \in Part(t, u, id, n) : x < y
    <3>1. \A i, j \in 1..N : i < j => ks[i] < ks[j]
      BY <1>1
    <3>2. \A m, x : x \in Part(t, u, id, m) <=> x = ks[m]
      BY <2>3
    <3> QED
      BY <3>1, <3>2
  <2>5. \A k : k \in u[id] <=> \E m \in 1..N : k \in Part(t, u, id, m)
    BY <2>2, <2>3
  <2> QED
    BY <1>2, <2>4, <2>5 DEF N
<1>4. CASE ~t[id].leaf
  <2>1. /\ u[id] = UNION {u[cs[i]] : i \in DOMAIN cs}
        /\ \A i \in DOMAIN cs : \A k \in u[cs[i]] :
             /\ i > 1 => ks[i] <= k
             /\ i < Len(cs) => k < ks[i + 1]
    BY <1>4 DEF SearchTree
  <2>2. \A m : Part(t, u, id, m) = u[cs[m]]
    BY <1>4 DEF Part
  <2>3. DOMAIN cs = 1..N /\ Len(cs) = N
    BY <1>1, <1>4
  <2> HIDE DEF ks, cs, N
  <2>4. \A k : k \in u[id] <=> \E m \in 1..N : k \in Part(t, u, id, m)
    BY <2>1, <2>2, <2>3
  <2>5. ASSUME NEW m \in 1..N, NEW n \in 1..N, m < n,
               NEW x \in Part(t, u, id, m), NEW y \in Part(t, u, id, n)
        PROVE  x < y
    <3>1. x \in Nat /\ y \in Nat
      BY <1>2, <2>4, <2>5
    <3>2. m + 1 \in 1..N /\ n > 1 /\ m < N
      BY <1>1, <2>5
    <3>3. x < ks[m + 1] /\ ks[n] <= y
      BY <2>1, <2>2, <2>3, <2>5, <3>2
    <3>4. ks[m + 1] <= ks[n] /\ ks[m + 1] \in Nat /\ ks[n] \in Nat
      BY <1>1, <2>5, <3>2
    <3> QED
      BY <3>1, <3>3, <3>4
  <2> QED
    BY <1>2, <2>4, <2>5 DEF N
<1> QED
  BY <1>1, <1>3, <1>4

\* The keys of a page that are not before its ref.
LEMMA FromStart ==
  ASSUME NEW t, NEW u, TreeOK(t), SearchTree(t, u), NEW ref, ref.id \in DOMAIN t,
         u[ref.id] \subseteq u[Root], ref.index = 0
  PROVE  \A k : k \in u[ref.id] <=> k \in Here(t, u, ref) \/ k \in Behind(t, u, ref)
<1>1. CountOf(t, ref) \in Nat
  BY PageFacts DEF CountOf
<1>2. \A k : k \in u[ref.id] <=> \E m \in 1..CountOf(t, ref) : k \in Part(t, u, ref.id, m)
  BY PartFacts DEF CountOf
<1> QED
  BY <1>1, <1>2, BehindFacts

\* What the refs above a page leave behind them is larger than the keys of the page.
LEMMA BehindIsLarger ==
  ASSUME NEW t, NEW u, TreeOK(t), SearchTree(t, u), NEW st, PathOK(t, st), Split(t, u, st),
         NEW i \in 1..Len(st), NEW j \in 1..Len(st), i < j,
         NEW k \in Behind(t, u, st[i]), NEW l \in u[st[j].id]
  PROVE  l < k
<1> DEFINE id == st[i].id
           n == st[i].index + 1
<1>1. Len(st) \in Nat /\ id \in DOMAIN t /\ st[i].index \in Int
  BY TopFacts
<1>2. i \in 1..(Len(st) - 1) /\ i + 1 \in 1..j /\ 1 \in 1..i
  BY <1>1
<1>3. ~t[id].leaf /\ st[i + 1].id = t[id].kids[n] /\ RefOK(t, st[i]) /\ st[1].id = Root
  <2>1. st # <<>>
    BY <1>1
  <2> QED
    BY <1>2, <2>1 DEF PathOK, KidOf
<1>4. n \in 1..Len(t[id].keys)
  BY <1>1, <1>3 DEF RefOK, CountOf
<1>5. l \in u[st[i + 1].id] /\ u[id] \subseteq u[Root]
  BY <1>2, <1>3 DEF Split
<1>6. l \in Part(t, u, id, n)
  BY <1>3, <1>5 DEF Part
<1>7. PICK m \in 1..Len(t[id].keys) : m > n /\ k \in Part(t, u, id, m)
  BY BehindFacts DEF CountOf
<1> HIDE DEF id, n
<1> QED
  BY <1>1, <1>4, <1>5, <1>6, <1>7, PartFacts

\* The keys behind the refs are keys of the tree.
LEMMA AfterInTree ==
  ASSUME NEW t, NEW u, TreeOK(t), SearchTree(t, u), NEW st, PathOK(t, st), Split(t, u, st)
  PROVE  /\ \A j \in 1..Len(st) : st[j].id \in DOMAIN t /\ u[st[j].id] \subseteq u[Root]
         /\ \A j \in 1..Len(st) : Behind(t, u, st[j]) \subseteq u[st[j].id]
         /\ After(t, u, st) \subseteq u[Root]
<1>1. ASSUME NEW j \in 1..Len(st)
      PROVE  /\ st[j].id \in DOMAIN t /\ u[st[j].id] \subseteq u[Root]
             /\ Behind(t, u, st[j]) \subseteq u[st[j].id]
  <2>1. Len(st) \in Nat /\ st[j].id \in DOMAIN t
    BY TopFacts
  <2>2. st[1].id = Root /\ 1 \in 1..j
    BY <2>1 DEF PathOK
  <2>3. u[st[j].id] \subseteq u[Root]
    BY <2>2 DEF Split
  <2>4. \A k : k \in u[st[j].id] <=> \E m \in 1..Len(t[st[j].id].keys) : k \in Part(t, u, st[j].id, m)
    BY <2>1, <2>3, PartFacts
  <2> QED
    BY <2>1, <2>3, <2>4, BehindFacts DEF CountOf
<1> QED
  BY <1>1, AfterFacts

LEMMA SplitRoot ==
  ASSUME NEW t, NEW u, NEW i
  PROVE  LET r == [id |-> Root, index |-> i]
         IN  /\ Split(t, u, <<r>>)
             /\ \A k : k \in After(t, u, <<r>>) <=> k \in Behind(t, u, r)
             /\ Last(<<r>>) = r
<1> DEFINE r == [id |-> Root, index |-> i]
<1>1. r.id = Root
  OBVIOUS
<1> HIDE DEF r
<1>2. Len(<<r>>) = 1 /\ <<r>>[1] = r
  OBVIOUS
<1>3. \A j \in 1..1 : j = 1
  OBVIOUS
<1>4. Split(t, u, <<r>>)
  BY <1>1, <1>2, <1>3 DEF Split
<1>5. \A k : k \in After(t, u, <<r>>) <=> k \in Behind(t, u, r)
  BY <1>2, <1>3, AfterFacts
<1>6. Last(<<r>>) = r
  BY <1>2 DEF Last
<1> QED
  BY <1>4, <1>5, <1>6 DEF r

LEMMA SplitEmpty ==
  ASSUME NEW t, NEW u
  PROVE  Split(t, u, <<>>) /\ After(t, u, <<>>) = {}
BY DEF Split, After

\* A child is put on the stack.
LEMMA SplitPush ==
  ASSUME NEW t, NEW u, TreeOK(t), SearchTree(t, u), NEW st, PathOK(t, st), Split(t, u, st),
         st # <<>>, ~t[Last(st).id].leaf, NEW r, r.id = KidOf(t, Last(st)),
         NEW new, Len(new) = Len(st) + 1, \A j \in 1..Len(st) : new[j] = st[j],
         new[Len(st) + 1] = r
  PROVE  /\ Split(t, u, new)
         /\ \A k : k \in After(t, u, new) <=> k \in After(t, u, st) \/ k \in Behind(t, u, r)
         /\ \A k : k \in u[r.id] <=> k \in Here(t, u, Last(st))
         /\ u[r.id] \subseteq u[Root] /\ r.id \in DOMAIN t
<1> DEFINE N == Len(st)
           top == Last(st)
           n == top.index + 1
<1>1. /\ N \in Nat /\ N > 0 /\ N \in 1..N /\ top = st[N]
      /\ top.id \in DOMAIN t /\ top.index \in Int /\ RefOK(t, top)
  BY TopFacts
<1>2. n \in 1..Len(t[top.id].keys) /\ Part(t, u, top.id, n) = u[r.id] /\ r.id \in DOMAIN t
  <2>1. n \in 1..Len(t[top.id].keys)
    BY <1>1 DEF RefOK, CountOf
  <2>2. Part(t, u, top.id, n) = u[r.id]
    BY DEF Part, KidOf
  <2>3. t[top.id].kids[n] \in DOMAIN t
    BY <1>1, <2>1, PageFacts
  <2> QED
    BY <2>1, <2>2, <2>3 DEF KidOf
<1> HIDE DEF N, top
<1>3. u[top.id] \subseteq u[Root]
  BY <1>1, AfterInTree DEF N
<1>4. /\ \A k : k \in u[top.id] <=> \E m \in 1..Len(t[top.id].keys) : k \in Part(t, u, top.id, m)
      /\ \A a, b \in 1..Len(t[top.id].keys) : a < b =>
           \A x \in Part(t, u, top.id, a), y \in Part(t, u, top.id, b) : x < y
      /\ Len(t[top.id].keys) \in Nat
  BY <1>1, <1>3, PartFacts, PageFacts
<1>5. u[r.id] \subseteq u[top.id]
  BY <1>2, <1>4
<1>6. \A k : k \in u[r.id] <=> k \in Here(t, u, top)
  BY <1>2, BehindFacts DEF CountOf
<1>7. \A k : k \in After(t, u, new) <=> k \in After(t, u, st) \/ k \in Behind(t, u, r)
  <2> SUFFICES ASSUME NEW k
               PROVE  k \in After(t, u, new) <=> k \in After(t, u, st) \/ k \in Behind(t, u, r)
    OBVIOUS
  <2>1. /\ k \in After(t, u, new) <=> \E j \in 1..(N + 1) : k \in Behind(t, u, new[j])
        /\ k \in After(t, u, st) <=> \E j \in 1..N : k \in Behind(t, u, st[j])
    BY AfterFacts DEF N
  <2>2. \A j : j \in 1..(N + 1) <=> j \in 1..N \/ j = N + 1
    BY <1>1
  <2> QED
    BY <2>1, <2>2 DEF N
<1>8. Split(t, u, new)
  <2> SUFFICES ASSUME NEW j \in 1..(N + 1)
               PROVE  /\ \A i \in 1..j : u[new[j].id] \subseteq u[new[i].id]
                      /\ \A k \in u[Root] :
                           \/ k \in u[new[j].id]
                           \/ \A l \in u[new[j].id] : k < l
                           \/ \E i \in 1..(j - 1) : k \in Behind(t, u, new[i])
    BY DEF Split, N
  <2>1. CASE j \in 1..N
    <3>1. \A i \in 1..j : new[i] = st[i]
      BY <1>1, <2>1 DEF N
    <3>2. \A i \in 1..(j - 1) : i \in 1..j
      BY <1>1, <2>1
    <3>3. new[j] = st[j]
      BY <2>1 DEF N
    <3> QED
      BY <2>1, <3>1, <3>2, <3>3 DEF Split, N
  <2>2. CASE j = N + 1
    <3>1. new[j] = r /\ \A i \in 1..N : new[i] = st[i]
      BY <2>2 DEF N
    <3>2. \A i \in 1..N : u[top.id] \subseteq u[st[i].id]
      BY <1>1 DEF Split, N
    <3>3. \A i \in 1..j : i \in 1..N \/ i = j
      BY <1>1, <2>2
    <3>4. \A i \in 1..j : u[r.id] \subseteq u[new[i].id]
      BY <1>5, <3>1, <3>2, <3>3
    <3>5. ASSUME NEW k \in u[Root]
          PROVE  \/ k \in u[r.id]
                 \/ \A l \in u[r.id] : k < l
                 \/ \E i \in 1..N : k \in Behind(t, u, st[i])
      <4>1. \/ k \in u[top.id]
            \/ \A l \in u[top.id] : k < l
            \/ \E i \in 1..(N - 1) : k \in Behind(t, u, st[i])
        BY <1>1, <3>5 DEF Split, N
      <4>2. CASE k \in u[top.id]
        <5>1. PICK m \in 1..Len(t[top.id].keys) : k \in Part(t, u, top.id, m)
          BY <1>4, <4>2
        <5>2. CASE m < n
          BY <1>2, <1>4, <5>1, <5>2
        <5>3. CASE m = n
          BY <1>2, <5>1, <5>3
        <5>4. CASE m > n
          <6>1. k \in Behind(t, u, top)
            BY <5>1, <5>4, BehindFacts DEF CountOf
          <6> QED
            BY <1>1, <6>1
        <5> QED
          BY <1>1, <5>2, <5>3, <5>4
      <4>3. CASE \A l \in u[top.id] : k < l
        BY <1>5, <4>3
      <4>4. CASE \E i \in 1..(N - 1) : k \in Behind(t, u, st[i])
        BY <1>1, <4>4
      <4> QED
        BY <4>1, <4>2, <4>3, <4>4
    <3>6. 1..(j - 1) = 1..N
      BY <1>1, <2>2
    <3> QED
      BY <3>1, <3>4, <3>5, <3>6
  <2> QED
    BY <1>1, <2>1, <2>2
<1> QED
  BY <1>2, <1>3, <1>5, <1>6, <1>7, <1>8 DEF top

\* The stack is cut below the deepest ref that is not at its end, which moves on.
LEMMA SplitCut ==
  ASSUME NEW t, NEW u, TreeOK(t), SearchTree(t, u), NEW st, PathOK(t, st), Split(t, u, st),
         NEW n \in 1..Len(st), \A j \in (n + 1)..Len(st) : Behind(t, u, st[j]) = {},
         NEW new, Len(new) = n, \A j \in 1..(n - 1) : new[j] = st[j],
         new[n].id = st[n].id, new[n].index = st[n].index + 1, Last(new) = new[n]
  PROVE  /\ Split(t, u, new)
         /\ \A k : k \in Ahead(t, u, new) <=> k \in After(t, u, st)
<1>1. Len(st) \in Nat /\ n \in Int /\ st[n].index \in Int /\ st[n].id \in DOMAIN t
  BY TopFacts
<1>2. \A k : k \in Behind(t, u, st[n]) <=> k \in Here(t, u, new[n]) \/ k \in Behind(t, u, new[n])
  <2>1. CountOf(t, new[n]) = CountOf(t, st[n]) /\ CountOf(t, st[n]) \in Nat
    BY <1>1, PageFacts DEF CountOf
  <2> SUFFICES ASSUME NEW k
               PROVE  k \in Behind(t, u, st[n]) <=> k \in Here(t, u, new[n]) \/ k \in Behind(t, u, new[n])
    OBVIOUS
  <2> DEFINE N == CountOf(t, st[n])
             i == st[n].index
             In(m) == k \in Part(t, u, st[n].id, m)
  <2>2. k \in Behind(t, u, st[n]) <=> \E m \in 1..N : m > i + 1 /\ In(m)
    BY BehindFacts
  <2>3. k \in Behind(t, u, new[n]) <=> \E m \in 1..N : m > (i + 1) + 1 /\ In(m)
    BY <2>1, BehindFacts
  <2>4. k \in Here(t, u, new[n]) <=> \E m \in 1..N : m = (i + 1) + 1 /\ In(m)
    BY <2>1, BehindFacts
  <2>5. i \in Int
    BY <1>1
  <2> HIDE DEF N, i, In
  <2>6. \A m \in 1..N : m > i + 1 <=> m = (i + 1) + 1 \/ m > (i + 1) + 1
    BY <2>5
  <2>7. (\E m \in 1..N : m > i + 1 /\ In(m)) <=>
          \/ \E m \in 1..N : m = (i + 1) + 1 /\ In(m)
          \/ \E m \in 1..N : m > (i + 1) + 1 /\ In(m)
    BY <2>6, Zenon
  <2> QED
    BY <2>2, <2>3, <2>4, <2>7
<1>3. Split(t, u, new)
  <2> SUFFICES ASSUME NEW j \in 1..n
               PROVE  /\ \A i \in 1..j : u[new[j].id] \subseteq u[new[i].id]
                      /\ \A k \in u[Root] :
                           \/ k \in u[new[j].id]
                           \/ \A l \in u[new[j].id] : k < l
                           \/ \E i \in 1..(j - 1) : k \in Behind(t, u, new[i])
    BY DEF Split
  <2>1. \A i \in 1..n : new[i].id = st[i].id
    BY <1>1
  <2>2. \A i \in 1..(j - 1) : new[i] = st[i]
    BY <1>1
  <2>3. j \in 1..Len(st) /\ \A i \in 1..j : i \in 1..n
    BY <1>1
  <2> QED
    BY <2>1, <2>2, <2>3 DEF Split
<1>4. ASSUME NEW k PROVE k \in Ahead(t, u, new) <=> k \in After(t, u, st)
  <2>1. /\ k \in Ahead(t, u, new) <=> \/ \E j \in 1..n : k \in Behind(t, u, new[j])
                                      \/ k \in Here(t, u, new[n])
        /\ k \in After(t, u, st) <=> \E j \in 1..Len(st) : k \in Behind(t, u, st[j])
    BY AfterFacts
  <2>2. \A j \in 1..n : j = n \/ (j \in 1..(n - 1) /\ new[j] = st[j] /\ j \in 1..Len(st))
    BY <1>1
  <2>3. \A j \in 1..Len(st) : j \in 1..(n - 1) \/ j = n \/ j \in (n + 1)..Len(st)
    BY <1>1
  <2>4. \A j \in 1..(n - 1) : j \in 1..n
    BY <1>1
  <2>5. n \in 1..n
    BY <1>1
  <2> QED
    BY <1>2, <2>1, <2>2, <2>3, <2>4, <2>5
<1> QED
  BY <1>3, <1>4

\* On a key of a leaf, the keys behind the refs are exactly the larger ones.
LEMMA Land ==
  ASSUME NEW t, NEW u, TreeOK(t), SearchTree(t, u), NEW st, PathOK(t, st), Split(t, u, st),
         st # <<>>, t[Last(st).id].leaf, Last(st).index \in 0..(CountOf(t, Last(st)) - 1)
  PROVE  LET k == t[Last(st).id].keys[Last(st).index + 1]
         IN  /\ k \in u[Root] /\ k \in Nat
             /\ \A x : x \in After(t, u, st) <=> x \in u[Root] /\ x > k
             /\ \A x : x \in Here(t, u, Last(st)) <=> x = k
<1> DEFINE N == Len(st)
           top == Last(st)
           id == top.id
           n == top.index + 1
           k == t[id].keys[n]
<1>1. /\ N \in Nat /\ N > 0 /\ N \in 1..N /\ top = st[N]
      /\ id \in DOMAIN t /\ top.index \in Int
  BY TopFacts
<1>2. Len(t[id].keys) \in Nat /\ n \in 1..Len(t[id].keys)
  <2>1. Len(t[id].keys) \in Nat
    BY <1>1, PageFacts
  <2>2. top.index \in 0..(Len(t[id].keys) - 1)
    BY DEF CountOf
  <2> HIDE DEF top, id
  <2> QED
    BY <2>1, <2>2
<1>3. u[id] \subseteq u[Root] /\ u[Root] \subseteq Nat
  BY <1>1, AfterInTree, RootKeys
<1>4. /\ \A x : x \in u[id] <=> \E m \in 1..Len(t[id].keys) : x \in Part(t, u, id, m)
      /\ \A m, o \in 1..Len(t[id].keys) : m < o =>
           \A x \in Part(t, u, id, m), y \in Part(t, u, id, o) : x < y
  BY <1>1, <1>3, PartFacts
<1>5. \A m : Part(t, u, id, m) = {t[id].keys[m]}
  BY DEF Part
<1>6. k \in u[id] /\ k \in Part(t, u, id, n) /\ k \in Nat
  BY <1>2, <1>3, <1>4, <1>5
<1>7. \A x : x \in Here(t, u, top) <=> x = k
  <2>1. \A x : x \in Here(t, u, top) <=>
          \E m \in 1..Len(t[id].keys) : m = n /\ x \in Part(t, u, id, m)
    BY BehindFacts DEF CountOf
  <2> HIDE DEF n, id
  <2> QED
    BY <1>2, <1>5, <2>1
<1>8. \A x : x \in Behind(t, u, top) <=>
        \E m \in 1..Len(t[id].keys) : m > n /\ x \in Part(t, u, id, m)
  BY BehindFacts DEF CountOf
<1> HIDE DEF N, top, id, n, k
<1>9. ASSUME NEW x \in After(t, u, st) PROVE x \in u[Root] /\ x > k
  <2>1. x \in u[Root]
    BY <1>9, AfterInTree
  <2>2. PICK j \in 1..N : x \in Behind(t, u, st[j])
    BY <1>9, AfterFacts DEF N
  <2>3. CASE j = N
    BY <1>1, <1>2, <1>4, <1>6, <1>8, <2>2, <2>3, <2>1, <1>3
  <2>4. CASE j # N
    <3>1. j < N /\ k \in u[st[N].id]
      BY <1>1, <1>6, <2>4 DEF id
    <3>2. k < x
      BY <1>1, <2>2, <3>1, BehindIsLarger DEF N
    <3> QED
      BY <1>3, <1>6, <2>1, <3>2
  <2> QED
    BY <2>1, <2>3, <2>4
<1>10. ASSUME NEW x \in u[Root], x > k PROVE x \in After(t, u, st)
  <2>0. x \in Nat
    BY <1>3, <1>10
  <2>1. \/ x \in u[id]
        \/ \A l \in u[id] : x < l
        \/ \E i \in 1..(N - 1) : x \in Behind(t, u, st[i])
    BY <1>1, <1>10 DEF Split, N, id
  <2>2. CASE x \in u[id]
    <3>1. PICK m \in 1..Len(t[id].keys) : x \in Part(t, u, id, m)
      BY <1>4, <2>2
    <3>2. ~(m < n)
      BY <1>2, <1>4, <1>6, <1>10, <2>0, <3>1
    <3>3. m # n
      <4>1. m = n => x = k
        BY <1>5, <3>1 DEF k
      <4> QED
        BY <1>6, <1>10, <2>0, <4>1
    <3>4. x \in Behind(t, u, top)
      BY <1>2, <1>8, <3>1, <3>2, <3>3
    <3> QED
      BY <1>1, <3>4, AfterFacts DEF N
  <2>3. CASE \A l \in u[id] : x < l
    BY <1>6, <1>10, <2>0, <2>3
  <2>4. CASE \E i \in 1..(N - 1) : x \in Behind(t, u, st[i])
    <3>1. PICK i \in 1..(N - 1) : x \in Behind(t, u, st[i])
      BY <2>4
    <3>2. i \in 1..N
      BY <1>1
    <3> QED
      BY <3>1, <3>2, AfterFacts DEF N
  <2> QED
    BY <2>1, <2>2, <2>3, <2>4
<1>11. /\ k \in u[Root] /\ k \in Nat
       /\ \A x : x \in After(t, u, st) <=> x \in u[Root] /\ x > k
       /\ \A x : x \in Here(t, u, top) <=> x = k
  BY <1>3, <1>6, <1>7, <1>9, <1>10
<1> QED
  BY <1>11 DEF k, n, id, top

LEMMA ScanPrime ==
  ASSUME NEW u, SearchTree(tree', u), Split(tree', u, stack'),
         Position(tree', u, stack', pc', op', arg', reached')
  PROVE  ScanWith(u)'
BY DEF ScanWith

-----------------------------------------------------------------------------
(* The operations, on the keys ahead of the cursor.                        *)

Least(S) == IF S = {} THEN Nil ELSE Min(S)

LEMMA LeastIs ==
  ASSUME NEW S, S \subseteq Nat, NEW k \in S, \A x \in S : k <= x
  PROVE  Least(S) = k
<1>1. \E x \in S : \A y \in S : x <= y
  OBVIOUS
<1>2. Min(S) \in S /\ \A y \in S : Min(S) <= y
  BY <1>1 DEF Min
<1>3. Min(S) \in Nat /\ k \in Nat /\ Min(S) <= k /\ k <= Min(S)
  BY <1>2
<1>4. Min(S) = k
  BY <1>3
<1>5. S # {}
  OBVIOUS
<1> QED
  BY <1>4, <1>5 DEF Least

\* A call that returns has found the least of the keys it was looking for.
FoundLeast ==
    pc # "idle" /\ pc' = "idle" /\ op \in {"first", "next", "seek"} /\ Tracked(tree, op) =>
        /\ reached' = Least(Wanted(tree, op, arg, reached))
        /\ op # "seek" => ret' = reached'

LEMMA WantedFacts ==
  ASSUME CursorInv, NEW u, SearchTree(tree, u), op \in {"first", "next", "seek"}
  PROVE  /\ Wanted(tree, op, arg, reached) \subseteq u[Root] /\ u[Root] \subseteq Nat
         /\ u[Root] = LeafKeysOf(tree)
         /\ op = "first" => Wanted(tree, op, arg, reached) = u[Root]
         /\ op = "next" => Wanted(tree, op, arg, reached) = Beyond(tree, reached)
         /\ op = "seek" => Wanted(tree, op, arg, reached) = {k \in u[Root] : k >= arg}
<1>1. u[Root] \subseteq Nat /\ u[Root] = LeafKeysOf(tree)
  BY RootKeys DEF CursorInv
<1>2. /\ op = "first" => Wanted(tree, op, arg, reached) = u[Root]
      /\ op = "next" => Wanted(tree, op, arg, reached) = Beyond(tree, reached)
      /\ op = "seek" => Wanted(tree, op, arg, reached) = {k \in u[Root] : k >= arg}
  BY <1>1 DEF Wanted
<1>3. Beyond(tree, reached) \subseteq u[Root]
  BY <1>1 DEF Beyond
<1> QED
  BY <1>1, <1>2, <1>3

\* The cursor stops on a key: the keys beyond it are the ones behind the refs.
LEMMA Stop ==
  ASSUME CursorInv, NEW u, SearchTree(tree, u), NEW st, PathOK(tree, st), Split(tree, u, st),
         st # <<>>, tree[Last(st).id].leaf, Last(st).index \in 0..(CountOf(tree, Last(st)) - 1)
  PROVE  LET k == keyValue(st)
         IN  /\ k \in u[Root] /\ k \in Nat /\ k # Nil
             /\ k = tree[Last(st).id].keys[Last(st).index + 1]
             /\ After(tree, u, st) = Beyond(tree, k)
             /\ \A x : x \in Ahead(tree, u, st) <=> x \in After(tree, u, st) \/ x = k
             /\ \A x \in Ahead(tree, u, st) : k <= x
<1> DEFINE k == keyValue(st)
           top == Last(st)
<1>1. TreeOK(tree)
  BY DEF CursorInv
<1>2. top.id \in DOMAIN tree /\ top.index \in Int /\ CountOf(tree, top) \in Nat
  BY <1>1, TopFacts, PageFacts DEF CountOf
<1>3. k = tree[top.id].keys[top.index + 1]
  BY <1>2 DEF keyValue, count, CountOf
<1>4. /\ k \in u[Root] /\ k \in Nat
      /\ \A x : x \in After(tree, u, st) <=> x \in u[Root] /\ x > k
      /\ \A x : x \in Here(tree, u, top) <=> x = k
  BY <1>1, <1>3, Land
<1>5. k # Nil
  BY <1>4, CursorAssumption DEF CursorAssumption
<1>6. u[Root] \subseteq Nat /\ u[Root] = LeafKeysOf(tree)
  BY <1>1, RootKeys
<1> HIDE DEF k
<1>7. After(tree, u, st) = Beyond(tree, k)
  <2>1. Beyond(tree, k) = {x \in u[Root] : x > k}
    BY <1>5, <1>6 DEF Beyond
  <2> QED
    BY <1>4, <2>1
<1>8. \A x : x \in Ahead(tree, u, st) <=> x \in After(tree, u, st) \/ x = k
  BY <1>4, AfterFacts
<1>9. \A x \in Ahead(tree, u, st) : k <= x
  BY <1>4, <1>6, <1>8
<1> QED
  BY <1>3, <1>4, <1>5, <1>7, <1>8, <1>9 DEF k, top

\* A step that leaves the tree alone and comes to rest.
LEMMA Rest ==
  ASSUME NEW u, ScanWith(u), UNCHANGED tree, Split(tree, u, stack'), pc' = "idle",
         stack' # <<>> => After(tree, u, stack') = Beyond(tree, reached')
  PROVE  ScanWith(u)'
<1>1. SearchTree(tree', u) /\ Split(tree', u, stack')
  BY DEF ScanWith
<1>2. Position(tree', u, stack', pc', op', arg', reached')
  BY DEF Position
<1> QED
  BY <1>1, <1>2, ScanPrime

LEMMA ScanFirst ==
  ASSUME CursorInv, NEW u, ScanWith(u), First
  PROVE  ScanWith(u)' /\ FoundLeast
<1> DEFINE r == [id |-> Root, index |-> 0]
<1>1. TreeOK(tree) /\ SearchTree(tree, u)
  BY DEF CursorInv, ScanWith
<1>2. /\ stack' = <<r>> /\ pc' = "first_" /\ op' = "first" /\ tree' = tree
  BY DEF First, Call
<1>3. r.id = Root /\ r.index = 0 /\ Root \in DOMAIN tree
  BY <1>1 DEF TreeOK
<1>4. /\ Split(tree, u, stack') /\ Last(stack') = r
      /\ \A k : k \in After(tree, u, stack') <=> k \in Behind(tree, u, r)
  BY <1>2, SplitRoot
<1> HIDE DEF r
<1>5. \A k : k \in u[Root] <=> k \in Here(tree, u, r) \/ k \in Behind(tree, u, r)
  BY <1>1, <1>3, FromStart
<1>6. u[Root] = LeafKeysOf(tree)
  BY <1>1, RootKeys
<1>7. \A k : k \in Ahead(tree, u, stack') <=> k \in LeafKeysOf(tree)
  BY <1>4, <1>5, <1>6, AfterFacts
<1>8. Ahead(tree, u, stack') = Wanted(tree, op', arg', reached')
  BY <1>2, <1>7 DEF Wanted
<1>9. Position(tree', u, stack', pc', op', arg', reached')
  BY <1>2, <1>8 DEF Position
<1> QED
  BY <1>1, <1>2, <1>4, <1>9, ScanPrime DEF FoundLeast

LEMMA ScanFirstStep ==
  ASSUME CursorInv, NEW u, ScanWith(u), FirstStep
  PROVE  ScanWith(u)' /\ FoundLeast
<1> DEFINE top == Last(stack)
           r == [id |-> KidOf(tree, top), index |-> 0]
<1>1. /\ TreeOK(tree) /\ PathOK(tree, stack) /\ Control
      /\ SearchTree(tree, u) /\ Split(tree, u, stack)
      /\ Position(tree, u, stack, pc, op, arg, reached)
  BY DEF CursorInv, ScanWith
<1>2. /\ pc \in {"first_", "next_first_"} /\ ~tree[top.id].leaf /\ stack # <<>>
      /\ stack' = Append(stack, r)
      /\ pc' = pc /\ UNCHANGED <<tree, op, arg, ret, reached, aborted>>
  BY <1>1 DEF FirstStep, Push, Goto, Child, KidOf, isLeaf, Control
<1>3. top.id \in DOMAIN tree /\ top.index \in Int /\ RefOK(tree, top)
  BY <1>1, <1>2, TopFacts
<1>4. r.id = KidOf(tree, top) /\ r.index = 0
  OBVIOUS
<1>5. KidOf(tree, top) \in DOMAIN tree
  <2>1. top.index + 1 \in 1..Len(tree[top.id].keys)
    BY <1>2, <1>3 DEF RefOK, CountOf
  <2> QED
    BY <1>1, <1>2, <1>3, <2>1, PageFacts DEF KidOf
<1>6. RefOK(tree, r)
  <2>1. /\ Len(tree[r.id].keys) \in Nat /\ ~tree[r.id].leaf => Len(tree[r.id].keys) > 0
    BY <1>1, <1>4, <1>5, PageFacts
  <2> HIDE DEF r
  <2> QED
    BY <1>4, <2>1 DEF RefOK, CountOf
<1>7. /\ Len(stack') = Len(stack) + 1 /\ Last(stack') = r
      /\ \A j \in 1..Len(stack) : stack'[j] = stack[j]
      /\ stack'[Len(stack) + 1] = r
  BY <1>1, <1>2, <1>6, PathPush
<1> HIDE DEF r
<1>8. /\ Split(tree, u, stack')
      /\ \A k : k \in After(tree, u, stack') <=> k \in After(tree, u, stack) \/ k \in Behind(tree, u, r)
      /\ \A k : k \in u[r.id] <=> k \in Here(tree, u, Last(stack))
      /\ u[r.id] \subseteq u[Root]
  <2> DEFINE new == stack'
  <2>1. /\ stack # <<>> /\ ~tree[Last(stack).id].leaf /\ r.id = KidOf(tree, Last(stack))
        /\ Len(new) = Len(stack) + 1 /\ \A j \in 1..Len(stack) : new[j] = stack[j]
        /\ new[Len(stack) + 1] = r
    BY <1>2, <1>4, <1>7
  <2>2. TreeOK(tree) /\ SearchTree(tree, u) /\ PathOK(tree, stack) /\ Split(tree, u, stack)
    BY <1>1
  <2> HIDE DEF new
  <2>3. /\ Split(tree, u, new)
        /\ \A k : k \in After(tree, u, new) <=> k \in After(tree, u, stack) \/ k \in Behind(tree, u, r)
        /\ \A k : k \in u[r.id] <=> k \in Here(tree, u, Last(stack))
        /\ u[r.id] \subseteq u[Root]
    BY <2>1, <2>2, SplitPush
  <2> QED
    BY <2>3 DEF new
<1>9. \A k : k \in u[r.id] <=> k \in Here(tree, u, r) \/ k \in Behind(tree, u, r)
  BY <1>1, <1>4, <1>5, <1>8, FromStart
<1>10. \A k : k \in Ahead(tree, u, stack') <=> k \in Ahead(tree, u, stack)
  BY <1>7, <1>8, <1>9, AfterFacts
<1>11. Ahead(tree, u, stack') = Ahead(tree, u, stack)
  BY <1>10 DEF Ahead
<1>12. Position(tree', u, stack', pc', op', arg', reached')
  BY <1>1, <1>2, <1>11 DEF Position
<1> QED
  BY <1>1, <1>2, <1>8, <1>12, ScanPrime DEF FoundLeast

\* Both loops come down to a leaf: with an empty one next_ starts over.
LEMMA ScanLands ==
  ASSUME CursorInv, NEW u, ScanWith(u), FirstLands \/ NextLands
  PROVE  ScanWith(u)' /\ FoundLeast
<1> DEFINE top == Last(stack)
<1>1. /\ TreeOK(tree) /\ PathOK(tree, stack) /\ Control
      /\ SearchTree(tree, u) /\ Split(tree, u, stack)
      /\ Position(tree, u, stack, pc, op, arg, reached)
  BY DEF CursorInv, ScanWith
<1>2. /\ pc \in {"first_", "next_first_"} /\ tree[top.id].leaf /\ stack' = stack /\ stack # <<>>
      /\ op \in {"first", "next", "seek"}
  BY <1>1 DEF FirstLands, NextLands, Control, isLeaf
<1>3. top.id \in DOMAIN tree /\ top.index \in Int /\ CountOf(tree, top) \in Nat
  BY <1>1, <1>2, TopFacts, PageFacts DEF CountOf
<1>4. count(top) = CountOf(tree, top)
  BY DEF count, CountOf
<1>5. top.index = 0 \/ top.index \in 1..(CountOf(tree, top) - 1)
  BY <1>1, <1>2, <1>4 DEF Control
<1>6. Tracked(tree, op) => Ahead(tree, u, stack) = Wanted(tree, op, arg, reached)
  BY <1>1, <1>2 DEF Position
<1>7. CASE CountOf(tree, top) = 0
  <2>1. pc' = "next_" /\ UNCHANGED <<tree, op, arg, ret, reached, aborted>>
    BY <1>4, <1>7 DEF FirstLands, NextLands, Goto
  <2>2. Here(tree, u, top) = {}
    BY <1>7 DEF Here
  <2>3. Ahead(tree, u, stack) = After(tree, u, stack)
    BY <2>2 DEF Ahead
  <2>4. Position(tree', u, stack', pc', op', arg', reached')
    BY <1>2, <1>6, <2>1, <2>3 DEF Position
  <2> QED
    BY <1>1, <1>2, <2>1, <2>4, ScanPrime DEF FoundLeast
<1>8. CASE CountOf(tree, top) # 0
  <2> DEFINE k == keyValue(stack)
  <2>1. top.index \in 0..(CountOf(tree, top) - 1)
    BY <1>3, <1>5, <1>8
  <2>2. /\ k \in u[Root] /\ k \in Nat /\ k # Nil
        /\ After(tree, u, stack) = Beyond(tree, k)
        /\ \A x : x \in Ahead(tree, u, stack) <=> x \in After(tree, u, stack) \/ x = k
        /\ \A x \in Ahead(tree, u, stack) : k <= x
    BY <1>1, <1>2, <2>1, Stop
  <2>3. /\ pc' = "idle" /\ tree' = tree /\ reached' = k /\ (op # "seek" => ret' = k)
    <3>1. CASE FirstLands
      BY <1>4, <1>8, <3>1, <1>1 DEF FirstLands, Return, Control
    <3>2. CASE NextLands
      <4>1. NextEnds(keyValue(stack'), stack')
        BY <1>2, <1>4, <1>8, <3>2 DEF NextLands
      <4>2. PathOK(tree, stack') /\ stack' # <<>> /\ tree[Last(stack').id].leaf
        BY <1>1, <1>2
      <4> QED
        BY <1>2, <4>1, <4>2, NextEndsKeeps
    <3> QED
      BY <3>1, <3>2
  <2> HIDE DEF k
  <2>4. ScanWith(u)'
    BY <1>1, <1>2, <2>2, <2>3, Rest
  <2>5. Tracked(tree, op) => reached' = Least(Wanted(tree, op, arg, reached))
    <3> SUFFICES ASSUME Tracked(tree, op) PROVE reached' = Least(Ahead(tree, u, stack))
      BY <1>6
    <3>1. Ahead(tree, u, stack) \subseteq Nat
      BY <1>1, <1>2, <1>6, WantedFacts
    <3> QED
      BY <2>2, <2>3, <3>1, LeastIs
  <2> QED
    BY <2>3, <2>4, <2>5 DEF FoundLeast
<1> QED
  BY <1>7, <1>8

LEMMA ScanNext ==
  ASSUME CursorInv, NEW u, ScanWith(u), Next_
  PROVE  ScanWith(u)' /\ FoundLeast
<1>1. /\ SearchTree(tree, u) /\ Split(tree, u, stack)
      /\ Position(tree, u, stack, pc, op, arg, reached)
  BY DEF ScanWith
<1>2. /\ stack # <<>> /\ pc = "idle" /\ stack' = stack /\ pc' = "next_" /\ op' = "next"
      /\ UNCHANGED <<tree, arg, ret, reached, aborted>>
  BY DEF Next_, Call
<1>3. After(tree, u, stack') = Wanted(tree, op', arg', reached')
  BY <1>1, <1>2 DEF Position, Wanted
<1>4. Position(tree', u, stack', pc', op', arg', reached')
  BY <1>2, <1>3 DEF Position
<1> QED
  BY <1>1, <1>2, <1>4, ScanPrime DEF FoundLeast

LEMMA ScanNextStep ==
  ASSUME CursorInv, NEW u, ScanWith(u), NextStep
  PROVE  ScanWith(u)' /\ FoundLeast
<1>1. /\ TreeOK(tree) /\ PathOK(tree, stack) /\ Control
      /\ SearchTree(tree, u) /\ Split(tree, u, stack)
      /\ Position(tree, u, stack, pc, op, arg, reached)
  BY DEF CursorInv, ScanWith
<1>2. /\ pc = "next_" /\ stack # <<>> /\ tree[Last(stack).id].leaf
      /\ op \in {"first", "next", "seek"}
  BY <1>1 DEF NextStep, Control, isLeaf
<1>3. Tracked(tree, op) => After(tree, u, stack) = Wanted(tree, op, arg, reached)
  BY <1>1, <1>2 DEF Position
<1>4. /\ Len(stack) \in Nat /\ DOMAIN stack = 1..Len(stack)
      /\ \A j \in 1..Len(stack) : /\ stack[j].id \in DOMAIN tree /\ stack[j].index \in Int
                                  /\ CountOf(tree, stack[j]) \in Nat
  BY <1>1, TopFacts, PageFacts DEF CountOf
<1>5. \A j \in 1..Len(stack) : j \notin Movable => Behind(tree, u, stack[j]) = {}
  <2> SUFFICES ASSUME NEW j \in 1..Len(stack), j \notin Movable, NEW k \in Behind(tree, u, stack[j])
               PROVE  FALSE
    OBVIOUS
  <2>1. stack[j].index >= CountOf(tree, stack[j]) - 1
    BY <1>4 DEF Movable, count, CountOf
  <2>2. PICK m \in 1..CountOf(tree, stack[j]) : m > stack[j].index + 1
    BY BehindFacts
  <2> QED
    BY <1>4, <2>1, <2>2
<1>6. CASE Movable = {}
  <2>1. NextEnds(Nil, stack) /\ stack' = stack
    BY <1>6 DEF NextStep, Movable
  <2>2. PathOK(tree, stack') /\ NextEnds(Nil, stack') /\ tree[Last(stack').id].leaf
    BY <1>1, <1>2, <2>1
  <2>3. /\ pc' = "idle" /\ UNCHANGED <<tree, op, arg, aborted>>
        /\ op = "next" => ret' = Nil /\ reached' = Nil
        /\ op = "first" => ret' = keyValue(stack) /\ reached' = keyValue(stack)
        /\ op = "seek" => reached' = Nil
    BY <1>2, <2>1, <2>2, NextEndsKeeps
  <2>4. After(tree, u, stack) = {}
    BY <1>5, <1>6, AfterFacts
  <2>5. op = "first" => keyValue(stack) = Nil
    <3> SUFFICES ASSUME op = "first", keyValue(stack) # Nil PROVE FALSE
      OBVIOUS
    <3>1. Tracked(tree, op)
      BY DEF Tracked
    <3>2. u[Root] = {}
      BY <1>1, <1>2, <1>3, <2>4, <3>1, WantedFacts
    <3>3. Last(stack).index \in 0..(CountOf(tree, Last(stack)) - 1)
      BY <1>1, <1>2, KeyValueFacts DEF count, CountOf
    <3> QED
      BY <1>1, <1>2, <3>2, <3>3, Stop
  <2>6. reached' = Nil /\ (op # "seek" => ret' = Nil)
    BY <1>2, <2>3, <2>5
  <2>7. ScanWith(u)'
    BY <1>1, <2>1, <2>3, <2>4, <2>6, Rest DEF Beyond
  <2>8. Tracked(tree, op) => Least(Wanted(tree, op, arg, reached)) = Nil
    BY <1>3, <2>4 DEF Least
  <2> QED
    BY <2>6, <2>7, <2>8 DEF FoundLeast
<1>7. CASE Movable # {}
  <2> DEFINE n == Max(Movable)
  <2>1. /\ n \in 1..Len(stack) /\ n \in Movable /\ \A i \in Movable : i <= n
        /\ stack' = Cut(stack, n)
        /\ pc' = "next_first_" /\ UNCHANGED <<tree, op, arg, ret, reached, aborted>>
    BY <1>7, NextStepFacts
  <2> HIDE DEF n
  <2>2. stack[n].index < CountOf(tree, stack[n]) - 1
    BY <2>1 DEF Movable, count, CountOf
  <2>3. /\ Len(stack') = n /\ \A j \in 1..(n - 1) : stack'[j] = stack[j]
        /\ stack'[n].id = stack[n].id /\ stack'[n].index = stack[n].index + 1
        /\ Last(stack') = stack'[n]
    BY <1>1, <2>1, <2>2, PathCut
  <2>4. \A j \in (n + 1)..Len(stack) : Behind(tree, u, stack[j]) = {}
    <3> SUFFICES ASSUME NEW j \in (n + 1)..Len(stack) PROVE Behind(tree, u, stack[j]) = {}
      OBVIOUS
    <3>1. j \in 1..Len(stack) /\ ~(j <= n)
      BY <1>4, <2>1
    <3> QED
      BY <1>5, <2>1, <3>1
  <2>5. /\ Split(tree, u, stack')
        /\ \A k : k \in Ahead(tree, u, stack') <=> k \in After(tree, u, stack)
    BY <1>1, <2>1, <2>3, <2>4, SplitCut
  <2>6. Ahead(tree, u, stack') = After(tree, u, stack)
    BY <2>5
  <2>7. Position(tree', u, stack', pc', op', arg', reached')
    BY <1>3, <2>1, <2>6 DEF Position
  <2> QED
    BY <1>1, <2>1, <2>5, <2>7, ScanPrime DEF FoundLeast
<1> QED
  BY <1>6, <1>7

-----------------------------------------------------------------------------
(* last, prev and seek.                                                    *)

\* A ref that is at its end has nothing behind it.
LEMMA AtEnd ==
  ASSUME NEW t, NEW u, NEW ref, CountOf(t, ref) \in Nat, ref.index \in Int,
         ref.index >= CountOf(t, ref) - 1
  PROVE  Behind(t, u, ref) = {}
<1> SUFFICES ASSUME NEW k \in Behind(t, u, ref) PROVE FALSE
  OBVIOUS
<1>1. PICK m \in 1..CountOf(t, ref) : m > ref.index + 1
  BY BehindFacts
<1> QED
  BY <1>1

LEMMA ScanLast ==
  ASSUME CursorInv, NEW u, ScanWith(u), Last_ \/ Prev
  PROVE  ScanWith(u)' /\ FoundLeast
<1> DEFINE i == count([id |-> Root]) - 1
           r == [id |-> Root, index |-> i]
<1>1. TreeOK(tree) /\ SearchTree(tree, u)
  BY DEF CursorInv, ScanWith
<1>2. stack' = <<r>> /\ pc = "idle" /\ pc' = "last_" /\ tree' = tree
  BY DEF Last_, Prev, Call, LastRoot
<1>3. Root \in DOMAIN tree
  BY <1>1 DEF TreeOK
<1>4. Len(tree[Root].keys) \in Nat
  BY <1>1, <1>3, PageFacts
<1>5. i = Len(tree[Root].keys) - 1
  BY DEF count
<1>6. r.id = Root /\ r.index = i
  OBVIOUS
<1>7. /\ Split(tree, u, stack')
      /\ \A k : k \in After(tree, u, stack') <=> k \in Behind(tree, u, r)
  <2> HIDE DEF i
  <2> QED
    BY <1>2, SplitRoot
<1> HIDE DEF i, r
<1>8. Behind(tree, u, r) = {}
  BY <1>4, <1>5, <1>6, AtEnd DEF CountOf
<1>9. After(tree, u, stack') = {}
  BY <1>7, <1>8
<1>10. Position(tree', u, stack', pc', op', arg', reached')
  BY <1>2, <1>9 DEF Position
<1> QED
  BY <1>1, <1>2, <1>7, <1>10, ScanPrime DEF FoundLeast

LEMMA ScanLastStep ==
  ASSUME CursorInv, NEW u, ScanWith(u), LastStep
  PROVE  ScanWith(u)' /\ FoundLeast
<1> DEFINE top == Last(stack)
           kid == KidOf(tree, top)
           i == count([id |-> kid]) - 1
           r == [id |-> kid, index |-> i]
<1>1. /\ TreeOK(tree) /\ PathOK(tree, stack) /\ Control
      /\ SearchTree(tree, u) /\ Split(tree, u, stack)
      /\ Position(tree, u, stack, pc, op, arg, reached)
  BY DEF CursorInv, ScanWith
<1>2. /\ pc = "last_" /\ ~tree[Last(stack).id].leaf /\ stack # <<>>
      /\ stack' = Append(stack, r)
      /\ pc' = pc /\ UNCHANGED <<tree, op, arg, ret, reached, aborted>>
  BY <1>1 DEF LastStep, Push, Goto, Child, KidOf, isLeaf, Control
<1>3. i = Len(tree[kid].keys) - 1
  BY DEF count
<1>4. top.id \in DOMAIN tree /\ top.index \in Int /\ RefOK(tree, top)
  BY <1>1, <1>2, TopFacts
<1>5. kid \in DOMAIN tree
  <2>1. top.index + 1 \in 1..Len(tree[top.id].keys)
    BY <1>2, <1>4 DEF RefOK, CountOf
  <2> QED
    BY <1>1, <1>2, <1>4, <2>1, PageFacts DEF KidOf
<1>6. Len(tree[kid].keys) \in Nat /\ (~tree[kid].leaf => Len(tree[kid].keys) > 0)
  BY <1>1, <1>5, PageFacts
<1> HIDE DEF i, kid
<1>7. r.id = kid /\ r.index = i /\ i \in Int
  BY <1>3, <1>6
<1>8. RefOK(tree, r)
  <2> HIDE DEF r
  <2> QED
    BY <1>3, <1>6, <1>7 DEF RefOK, CountOf
<1>9. /\ Len(stack') = Len(stack) + 1
      /\ \A j \in 1..Len(stack) : stack'[j] = stack[j]
      /\ stack'[Len(stack) + 1] = r
  <2>1. stack' = Append(stack, [id |-> KidOf(tree, Last(stack)), index |-> i])
    BY <1>2 DEF kid
  <2>2. RefOK(tree, [id |-> KidOf(tree, Last(stack)), index |-> i])
    BY <1>8 DEF kid
  <2> QED
    BY <1>1, <1>2, <1>7, <2>1, <2>2, PathPush DEF kid
<1> HIDE DEF r
<1>10. Behind(tree, u, r) = {}
  BY <1>3, <1>6, <1>7, AtEnd DEF CountOf
<1>11. /\ Split(tree, u, stack')
       /\ \A k : k \in After(tree, u, stack') <=> k \in After(tree, u, stack) \/ k \in Behind(tree, u, r)
  <2> DEFINE new == stack'
  <2>1. /\ Len(new) = Len(stack) + 1 /\ \A j \in 1..Len(stack) : new[j] = stack[j]
        /\ new[Len(stack) + 1] = r /\ r.id = KidOf(tree, Last(stack))
    BY <1>7, <1>9 DEF kid
  <2>2. TreeOK(tree) /\ SearchTree(tree, u) /\ PathOK(tree, stack) /\ Split(tree, u, stack)
    BY <1>1
  <2> HIDE DEF new
  <2>3. /\ Split(tree, u, new)
        /\ \A k : k \in After(tree, u, new) <=> k \in After(tree, u, stack) \/ k \in Behind(tree, u, r)
    BY <1>2, <2>1, <2>2, SplitPush
  <2> QED
    BY <2>3 DEF new
<1>12. After(tree, u, stack) = {}
  BY <1>1, <1>2 DEF Position
<1>13. After(tree, u, stack') = {}
  BY <1>10, <1>11, <1>12
<1>14. Position(tree', u, stack', pc', op', arg', reached')
  BY <1>2, <1>13 DEF Position
<1> QED
  BY <1>1, <1>2, <1>11, <1>14, ScanPrime DEF FoundLeast

LEMMA ScanLastLands ==
  ASSUME CursorInv, NEW u, ScanWith(u), LastLands
  PROVE  ScanWith(u)' /\ FoundLeast
<1> DEFINE k == keyValue(stack)
<1>1. /\ TreeOK(tree) /\ PathOK(tree, stack) /\ Control
      /\ SearchTree(tree, u) /\ Split(tree, u, stack)
      /\ Position(tree, u, stack, pc, op, arg, reached)
  BY DEF CursorInv, ScanWith
<1>2. /\ pc = "last_" /\ tree[Last(stack).id].leaf /\ stack # <<>> /\ op \in {"last", "prev"}
      /\ stack' = stack /\ pc' = "idle" /\ reached' = k /\ tree' = tree
  BY <1>1 DEF LastLands, Return, isLeaf, Control
<1>3. After(tree, u, stack) = {}
  BY <1>1, <1>2 DEF Position
<1>4. After(tree, u, stack) = Beyond(tree, k)
  <2>1. CASE k = Nil
    BY <1>3, <2>1 DEF Beyond
  <2>2. CASE k # Nil
    <3>1. Last(stack).index \in 0..(CountOf(tree, Last(stack)) - 1)
      BY <1>1, <1>2, <2>2, KeyValueFacts DEF count, CountOf
    <3> QED
      BY <1>1, <1>2, <3>1, Stop
  <2> QED
    BY <2>1, <2>2
<1> HIDE DEF k
<1>5. ScanWith(u)'
  BY <1>1, <1>2, <1>4, Rest
<1> QED
  BY <1>2, <1>5 DEF FoundLeast

LEMMA ScanPrevAtBeginning ==
  ASSUME CursorInv, NEW u, ScanWith(u), PrevAtBeginning
  PROVE  ScanWith(u)' /\ FoundLeast
<1>1. stack' = <<>> /\ pc = "idle" /\ pc' = "idle" /\ tree' = tree
  BY DEF PrevAtBeginning
<1>2. Split(tree, u, stack')
  BY <1>1, SplitEmpty
<1> QED
  BY <1>1, <1>2, Rest DEF FoundLeast

LEMMA ScanSeek ==
  ASSUME CursorInv, NEW u, ScanWith(u), NEW k, Seek(k)
  PROVE  ScanWith(u)' /\ FoundLeast
<1>1. stack' = <<>> /\ pc = "idle" /\ pc' = "search" /\ tree' = tree
  BY DEF Seek, Call
<1>2. Split(tree, u, stack') /\ After(tree, u, stack') = {}
  BY <1>1, SplitEmpty
<1>3. SearchTree(tree, u) /\ u[Root] = LeafKeysOf(tree)
  BY RootKeys DEF ScanWith, CursorInv
<1>4. Position(tree', u, stack', pc', op', arg', reached')
  BY <1>1, <1>2, <1>3 DEF Position
<1> QED
  BY <1>1, <1>2, <1>3, <1>4, ScanPrime DEF FoundLeast

\* search puts the page it looks at on the stack.
LEMMA SearchSplit ==
  ASSUME CursorInv, NEW u, ScanWith(u), pc = "search", NEW i \in Int,
         RefOK(tree, [id |-> SearchId, index |-> i]), Push(SearchId, i)
  PROVE  LET r == [id |-> SearchId, index |-> i]
         IN  /\ Split(tree, u, stack') /\ Last(stack') = r
             /\ \A k : k \in After(tree, u, stack')
                         <=> k \in After(tree, u, stack) \/ k \in Behind(tree, u, r)
             /\ u[SearchId] \subseteq u[Root]
             /\ SearchId = IF stack = <<>> THEN Root ELSE KidOf(tree, Last(stack))
<1> DEFINE r == [id |-> SearchId, index |-> i]
           new == stack'
<1>1. /\ TreeOK(tree) /\ PathOK(tree, stack) /\ Control
      /\ SearchTree(tree, u) /\ Split(tree, u, stack)
  BY DEF CursorInv, ScanWith
<1>2. /\ Len(new) = Len(stack) + 1 /\ Last(new) = r /\ \A j \in 1..Len(stack) : new[j] = stack[j]
      /\ new[Len(stack) + 1] = r /\ new = Append(stack, r) /\ r.id = SearchId
  BY SearchPush DEF Push
<1>3. SearchId = IF stack = <<>> THEN Root ELSE KidOf(tree, Last(stack))
  BY DEF SearchId, Child, KidOf
<1> HIDE DEF new
<1>4. CASE stack = <<>>
  <2>1. SearchId = Root /\ new = <<[id |-> Root, index |-> i]>>
    BY <1>2, <1>3, <1>4
  <2>2. After(tree, u, stack) = {}
    BY <1>4, SplitEmpty
  <2>3. Split(tree, u, new) /\ \A k : k \in After(tree, u, new) <=> k \in Behind(tree, u, r)
    BY <2>1, SplitRoot
  <2> HIDE DEF r
  <2>4. /\ Split(tree, u, new) /\ u[SearchId] \subseteq u[Root]
        /\ \A k : k \in After(tree, u, new) <=> k \in After(tree, u, stack) \/ k \in Behind(tree, u, r)
    BY <2>1, <2>2, <2>3
  <2> QED
    BY <1>2, <1>3, <2>4 DEF r, new
<1>5. CASE stack # <<>>
  <2>1. ~tree[Last(stack).id].leaf
    BY <1>1, <1>5 DEF Control, isLeaf
  <2> HIDE DEF r
  <2>2. r.id = KidOf(tree, Last(stack))
    BY <1>2, <1>3, <1>5
  <2>3. /\ Len(new) = Len(stack) + 1 /\ \A j \in 1..Len(stack) : new[j] = stack[j]
        /\ new[Len(stack) + 1] = r
    BY <1>2
  <2>4. TreeOK(tree) /\ SearchTree(tree, u) /\ PathOK(tree, stack) /\ Split(tree, u, stack)
    BY <1>1
  <2>5. /\ Split(tree, u, new) /\ u[r.id] \subseteq u[Root]
        /\ \A k : k \in After(tree, u, new) <=> k \in After(tree, u, stack) \/ k \in Behind(tree, u, r)
    BY <1>5, <2>1, <2>2, <2>3, <2>4, SplitPush
  <2> QED
    BY <1>2, <1>3, <2>5 DEF r, new
<1> QED
  BY <1>4, <1>5

\* In a branch that is a node, the child to search holds the keys from k on that are not
\* behind it.
LEMMA BranchSplit ==
  ASSUME CursorInv, NEW u, SearchTree(tree, u), NEW id \in DOMAIN tree, u[id] \subseteq u[Root],
         ~tree[id].leaf, tree[id].node, NEW k \in Nat, NEW i \in BranchIndex(id, k)
  PROVE  LET r == [id |-> id, index |-> i]
         IN  /\ \A x \in Behind(tree, u, r) : x >= k
             /\ \A x \in u[id] : x >= k => x \in u[KidOf(tree, r)] \/ x \in Behind(tree, u, r)
<1> DEFINE ks == tree[id].keys
           cs == tree[id].kids
           N == Len(ks)
           n == Cardinality({j \in DOMAIN ks : ks[j] < k})
           child(j) == IF j < N /\ ks[j + 1] = k THEN j ELSE Max({j - 1, 0})
           r == [id |-> id, index |-> i]
<1>1. /\ ks \in Seq(Nat) /\ N \in Nat /\ N > 0 /\ DOMAIN ks = 1..N
      /\ \A j \in 1..N : ks[j] \in Nat
      /\ \A a, b \in 1..N : a < b => ks[a] < ks[b]
      /\ DOMAIN cs = 1..N /\ Len(cs) = N
  BY PageFacts DEF CursorInv
<1>2. /\ n \in 0..N /\ \A j \in 1..n : ks[j] < k
      /\ \A j \in (n + 1)..N : k <= ks[j]
  <2> HIDE DEF ks
  <2> QED
    BY <1>1, LowerBound
<1>3. lower_bound(id, k) = {n}
  BY DEF lower_bound
<1>4. i = child(n)
  <2>1. BranchIndex(id, k) = {child(j) : j \in lower_bound(id, k)}
    BY DEF BranchIndex
  <2> HIDE DEF child, n
  <2> QED
    BY <1>3, <2>1
<1> HIDE DEF n
<1>5. Max({n - 1, 0}) = IF n - 1 >= 0 THEN n - 1 ELSE 0
  BY <1>2, MaxPair
<1>6. \/ n < N /\ ks[n + 1] = k /\ i = n
      \/ i = (IF n - 1 >= 0 THEN n - 1 ELSE 0)
  BY <1>4, <1>5
<1>7. i \in 0..(N - 1)
  <2> HIDE DEF ks
  <2> QED
    BY <1>1, <1>2, <1>6
<1>8. \A m \in 1..N : Part(tree, u, id, m) = u[cs[m]]
  BY DEF Part
<1>9. \A m \in 1..N : \A x \in u[cs[m]] : /\ x \in Nat
                                          /\ m > 1 => ks[m] <= x
                                          /\ m < N => x < ks[m + 1]
  <2> SUFFICES ASSUME NEW m \in 1..N, NEW x \in u[cs[m]]
               PROVE  x \in Nat /\ (m > 1 => ks[m] <= x) /\ (m < N => x < ks[m + 1])
    OBVIOUS
  <2>1. m \in DOMAIN cs
    BY <1>1
  <2>2. (m > 1 => ks[m] <= x) /\ (m < Len(cs) => x < ks[m + 1]) /\ x \in u[id]
    BY <2>1 DEF SearchTree
  <2>3. x \in Nat
    BY <2>2, RootKeys DEF CursorInv
  <2> QED
    BY <1>1, <2>2, <2>3
<1>10. \A x : x \in u[id] <=> \E m \in 1..N : x \in Part(tree, u, id, m)
  BY PartFacts DEF CursorInv
<1>11. r.id = id /\ r.index = i /\ CountOf(tree, r) = N /\ KidOf(tree, r) = cs[i + 1]
  BY DEF CountOf, KidOf
<1>12. \A x : x \in Behind(tree, u, r) <=> \E m \in 1..N : m > i + 1 /\ x \in u[cs[m]]
  <2> HIDE DEF r, ks, cs
  <2>1. \A x : x \in Behind(tree, u, r) <=> \E m \in 1..N : m > i + 1 /\ x \in Part(tree, u, id, m)
    BY <1>11, BehindFacts
  <2> QED
    BY <1>8, <2>1
<1> HIDE DEF r, ks, cs, N
<1>13. ASSUME NEW x \in Behind(tree, u, r) PROVE x >= k
  <2>1. PICK m \in 1..N : m > i + 1 /\ x \in u[cs[m]]
    BY <1>12, <1>13
  <2>2. m > 1 /\ x \in Nat /\ ks[m] <= x /\ ks[m] \in Nat
    BY <1>1, <1>7, <1>9, <2>1
  <2>3. m \in (n + 1)..N
    BY <1>1, <1>2, <1>6, <1>7, <2>1
  <2> QED
    BY <1>2, <2>2, <2>3
<1>14. ASSUME NEW x \in u[id], x >= k PROVE x \in u[KidOf(tree, r)] \/ x \in Behind(tree, u, r)
  <2>1. PICK m \in 1..N : x \in u[cs[m]]
    BY <1>8, <1>10, <1>14
  <2>2. CASE m >= i + 1
    BY <1>7, <1>11, <1>12, <2>1, <2>2
  <2>3. CASE m < i + 1
    <3>1. m < N /\ x \in Nat /\ x < ks[m + 1] /\ m + 1 \in 1..N
      BY <1>1, <1>7, <1>9, <2>1, <2>3
    <3>2. ks[m + 1] <= k
      <4>1. CASE n < N /\ ks[n + 1] = k /\ i = n
        <5>1. m + 1 = n + 1 \/ m + 1 \in 1..n
          BY <1>1, <1>2, <2>3, <4>1
        <5> QED
          BY <1>1, <1>2, <3>1, <4>1, <5>1
      <4>2. CASE i = (IF n - 1 >= 0 THEN n - 1 ELSE 0)
        <5>1. m + 1 \in 1..n
          BY <1>1, <1>2, <2>3, <4>2
        <5> QED
          BY <1>1, <1>2, <3>1, <5>1
      <4> QED
        BY <1>6, <4>1, <4>2
    <3>3. ks[m + 1] \in Nat
      BY <1>1, <3>1
    <3> QED
      BY <1>14, <3>1, <3>2, <3>3
  <2> QED
    BY <1>1, <1>7, <2>2, <2>3
<1> QED
  BY <1>13, <1>14 DEF r

LEMMA ScanSearchBranch ==
  ASSUME CursorInv, NEW u, ScanWith(u), SearchBranch
  PROVE  ScanWith(u)' /\ FoundLeast
<1> DEFINE id == SearchId
<1>1. /\ TreeOK(tree) /\ PathOK(tree, stack) /\ Control
      /\ SearchTree(tree, u) /\ Split(tree, u, stack)
      /\ Position(tree, u, stack, pc, op, arg, reached)
  BY DEF CursorInv, ScanWith
<1>2. /\ pc = "search" /\ ~tree[id].leaf
      /\ pc' = "search" /\ UNCHANGED <<tree, op, arg, ret, reached, aborted>>
  BY DEF SearchBranch, Goto
<1>3. PICK i \in BranchIndex(id, arg) : Push(id, i)
  BY DEF SearchBranch
<1> DEFINE r == [id |-> id, index |-> i]
<1>4. i \in 0..(Len(tree[id].keys) - 1) /\ id \in DOMAIN tree /\ arg \in Nat
  BY <1>2, <1>3, SearchFacts
<1>5. RefOK(tree, r)
  BY <1>2, <1>4 DEF RefOK, CountOf
<1>6. /\ Split(tree, u, stack') /\ Last(stack') = r
      /\ \A k : k \in After(tree, u, stack') <=> k \in After(tree, u, stack) \/ k \in Behind(tree, u, r)
      /\ u[id] \subseteq u[Root]
      /\ id = IF stack = <<>> THEN Root ELSE KidOf(tree, Last(stack))
  BY <1>2, <1>3, <1>4, <1>5, SearchSplit
<1>7. stack' # <<>>
  BY <1>2, <1>3, <1>4, <1>5, SearchPush
<1>8. ASSUME Tracked(tree, op)
      PROVE  /\ \A k \in After(tree, u, stack') : k >= arg
             /\ \A k \in LeafKeysOf(tree) : k >= arg =>
                  k \in After(tree, u, stack') \/ k \in u[KidOf(tree, Last(stack'))]
  <2>1. /\ \A k \in After(tree, u, stack) : k >= arg
        /\ \A k \in LeafKeysOf(tree) : k >= arg => k \in After(tree, u, stack) \/ k \in u[id]
    BY <1>1, <1>2, <1>6, <1>8 DEF Position
  <2>2. tree[id].node
    BY <1>1, <1>2, <1>4, <1>8 DEF Tracked, Control
  <2>3. /\ \A x \in Behind(tree, u, r) : x >= arg
        /\ \A x \in u[id] : x >= arg => x \in u[KidOf(tree, r)] \/ x \in Behind(tree, u, r)
    <3> HIDE DEF id
    <3> QED
      BY <1>1, <1>2, <1>3, <1>4, <1>6, <2>2, BranchSplit
  <2> HIDE DEF id, r
  <2> QED
    BY <1>6, <2>1, <2>3
<1>9. Position(tree', u, stack', pc', op', arg', reached')
  BY <1>2, <1>7, <1>8 DEF Position
<1> QED
  BY <1>1, <1>2, <1>6, <1>9, ScanPrime DEF FoundLeast

\* In a leaf that is a node, lower_bound separates the keys from k on.
LEMMA LeafSplit ==
  ASSUME CursorInv, NEW u, SearchTree(tree, u), NEW id \in DOMAIN tree, u[id] \subseteq u[Root],
         tree[id].leaf, tree[id].node, NEW k \in Nat, NEW i \in lower_bound(id, k)
  PROVE  LET r == [id |-> id, index |-> i]
         IN  /\ \A x \in Behind(tree, u, r) \cup Here(tree, u, r) : x >= k
             /\ \A x \in u[id] : x >= k => x \in Here(tree, u, r) \/ x \in Behind(tree, u, r)
<1> DEFINE ks == tree[id].keys
           N == Len(ks)
           n == Cardinality({j \in DOMAIN ks : ks[j] < k})
           r == [id |-> id, index |-> i]
<1>1. /\ ks \in Seq(Nat) /\ N \in Nat /\ DOMAIN ks = 1..N
      /\ \A j \in 1..N : ks[j] \in Nat
      /\ \A a, b \in 1..N : a < b => ks[a] < ks[b]
  BY PageFacts DEF CursorInv
<1>2. /\ n \in 0..N /\ \A j \in 1..n : ks[j] < k
      /\ \A j \in (n + 1)..N : k <= ks[j]
  <2> HIDE DEF ks
  <2> QED
    BY <1>1, LowerBound
<1>3. i = n
  BY DEF lower_bound
<1> HIDE DEF n
<1>4. \A m \in 1..N : \A x : x \in Part(tree, u, id, m) <=> x = ks[m]
  BY DEF Part
<1>5. \A x : x \in u[id] <=> \E m \in 1..N : x \in Part(tree, u, id, m)
  BY PartFacts DEF CursorInv
<1>6. r.id = id /\ r.index = i /\ CountOf(tree, r) = N
  BY DEF CountOf
<1> HIDE DEF r, ks
<1>7. /\ \A x : x \in Behind(tree, u, r) <=> \E m \in 1..N : m > i + 1 /\ x = ks[m]
      /\ \A x : x \in Here(tree, u, r) <=> \E m \in 1..N : m = i + 1 /\ x = ks[m]
  BY <1>4, <1>6, BehindFacts
<1> HIDE DEF N
<1>8. ASSUME NEW x \in Behind(tree, u, r) \cup Here(tree, u, r) PROVE x >= k
  <2>1. PICK m \in 1..N : m >= i + 1 /\ x = ks[m]
    BY <1>1, <1>2, <1>3, <1>7, <1>8
  <2>2. m \in (n + 1)..N /\ ks[m] \in Nat
    BY <1>1, <1>2, <1>3, <2>1
  <2> QED
    BY <1>2, <2>1, <2>2
<1>9. ASSUME NEW x \in u[id], x >= k PROVE x \in Here(tree, u, r) \/ x \in Behind(tree, u, r)
  <2>1. PICK m \in 1..N : x = ks[m]
    BY <1>4, <1>5, <1>9
  <2>2. m >= i + 1
    <3> SUFFICES ASSUME ~(m >= i + 1) PROVE FALSE
      OBVIOUS
    <3>1. m \in 1..n /\ ks[m] \in Nat
      BY <1>1, <1>2, <1>3, <2>1
    <3> QED
      BY <1>2, <1>9, <2>1, <3>1
  <2>3. m = i + 1 \/ m > i + 1
    BY <1>2, <1>3, <2>2
  <2>4. \/ \E j \in 1..N : j > i + 1 /\ x = ks[j]
        \/ \E j \in 1..N : j = i + 1 /\ x = ks[j]
    BY <2>1, <2>3
  <2> QED
    BY <1>7, <2>4
<1> QED
  BY <1>8, <1>9 DEF r

LEMMA ScanSearchLeaf ==
  ASSUME CursorInv, NEW u, ScanWith(u), SearchLeaf
  PROVE  ScanWith(u)' /\ FoundLeast
<1> DEFINE id == SearchId
<1>1. /\ TreeOK(tree) /\ PathOK(tree, stack) /\ Control
      /\ SearchTree(tree, u) /\ Split(tree, u, stack)
      /\ Position(tree, u, stack, pc, op, arg, reached)
  BY DEF CursorInv, ScanWith
<1>2. pc = "search" /\ tree[id].leaf /\ op = "seek"
  BY <1>1 DEF SearchLeaf, Control
<1>3. PICK i \in lower_bound(id, arg) :
        /\ Push(id, i)
        /\ IF i >= Len(tree[id].keys) THEN Goto("next_") ELSE NextEnds(keyValue(stack'), stack')
  BY DEF SearchLeaf
<1> DEFINE r == [id |-> id, index |-> i]
<1>4. i \in 0..Len(tree[id].keys) /\ id \in DOMAIN tree /\ arg \in Nat
  BY <1>2, <1>3, SearchFacts
<1>5. Len(tree[id].keys) \in Nat
  BY <1>1, <1>4, PageFacts
<1>6. RefOK(tree, r)
  BY <1>2, <1>4 DEF RefOK, CountOf
<1>7. /\ Split(tree, u, stack') /\ Last(stack') = r
      /\ \A k : k \in After(tree, u, stack') <=> k \in After(tree, u, stack) \/ k \in Behind(tree, u, r)
      /\ u[id] \subseteq u[Root]
      /\ id = IF stack = <<>> THEN Root ELSE KidOf(tree, Last(stack))
  BY <1>2, <1>3, <1>4, <1>6, SearchSplit
<1>8. PathOK(tree, stack') /\ stack' # <<>>
  BY <1>2, <1>3, <1>4, <1>6, SearchPush
<1>9. /\ u[Root] \subseteq Nat /\ u[Root] = LeafKeysOf(tree)
      /\ Wanted(tree, op, arg, reached) = {k \in u[Root] : k >= arg}
  BY <1>1, <1>2, WantedFacts
<1>10. r.id = id /\ r.index = i /\ CountOf(tree, r) = Len(tree[id].keys)
  BY DEF CountOf
<1>11. ASSUME Tracked(tree, op) PROVE Ahead(tree, u, stack') = Wanted(tree, op, arg, reached)
  <2>1. /\ \A k \in After(tree, u, stack) : k >= arg
        /\ \A k \in LeafKeysOf(tree) : k >= arg => k \in After(tree, u, stack) \/ k \in u[id]
    BY <1>1, <1>2, <1>7, <1>11 DEF Position
  <2>2. tree[id].node
    BY <1>1, <1>2, <1>4, <1>11 DEF Tracked, Control
  <2>3. /\ \A x \in Behind(tree, u, r) \cup Here(tree, u, r) : x >= arg
        /\ \A x \in u[id] : x >= arg => x \in Here(tree, u, r) \/ x \in Behind(tree, u, r)
    <3> HIDE DEF id
    <3> QED
      BY <1>1, <1>2, <1>3, <1>4, <1>7, <2>2, LeafSplit
  <2>4. After(tree, u, stack') \subseteq u[Root] /\ Here(tree, u, r) \subseteq u[Root]
    <3>1. After(tree, u, stack') \subseteq u[Root]
      BY <1>1, <1>7, <1>8, AfterInTree
    <3>2. \A k : k \in u[id] <=> \E m \in 1..Len(tree[id].keys) : k \in Part(tree, u, id, m)
      BY <1>1, <1>4, <1>7, PartFacts
    <3> HIDE DEF r, id
    <3>3. Here(tree, u, r) \subseteq u[id]
      BY <1>10, <3>2, BehindFacts
    <3> QED
      BY <1>7, <3>1, <3>3
  <2> HIDE DEF id, r
  <2>5. \A k : k \in Ahead(tree, u, stack') <=> k \in After(tree, u, stack') \/ k \in Here(tree, u, r)
    BY <1>7, AfterFacts
  <2>6. \A k \in Ahead(tree, u, stack') : k \in u[Root] /\ k >= arg
    BY <1>7, <2>1, <2>3, <2>4, <2>5
  <2>7. \A k \in u[Root] : k >= arg => k \in Ahead(tree, u, stack')
    BY <1>7, <1>9, <2>1, <2>3, <2>5
  <2> QED
    BY <1>9, <2>6, <2>7
<1>12. CASE i >= Len(tree[id].keys)
  <2>1. pc' = "next_" /\ UNCHANGED <<tree, op, arg, ret, reached, aborted>>
    BY <1>3, <1>12 DEF Goto
  <2> HIDE DEF r
  <2>2. Here(tree, u, r) = {}
    BY <1>4, <1>5, <1>10, <1>12 DEF Here
  <2>3. Ahead(tree, u, stack') = After(tree, u, stack')
    BY <1>7, <2>2 DEF Ahead
  <2>4. Position(tree', u, stack', pc', op', arg', reached')
    BY <1>11, <2>1, <2>3 DEF Position
  <2> QED
    BY <1>1, <1>7, <2>1, <2>4, ScanPrime DEF FoundLeast
<1>13. CASE ~(i >= Len(tree[id].keys))
  <2> DEFINE new == stack'
             k == keyValue(new)
  <2>1. NextEnds(k, new)
    BY <1>3, <1>13
  <2>2. tree[Last(new).id].leaf
    BY <1>2, <1>7
  <2>3. pc' = "idle" /\ tree' = tree /\ reached' = k
    BY <1>2, <1>8, <2>1, <2>2, NextEndsKeeps
  <2>4. Last(new).index \in 0..(CountOf(tree, Last(new)) - 1)
    <3> HIDE DEF r
    <3> QED
      BY <1>4, <1>5, <1>7, <1>10, <1>13
  <2>5. /\ PathOK(tree, new) /\ new # <<>> /\ Split(tree, u, new)
    BY <1>7, <1>8
  <2> HIDE DEF new
  <2>6. /\ k \in u[Root] /\ k \in Nat /\ k # Nil
        /\ After(tree, u, new) = Beyond(tree, k)
        /\ \A x : x \in Ahead(tree, u, new) <=> x \in After(tree, u, new) \/ x = k
        /\ \A x \in Ahead(tree, u, new) : k <= x
    BY <1>1, <2>2, <2>4, <2>5, Stop
  <2> HIDE DEF k
  <2>7. ScanWith(u)'
    BY <1>1, <1>7, <2>3, <2>6, Rest DEF new
  <2>8. Tracked(tree, op) => reached' = Least(Wanted(tree, op, arg, reached))
    <3> SUFFICES ASSUME Tracked(tree, op) PROVE reached' = Least(Ahead(tree, u, new))
      BY <1>11 DEF new
    <3>1. Ahead(tree, u, new) \subseteq Nat
      BY <1>9, <1>11 DEF new
    <3> QED
      BY <2>3, <2>6, <3>1, LeastIs
  <2> QED
    BY <1>2, <2>7, <2>8 DEF FoundLeast
<1> QED
  BY <1>12, <1>13

-----------------------------------------------------------------------------
(* deleteCurrent, on the keys ahead of the cursor.                         *)

\* The keys under the pages, without one of them.
Without(t, u, k) == [id \in DOMAIN t |-> u[id] \ {k}]

\* A leaf without its n-th key is still a leaf of a search tree.
LEMMA RemovedSearchTree ==
  ASSUME NEW t, TreeOK(t), NEW u, SearchTree(t, u), NEW id \in DOMAIN t, t[id].leaf,
         NEW n \in 1..Len(t[id].keys)
  PROVE  SearchTree(Removed(t, id, n), Without(t, u, t[id].keys[n]))
<1> DEFINE old == t[id].keys
           k == old[n]
           new == Removed(t, id, n)
           w == Without(t, u, k)
           ks == new[id].keys
<1>1. /\ old \in Seq(Nat) /\ Len(old) \in Nat /\ DOMAIN old = 1..Len(old)
      /\ \A i \in 1..Len(old) : old[i] \in Nat
      /\ \A i, j \in 1..Len(old) : i < j => old[i] < old[j]
  BY PageFacts
<1>2. /\ TreeOK(new) /\ DOMAIN new = DOMAIN t
      /\ \A a \in DOMAIN t : a # id => new[a] = t[a]
      /\ new[id].leaf /\ new[id].node = t[id].node
      /\ Len(ks) = Len(old) - 1
      /\ \A j \in 1..(n - 1) : ks[j] = old[j]
      /\ \A j \in n..(Len(old) - 1) : ks[j] = old[j + 1]
  <2>1. IsRemoved(new, t, id, n)
    BY RemovedFacts
  <2> HIDE DEF new
  <2> QED
    BY <2>1 DEF IsRemoved
<1>3. DOMAIN ks = 1..Len(ks)
  <2> HIDE DEF new
  <2> QED
    BY <1>2, PageFacts
<1>4. DOMAIN w = DOMAIN t /\ \A a \in DOMAIN t : \A x : x \in w[a] <=> x \in u[a] /\ x # k
  BY DEF Without
<1> HIDE DEF new, w, k
<1>5. \A x : x \in ToSet(ks) <=> x \in ToSet(old) /\ x # k
  <2> HIDE DEF ks
  <2>1. ASSUME NEW x \in ToSet(ks) PROVE x \in ToSet(old) /\ x # k
    <3>1. PICK j \in 1..Len(ks) : x = ks[j]
      BY <1>3, <2>1 DEF ToSet
    <3>2. CASE j < n
      <4>1. j \in 1..(n - 1) /\ j \in 1..Len(old) /\ x = old[j]
        BY <1>1, <1>2, <3>1, <3>2
      <4>2. x < old[n]
        BY <1>1, <3>2, <4>1
      <4>3. old[n] \in Nat /\ x \in Nat
        BY <1>1, <4>1
      <4>4. x # k
        BY <4>2, <4>3 DEF k
      <4>5. x \in ToSet(old)
        BY <1>1, <4>1 DEF ToSet
      <4> QED
        BY <4>4, <4>5
    <3>3. CASE j >= n
      <4>1. j \in n..(Len(old) - 1) /\ j + 1 \in 1..Len(old) /\ x = old[j + 1] /\ n < j + 1
        BY <1>1, <1>2, <3>1, <3>3
      <4>2. old[n] < x
        BY <1>1, <4>1
      <4>3. old[n] \in Nat /\ x \in Nat
        BY <1>1, <4>1
      <4>4. x # k
        BY <4>2, <4>3 DEF k
      <4>5. x \in ToSet(old)
        BY <1>1, <4>1 DEF ToSet
      <4> QED
        BY <4>4, <4>5
    <3> QED
      BY <1>1, <1>2, <3>1, <3>2, <3>3
  <2>2. ASSUME NEW x \in ToSet(old), x # k PROVE x \in ToSet(ks)
    <3>1. PICK j \in 1..Len(old) : x = old[j]
      BY <1>1, <2>2 DEF ToSet
    <3>2. j # n
      BY <2>2, <3>1 DEF k
    <3>3. CASE j < n
      <4>1. j \in 1..(n - 1) /\ j \in 1..Len(ks) /\ x = ks[j]
        BY <1>1, <1>2, <3>1, <3>3
      <4> QED
        BY <1>3, <4>1 DEF ToSet
    <3>4. CASE j > n
      <4>1. j - 1 \in n..(Len(old) - 1) /\ j - 1 \in 1..Len(ks) /\ (j - 1) + 1 = j
        BY <1>1, <1>2, <3>1, <3>4
      <4>2. x = ks[j - 1]
        BY <1>2, <3>1, <4>1
      <4> QED
        BY <1>3, <4>1, <4>2 DEF ToSet
    <3> QED
      BY <1>1, <3>1, <3>2, <3>3, <3>4
  <2> QED
    BY <2>1, <2>2
<1>6. k \in ToSet(old) /\ u[id] = ToSet(old)
  BY <1>1 DEF k, SearchTree, ToSet
<1>7. \A a \in DOMAIN t : t[a].leaf /\ a # id => k \notin u[a]
  <2> SUFFICES ASSUME NEW a \in DOMAIN t, t[a].leaf, a # id, k \in u[a] PROVE FALSE
    OBVIOUS
  <2>1. u[a] \cap u[id] = {}
    BY DEF SearchTree
  <2> QED
    BY <1>6, <2>1
<1>8. \A a \in DOMAIN t : new[a].leaf <=> t[a].leaf
  BY <1>2
<1>9. \A a \in DOMAIN t : t[a].leaf => u[a] = ToSet(t[a].keys)
  BY DEF SearchTree
<1>10. \A a \in DOMAIN t : t[a].leaf => w[a] = ToSet(new[a].keys)
  <2> SUFFICES ASSUME NEW a \in DOMAIN t, t[a].leaf PROVE w[a] = ToSet(new[a].keys)
    OBVIOUS
  <2>1. CASE a = id
    BY <1>4, <1>5, <1>6, <2>1
  <2>2. CASE a # id
    BY <1>2, <1>4, <1>7, <1>9, <2>2
  <2> QED
    BY <2>1, <2>2
<1>11. w[Root] = LeafKeysOf(new)
  <2>1. u[Root] = LeafKeysOf(t) /\ Root \in DOMAIN t
    BY DEF SearchTree, TreeOK
  <2>2. \A x : x \in LeafKeysOf(new) <=> \E a \in DOMAIN t : t[a].leaf /\ x \in ToSet(new[a].keys)
    BY <1>2, <1>8 DEF LeafKeysOf
  <2>3. \A x : x \in LeafKeysOf(t) <=> \E a \in DOMAIN t : t[a].leaf /\ x \in ToSet(t[a].keys)
    BY DEF LeafKeysOf
  <2>4. \A x : x \in LeafKeysOf(new) <=> x \in LeafKeysOf(t) /\ x # k
    BY <1>4, <1>9, <1>10, <2>2, <2>3
  <2> QED
    BY <1>4, <2>1, <2>4
<1>12. ASSUME NEW a \in DOMAIN new, ~new[a].leaf
       PROVE  /\ w[a] = UNION {w[new[a].kids[i]] : i \in DOMAIN new[a].kids}
              /\ \A i \in DOMAIN new[a].kids : \A x \in w[new[a].kids[i]] :
                   /\ i > 1 => new[a].keys[i] <= x
                   /\ i < Len(new[a].kids) => x < new[a].keys[i + 1]
  <2> DEFINE cs == t[a].kids
  <2>1. a \in DOMAIN t /\ ~t[a].leaf /\ new[a] = t[a]
    BY <1>2, <1>8, <1>12
  <2>2. \A i \in DOMAIN cs : cs[i] \in DOMAIN t
    BY <2>1, PageFacts
  <2>3. /\ u[a] = UNION {u[cs[i]] : i \in DOMAIN cs}
        /\ \A i \in DOMAIN cs : \A x \in u[cs[i]] :
             /\ i > 1 => t[a].keys[i] <= x
             /\ i < Len(cs) => x < t[a].keys[i + 1]
    BY <2>1 DEF SearchTree
  <2> HIDE DEF cs
  <2>4. \A i \in DOMAIN cs : \A x : x \in w[cs[i]] <=> x \in u[cs[i]] /\ x # k
    BY <1>4, <2>2
  <2>5. w[a] = UNION {w[cs[i]] : i \in DOMAIN cs}
    <3>1. \A x : x \in u[a] <=> \E i \in DOMAIN cs : x \in u[cs[i]]
      BY <2>3
    <3>2. \A x : x \in w[a] <=> \E i \in DOMAIN cs : x \in w[cs[i]]
      BY <1>4, <2>1, <2>4, <3>1
    <3> QED
      BY <3>2
  <2>6. \A i \in DOMAIN cs : \A x \in w[cs[i]] :
             /\ i > 1 => t[a].keys[i] <= x
             /\ i < Len(cs) => x < t[a].keys[i + 1]
    BY <2>3, <2>4
  <2> QED
    BY <2>1, <2>5, <2>6 DEF cs
<1>13. \A a, b \in {i \in DOMAIN new : new[i].leaf} : a # b => w[a] \cap w[b] = {}
  <2> SUFFICES ASSUME NEW a \in DOMAIN new, NEW b \in DOMAIN new, new[a].leaf, new[b].leaf, a # b
               PROVE  w[a] \cap w[b] = {}
    OBVIOUS
  <2>1. a \in DOMAIN t /\ b \in DOMAIN t /\ t[a].leaf /\ t[b].leaf
    BY <1>2, <1>8
  <2>2. u[a] \cap u[b] = {}
    BY <2>1 DEF SearchTree
  <2> QED
    BY <1>4, <2>1, <2>2
<1>14. SearchTree(new, w)
  BY <1>2, <1>8, <1>10, <1>11, <1>12, <1>13 DEF SearchTree
<1> QED
  BY <1>14 DEF new, w, k

\* deleteCurrent takes the key from what is ahead of the cursor, which stays where it is: on
\* the key that follows in the leaf, or past the last one.
LEMMA ScanDelete ==
  ASSUME CursorInv, NEW u, ScanWith(u), Delete
  PROVE  (\E w : ScanWith(w)') /\ FoundLeast
<1> DEFINE ref == Last(stack)
           id == ref.id
           n == ref.index + 1
           N == Len(stack)
           old == tree[id].keys
           k == old[n]
           w == Without(tree, u, k)
           ks == tree'[id].keys
<1>1. /\ TreeOK(tree) /\ PathOK(tree, stack) /\ Control
      /\ SearchTree(tree, u) /\ Split(tree, u, stack)
      /\ Position(tree, u, stack, pc, op, arg, reached)
  BY DEF CursorInv, ScanWith
<1>2. /\ stack # <<>> /\ pc = "idle" /\ tree[id].leaf /\ id \in DOMAIN tree
      /\ ref.index \in 0..(Len(old) - 1) /\ n \in 1..Len(old)
      /\ tree' = Removed(tree, id, n)
      /\ reached' = IF reached # Nil /\ ref.index < Len(ks) THEN ks[n] ELSE reached
      /\ UNCHANGED <<stack, pc, op, arg, ret, aborted>>
  BY DeleteFacts
<1>3. /\ DOMAIN tree' = DOMAIN tree
      /\ \A a \in DOMAIN tree : a # id => tree'[a] = tree[a]
      /\ tree'[id].leaf /\ Len(ks) = Len(old) - 1
  <2> HIDE DEF id, n
  <2>1. IsRemoved(tree', tree, id, n)
    BY <1>1, <1>2, RemovedFacts
  <2> QED
    BY <2>1 DEF IsRemoved
<1>4. SearchTree(tree', w)
  <2> HIDE DEF id, n
  <2> QED
    BY <1>1, <1>2, RemovedSearchTree
<1>5. TreeOK(tree') /\ PathOK(tree', stack)
  BY <1>2, DeleteKeeps DEF CursorInv
<1>6. Len(old) \in Nat
  BY <1>1, <1>2, PageFacts
<1>7. /\ N \in Nat /\ N > 0 /\ ref = stack[N] /\ ref.index \in Int
      /\ \A j \in 1..N : stack[j].id \in DOMAIN tree /\ stack[j].index \in Int
  BY <1>1, <1>2, TopFacts
<1>8. \A j \in 1..(N - 1) : ~tree[stack[j].id].leaf /\ j \in 1..N
  BY <1>1, <1>7 DEF PathOK
<1>9. DOMAIN w = DOMAIN tree /\ \A a \in DOMAIN tree : \A x : x \in w[a] <=> x \in u[a] /\ x # k
  BY DEF Without
<1> HIDE DEF w, k
<1>10. Root \in DOMAIN tree
  BY <1>1 DEF TreeOK
\* Only the keys behind the leaf itself change otherwise.
<1>11. \A j \in 1..(N - 1) : \A x : x \in Behind(tree', w, stack[j])
                                      <=> x \in Behind(tree, u, stack[j]) /\ x # k
  <2> SUFFICES ASSUME NEW j \in 1..(N - 1), NEW x
               PROVE  x \in Behind(tree', w, stack[j]) <=> x \in Behind(tree, u, stack[j]) /\ x # k
    OBVIOUS
  <2> DEFINE a == stack[j].id
  <2>1. a \in DOMAIN tree /\ ~tree[a].leaf /\ tree'[a] = tree[a]
    BY <1>2, <1>3, <1>7, <1>8
  <2>2. \A m \in 1..Len(tree[a].keys) : x \in Part(tree', w, a, m) <=> x \in Part(tree, u, a, m) /\ x # k
    <3> SUFFICES ASSUME NEW m \in 1..Len(tree[a].keys)
                 PROVE  x \in Part(tree', w, a, m) <=> x \in Part(tree, u, a, m) /\ x # k
      OBVIOUS
    <3>1. tree[a].kids[m] \in DOMAIN tree
      BY <1>1, <2>1, PageFacts
    <3>2. Part(tree', w, a, m) = w[tree[a].kids[m]] /\ Part(tree, u, a, m) = u[tree[a].kids[m]]
      BY <2>1 DEF Part
    <3> QED
      BY <1>9, <3>1, <3>2
  <2>3. CountOf(tree', stack[j]) = Len(tree[a].keys) /\ CountOf(tree, stack[j]) = Len(tree[a].keys)
    BY <2>1 DEF CountOf
  <2> QED
    BY <2>2, <2>3, BehindFacts
<1>12. Split(tree', w, stack)
  <2> SUFFICES ASSUME NEW j \in 1..N
               PROVE  /\ \A i \in 1..j : w[stack[j].id] \subseteq w[stack[i].id]
                      /\ \A x \in w[Root] :
                           \/ x \in w[stack[j].id]
                           \/ \A l \in w[stack[j].id] : x < l
                           \/ \E i \in 1..(j - 1) : x \in Behind(tree', w, stack[i])
    BY DEF Split
  <2>1. /\ \A i \in 1..j : u[stack[j].id] \subseteq u[stack[i].id]
        /\ \A x \in u[Root] :
             \/ x \in u[stack[j].id]
             \/ \A l \in u[stack[j].id] : x < l
             \/ \E i \in 1..(j - 1) : x \in Behind(tree, u, stack[i])
    BY <1>1 DEF Split
  <2>2. \A i \in 1..j : i \in 1..N
    BY <1>7
  <2>3. \A i \in 1..(j - 1) : i \in 1..(N - 1)
    BY <1>7
  <2>4. \A i \in 1..j : w[stack[j].id] \subseteq w[stack[i].id]
    BY <1>7, <1>9, <2>1, <2>2
  <2>5. ASSUME NEW x \in w[Root]
        PROVE  \/ x \in w[stack[j].id]
               \/ \A l \in w[stack[j].id] : x < l
               \/ \E i \in 1..(j - 1) : x \in Behind(tree', w, stack[i])
    <3>1. x \in u[Root] /\ x # k
      BY <1>9, <1>10, <2>5
    <3>2. stack[j].id \in DOMAIN tree
      BY <1>7
    <3>3. CASE x \in u[stack[j].id]
      BY <1>9, <3>1, <3>2, <3>3
    <3>4. CASE \A l \in u[stack[j].id] : x < l
      BY <1>9, <3>2, <3>4
    <3>5. CASE \E i \in 1..(j - 1) : x \in Behind(tree, u, stack[i])
      BY <1>11, <2>3, <3>1, <3>5
    <3> QED
      BY <2>1, <3>1, <3>3, <3>4, <3>5
  <2> QED
    BY <2>4, <2>5
<1>13. After(tree, u, stack) = Beyond(tree, reached)
  BY <1>1, <1>2 DEF Position
<1>14. /\ k \in u[Root] /\ k \in Nat
       /\ \A x : x \in After(tree, u, stack) <=> x \in u[Root] /\ x > k
  BY <1>1, <1>2, Land DEF k, CountOf
<1>15. /\ u[Root] = LeafKeysOf(tree) /\ w[Root] = LeafKeysOf(tree')
       /\ w[Root] \subseteq Nat
  BY <1>1, <1>4, <1>5, RootKeys
<1>16. After(tree', w, stack) = Beyond(tree', reached')
  <2>1. CASE ref.index < Len(ks)
    <3>1. tree'[id].leaf /\ ref.index \in 0..(CountOf(tree', ref) - 1)
      BY <1>2, <1>3, <1>6, <1>7, <2>1 DEF CountOf
    <3>2. /\ ks[n] \in w[Root] /\ ks[n] \in Nat
          /\ \A x : x \in After(tree', w, stack) <=> x \in w[Root] /\ x > ks[n]
      BY <1>2, <1>4, <1>5, <1>12, <3>1, Land
    <3>3. reached # Nil
      <4> SUFFICES ASSUME reached = Nil PROVE FALSE
        OBVIOUS
      <4>1. After(tree, u, stack) = {}
        BY <1>13 DEF Beyond
      <4>2. n + 1 \in 1..Len(old) /\ n < n + 1
        BY <1>2, <1>3, <1>6, <1>7, <2>1
      <4>3. old[n] < old[n + 1] /\ old[n + 1] \in ToSet(old)
        <5>1. /\ \A i, j \in 1..Len(old) : i < j => old[i] < old[j]
              /\ DOMAIN old = 1..Len(old)
          BY <1>1, <1>2, PageFacts
        <5> HIDE DEF old, n
        <5> QED
          BY <1>2, <4>2, <5>1 DEF ToSet
      <4>4. old[n + 1] \in u[Root]
        BY <1>2, <1>15, <4>3 DEF LeafKeysOf
      <4>5. old[n + 1] \in Nat
        BY <1>1, <4>4, RootKeys
      <4>6. old[n + 1] > k
        BY <1>14, <4>3, <4>5 DEF k
      <4> QED
        BY <1>14, <4>1, <4>4, <4>6
    <3>4. reached' = ks[n] /\ reached' # Nil
      BY <1>2, <2>1, <3>2, <3>3, CursorAssumption DEF CursorAssumption
    <3>5. Beyond(tree', reached') = {x \in w[Root] : x > ks[n]}
      BY <1>15, <3>4 DEF Beyond
    <3> QED
      BY <3>2, <3>5
  <2>2. CASE ~(ref.index < Len(ks))
    <3>1. reached' = reached
      BY <1>2, <2>2
    <3>2. Behind(tree', w, ref) = {} /\ Behind(tree, u, ref) = {}
      <4>1. CountOf(tree', ref) = Len(ks) /\ CountOf(tree, ref) = Len(old)
        BY DEF CountOf
      <4> HIDE DEF ref, ks, old
      <4> QED
        BY <1>3, <1>6, <1>7, <2>2, <4>1, AtEnd
    <3>3. \A x : x \in After(tree', w, stack) <=> x \in After(tree, u, stack) /\ x # k
      <4> SUFFICES ASSUME NEW x
                   PROVE  x \in After(tree', w, stack) <=> x \in After(tree, u, stack) /\ x # k
        OBVIOUS
      <4>1. /\ x \in After(tree', w, stack) <=> \E j \in 1..N : x \in Behind(tree', w, stack[j])
            /\ x \in After(tree, u, stack) <=> \E j \in 1..N : x \in Behind(tree, u, stack[j])
        BY AfterFacts
      <4>2. \A j \in 1..N : j = N \/ j \in 1..(N - 1)
        BY <1>7
      <4>3. Behind(tree', w, stack[N]) = {} /\ Behind(tree, u, stack[N]) = {}
        BY <1>7, <3>2
      <4> HIDE DEF N
      <4> QED
        BY <1>8, <1>11, <4>1, <4>2, <4>3
    <3>4. \A x : x \in Beyond(tree', reached) <=> x \in Beyond(tree, reached) /\ x # k
      <4>1. \A x : x \in LeafKeysOf(tree') <=> x \in LeafKeysOf(tree) /\ x # k
        BY <1>9, <1>10, <1>15
      <4> QED
        BY <4>1 DEF Beyond
    <3> QED
      BY <1>13, <3>1, <3>3, <3>4
  <2> QED
    BY <2>1, <2>2
<1>17. Position(tree', w, stack', pc', op', arg', reached')
  BY <1>2, <1>16 DEF Position
<1>18. Split(tree', w, stack')
  BY <1>2, <1>12
<1>19. PICK v : /\ SearchTree(tree', v) /\ Split(tree', v, stack')
                /\ Position(tree', v, stack', pc', op', arg', reached')
  BY <1>4, <1>17, <1>18
<1>20. ScanWith(v)'
  BY <1>19, ScanPrime
<1> QED
  BY <1>2, <1>20 DEF FoundLeast

-----------------------------------------------------------------------------
(* Scans and seeks.                                                        *)

LEMMA ScanStarts ==
  ASSUME Init
  PROVE  ScanInv
<1> DEFINE u == Under(tree)
<1>1. CursorInv
  BY CursorInit
<1>2. SearchTree(tree, u) /\ stack = <<>> /\ pc = "idle"
  BY CursorAssumption DEF CursorAssumption, Init
<1> HIDE DEF u
<1>3. Split(tree, u, stack) /\ Position(tree, u, stack, pc, op, arg, reached)
  BY <1>2, SplitEmpty DEF Position
<1>4. PICK v : /\ SearchTree(tree, v) /\ Split(tree, v, stack)
               /\ Position(tree, v, stack, pc, op, arg, reached)
  BY <1>2, <1>3
<1>5. ScanWith(v)
  BY <1>4 DEF ScanWith
<1> QED
  BY <1>1, <1>5 DEF ScanInv

LEMMA ScanStep ==
  ASSUME ScanInv, [Next]_vars
  PROVE  ScanInv' /\ FoundLeast
<1>1. CursorInv
  BY DEF ScanInv
<1>2. CursorInv'
  BY <1>1, CursorNext
<1>3. PICK u : ScanWith(u)
  BY DEF ScanInv
<1>4. (\E w : ScanWith(w)') /\ FoundLeast
  <2>1. CASE UNCHANGED <<tree, stack, pc, op, arg, reached>>
    <3>1. /\ SearchTree(tree', u) /\ Split(tree', u, stack')
          /\ Position(tree', u, stack', pc', op', arg', reached')
      BY <1>3, <2>1 DEF ScanWith
    <3>2. ScanWith(u)'
      BY <3>1, ScanPrime
    <3> QED
      BY <2>1, <3>2 DEF FoundLeast
  <2>2. CASE First
    BY <1>1, <1>3, <2>2, ScanFirst
  <2>3. CASE FirstStep
    BY <1>1, <1>3, <2>3, ScanFirstStep
  <2>4. CASE FirstLands \/ NextLands
    BY <1>1, <1>3, <2>4, ScanLands
  <2>5. CASE Next_
    BY <1>1, <1>3, <2>5, ScanNext
  <2>6. CASE NextStep
    BY <1>1, <1>3, <2>6, ScanNextStep
  <2>7. CASE Last_ \/ Prev
    BY <1>1, <1>3, <2>7, ScanLast
  <2>8. CASE LastStep
    BY <1>1, <1>3, <2>8, ScanLastStep
  <2>9. CASE LastLands
    BY <1>1, <1>3, <2>9, ScanLastLands
  <2>10. CASE PrevAtBeginning
    BY <1>1, <1>3, <2>10, ScanPrevAtBeginning
  <2>11. CASE \E k \in SeekKeys : Seek(k)
    BY <1>1, <1>3, <2>11, ScanSeek
  <2>12. CASE SearchBranch
    BY <1>1, <1>3, <2>12, ScanSearchBranch
  <2>13. CASE SearchLeaf
    BY <1>1, <1>3, <2>13, ScanSearchLeaf
  <2>14. CASE NextAborts \/ DeleteAborts
    BY <2>1, <2>14 DEF NextAborts, DeleteAborts, Abort
  <2>15. CASE Delete
    BY <1>1, <1>3, <2>15, ScanDelete
  <2>16. CASE UNCHANGED vars
    BY <2>1, <2>16 DEF vars
  <2> QED
    BY <2>2, <2>3, <2>4, <2>5, <2>6, <2>7, <2>8, <2>9, <2>10, <2>11, <2>12, <2>13, <2>14,
       <2>15, <2>16 DEF Next, Step
<1> QED
  BY <1>2, <1>4 DEF ScanInv

\* Whatever the calls and the deletes before, the pages on the stack split the keys of the
\* tree, and what is behind its refs is what the current call has still to choose from.
THEOREM ScanInvariant == Spec => []ScanInv
<1>1. Init => ScanInv
  BY ScanStarts
<1>2. ScanInv /\ [Next]_vars => ScanInv'
  BY ScanStep
<1> QED
  BY <1>1, <1>2, PTL DEF Spec

\* first returns the least key of the tree, next the least key above the one the cursor is
\* at, on any search tree, with empty leaves and deletes (Cursor::first, next, next_,
\* cursor.cpp:25-57, 124-198).
THEOREM ScansAreSorted == Spec => ScanIsSorted
<1> DEFINE Sorted == /\ Returns("first") => ret' = From(0)
                     /\ Returns("next") => ret' = IF reached = Nil THEN Nil ELSE Above(reached)
<1>1. ScanInv /\ [Next]_vars => [Sorted]_vars
  <2> SUFFICES ASSUME ScanInv, [Next]_vars PROVE Sorted
    OBVIOUS
  <2>1. FoundLeast /\ CursorInv
    BY ScanStep DEF ScanInv
  <2>2. PICK u : SearchTree(tree, u)
    BY DEF ScanInv, ScanWith
  <2>3. LeafKeysOf(tree) \subseteq Nat
    BY <2>1, <2>2, RootKeys DEF CursorInv
  <2>4. ASSUME Returns("first") PROVE ret' = From(0)
    <3>1. {x \in LeafKeysOf(tree) : x >= 0} = LeafKeysOf(tree)
      BY <2>3
    <3>2. ret' = Least(LeafKeysOf(tree))
      BY <2>1, <2>4 DEF Returns, FoundLeast, Wanted, Tracked
    <3> QED
      BY <3>1, <3>2 DEF From, AllKeys, Least
  <2>5. ASSUME Returns("next") PROVE ret' = IF reached = Nil THEN Nil ELSE Above(reached)
    <3>1. ret' = Least(Beyond(tree, reached))
      BY <2>1, <2>5 DEF Returns, FoundLeast, Wanted, Tracked
    <3> QED
      BY <3>1 DEF Above, AllKeys, Least, Beyond
  <2> QED
    BY <2>4, <2>5
<1>2. Spec => []ScanInv
  BY ScanInvariant
<1>3. Spec => [][Sorted]_vars
  BY <1>1, <1>2, PTL DEF Spec
<1> QED
  BY <1>3 DEF ScanIsSorted

\* On a tree of nodes seek ends on the least key from its argument on, in whatever leaf
\* (Cursor::seek, search, searchNode, nsearch, cursor.cpp:201-314).
THEOREM SeeksPosition == Spec => SeekPositions
<1> DEFINE Found == Returns("seek") /\ (\A id \in DOMAIN tree : tree[id].node)
                      => reached' = From(arg)
<1>1. ScanInv /\ [Next]_vars => [Found]_vars
  <2> SUFFICES ASSUME ScanInv, [Next]_vars, Returns("seek"), \A id \in DOMAIN tree : tree[id].node
               PROVE  reached' = From(arg)
    OBVIOUS
  <2>1. FoundLeast
    BY ScanStep
  <2>2. reached' = Least({k \in LeafKeysOf(tree) : k >= arg})
    BY <2>1 DEF Returns, FoundLeast, Wanted, Tracked
  <2> QED
    BY <2>2 DEF From, AllKeys, Least
<1>2. Spec => []ScanInv
  BY ScanInvariant
<1>3. Spec => [][Found]_vars
  BY <1>1, <1>2, PTL DEF Spec
<1> QED
  BY <1>3 DEF SeekPositions
=============================================================================
