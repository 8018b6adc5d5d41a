----------------------------- MODULE NodeProofs -----------------------------
(***************************************************************************)
(* Proofs about Node, for every set of keys, values and pages and every     *)
(* number of inodes.                                                        *)
(***************************************************************************)
EXTENDS Node, FiniteSetTheorems, WellFoundedInduction, TLAPS

-----------------------------------------------------------------------------
(* Facts about numbers and sequences.                                      *)

\* What there is no smallest counterexample to holds for every number.
LEMMA LeastNat ==
  ASSUME NEW T, T \subseteq Nat, T # {}
  PROVE  \E n \in T : \A k \in T : n <= k
<1>1. PICK n \in T : \A k \in T : ~(<<k, n>> \in OpToRel(<, Nat))
  BY NatLessThanWellFounded, WFMin
<1>2. \A k \in T : ~(k < n)
  BY <1>1 DEF OpToRel
<1> QED
  BY <1>2

LEMMA InsertAtFacts ==
  ASSUME NEW S, NEW s \in Seq(S), NEW i \in 1..(Len(s) + 1), NEW e \in S
  PROVE  LET r == InsertAt(s, i, e)
         IN  /\ r \in Seq(S) /\ Len(r) = Len(s) + 1
             /\ \A j \in 1..(i - 1) : r[j] = s[j]
             /\ r[i] = e
             /\ \A j \in i..Len(s) : r[j + 1] = s[j]
<1> DEFINE a == SubSeq(s, 1, i - 1)
           b == SubSeq(s, i, Len(s))
           r == InsertAt(s, i, e)
<1>1. Len(s) \in Nat /\ i \in Int
  OBVIOUS
<1>2. a \in Seq(S) /\ Len(a) = i - 1 /\ \A j \in 1..(i - 1) : a[j] = s[j]
  BY <1>1
<1>3. b \in Seq(S) /\ Len(b) = Len(s) - i + 1 /\ \A j \in 1..(Len(s) - i + 1) : b[j] = s[i + j - 1]
  BY <1>1
<1>4. <<e>> \in Seq(S) /\ Len(<<e>>) = 1 /\ <<e>>[1] = e
  OBVIOUS
<1> HIDE DEF a, b
<1> DEFINE c == a \o <<e>>
<1>5. /\ c \in Seq(S) /\ Len(c) = i /\ c[i] = e
      /\ \A j \in 1..(i - 1) : c[j] = s[j]
  BY <1>1, <1>2, <1>4
<1>6. r = c \o b
  BY DEF InsertAt, a, b
<1> HIDE DEF c, r
<1>7. r \in Seq(S) /\ Len(r) = Len(s) + 1
  BY <1>1, <1>3, <1>5, <1>6
<1>8. \A j \in 1..i : r[j] = c[j]
  BY <1>1, <1>3, <1>5, <1>6
<1>9. \A j \in i..Len(s) : r[j + 1] = s[j]
  <2> SUFFICES ASSUME NEW j \in i..Len(s) PROVE r[j + 1] = s[j]
    OBVIOUS
  <2>1. j + 1 - i \in 1..Len(b) /\ j + 1 \in 1..(Len(c) + Len(b)) /\ j + 1 > Len(c)
    BY <1>1, <1>3, <1>5
  <2>2. r[j + 1] = b[j + 1 - i]
    BY <1>3, <1>5, <1>6, <2>1
  <2> QED
    BY <1>1, <1>3, <2>1, <2>2, SMTT(30)
<1> QED
  BY <1>5, <1>7, <1>8, <1>9 DEF r

LEMMA RemoveAtFacts ==
  ASSUME NEW S, NEW s \in Seq(S), NEW i \in 1..Len(s)
  PROVE  LET r == RemoveAt(s, i)
         IN  /\ r \in Seq(S) /\ Len(r) = Len(s) - 1
             /\ \A j \in 1..(i - 1) : r[j] = s[j]
             /\ \A j \in i..(Len(s) - 1) : r[j] = s[j + 1]
<1> DEFINE a == SubSeq(s, 1, i - 1)
           b == SubSeq(s, i + 1, Len(s))
           r == RemoveAt(s, i)
<1>1. Len(s) \in Nat /\ i \in Int
  OBVIOUS
<1>2. a \in Seq(S) /\ Len(a) = i - 1 /\ \A j \in 1..(i - 1) : a[j] = s[j]
  BY <1>1
<1>3. b \in Seq(S) /\ Len(b) = Len(s) - i /\ \A j \in 1..(Len(s) - i) : b[j] = s[i + j]
  BY <1>1
<1>4. r = a \o b
  BY DEF RemoveAt
<1> HIDE DEF a, b, r
<1>5. r \in Seq(S) /\ Len(r) = Len(s) - 1 /\ \A j \in 1..(i - 1) : r[j] = a[j]
  BY <1>1, <1>2, <1>3, <1>4, SMTT(30)
<1>6. \A j \in i..(Len(s) - 1) : r[j] = s[j + 1]
  <2> SUFFICES ASSUME NEW j \in i..(Len(s) - 1) PROVE r[j] = s[j + 1]
    OBVIOUS
  <2>1. j + 1 - i \in 1..Len(b) /\ j \in 1..(Len(a) + Len(b)) /\ j > Len(a)
    BY <1>1, <1>2, <1>3
  <2>2. r[j] = b[j + 1 - i]
    BY <1>2, <1>3, <1>4, <2>1
  <2> QED
    BY <1>1, <1>3, <2>1, <2>2
<1> QED
  BY <1>2, <1>5, <1>6 DEF r

\* A sum over a sequence exists: F[n] is what the loop of Node::write has added up after
\* n turns, for any sizes d.
LEMMA SumExists ==
  ASSUME NEW N \in Nat, NEW d \in [1..N -> Nat]
  PROVE  \E F \in [0..N -> Nat] : F = [n \in 0..N |-> IF n = 0 THEN 0 ELSE F[n - 1] + d[n]]
<1> DEFINE P(k, F) == /\ F \in [0..k -> Nat] /\ F[0] = 0
                      /\ \A n \in 1..k : F[n] = F[n - 1] + d[n]
           T == {k \in Nat : k <= N /\ ~\E F : P(k, F)}
<1>1. T = {}
  <2> SUFFICES ASSUME T # {} PROVE FALSE
    OBVIOUS
  <2>1. PICK k \in T : \A l \in T : k <= l
    BY LeastNat
  <2>2. k \in Nat /\ k <= N /\ ~\E F : P(k, F)
    BY <2>1
  <2>3. k # 0
    <3>1. P(0, [n \in 0..0 |-> 0])
      OBVIOUS
    <3> QED
      BY <2>2, <3>1
  <2>4. k - 1 \in Nat /\ k - 1 \notin T
    <3> HIDE DEF T
    <3> QED
      BY <2>1, <2>2, <2>3
  <2>5. PICK G : P(k - 1, G)
    BY <2>2, <2>4
  <2> DEFINE H == [n \in 0..k |-> IF n = k THEN G[k - 1] + d[k] ELSE G[n]]
  <2>6. P(k, H)
    <3>1. G[k - 1] + d[k] \in Nat
      BY <2>2, <2>3, <2>5
    <3>2. H \in [0..k -> Nat]
      BY <2>2, <2>5, <3>1
    <3>3. H[0] = 0
      BY <2>2, <2>3, <2>5
    <3>4. \A n \in 1..k : H[n] = H[n - 1] + d[n]
      <4> SUFFICES ASSUME NEW n \in 1..k PROVE H[n] = H[n - 1] + d[n]
        OBVIOUS
      <4>1. H[n - 1] = G[n - 1]
        BY <2>2
      <4>2. n # k => n \in 1..(k - 1) /\ H[n] = G[n]
        BY <2>2
      <4> QED
        BY <2>2, <2>5, <4>1, <4>2
    <3> QED
      BY <3>2, <3>3, <3>4
  <2> QED
    BY <2>2, <2>6
<1>2. PICK F : P(N, F)
  <2> HIDE DEF P, T
  <2>1. N \notin T /\ N <= N
    BY <1>1
  <2> QED
    BY <2>1 DEF T
<1>3. F = [n \in 0..N |-> IF n = 0 THEN 0 ELSE F[n - 1] + d[n]]
  <2>1. \A n \in 0..N : F[n] = IF n = 0 THEN 0 ELSE F[n - 1] + d[n]
    BY <1>2
  <2>2. F = [n \in 0..N |-> F[n]]
    BY <1>2
  <2> QED
    BY <2>1, <2>2
<1> QED
  BY <1>2, <1>3

-----------------------------------------------------------------------------
(* size() and the offsets of write().                                      *)

\* The bytes before an inode are those before the previous one and its own.
LEMMA DataBeforeFacts ==
  ASSUME NodeAssumption, inodes \in Seq(INode)
  PROVE  /\ DataBefore \in [0..Len(inodes) -> Nat]
         /\ DataBefore[0] = 0
         /\ \A n \in 1..Len(inodes) :
              DataBefore[n] = DataBefore[n - 1] + (inodes[n].key + inodes[n].value)
<1> DEFINE N == Len(inodes)
           d == [n \in 1..N |-> inodes[n].key + inodes[n].value]
           Sum(F) == F = [n \in 0..N |-> IF n = 0 THEN 0
                                         ELSE F[n - 1] + (inodes[n].key + inodes[n].value)]
<1>1. N \in Nat /\ \A n \in 1..N : inodes[n].key \in Nat /\ inodes[n].value \in Nat
  <2>1. \A n \in 1..N : inodes[n] \in INode
    OBVIOUS
  <2>2. \A n \in 1..N : inodes[n].key \in Keys /\ inodes[n].value \in Values
    BY <2>1 DEF INode
  <2>3. \A x : (x \in Keys => x \in Nat) /\ (x \in Values => x \in Nat)
    BY DEF NodeAssumption
  <2> QED
    BY <2>2, <2>3
<1>2. d \in [1..N -> Nat]
  BY <1>1
<1>3. PICK F \in [0..N -> Nat] : F = [n \in 0..N |-> IF n = 0 THEN 0 ELSE F[n - 1] + d[n]]
  BY <1>1, <1>2, SumExists
<1>4. Sum(F)
  <2>1. \A n \in 0..N : n # 0 => d[n] = inodes[n].key + inodes[n].value
    BY <1>1
  <2> HIDE DEF d
  <2> QED
    BY <1>3, <2>1
<1>5. DataBefore = CHOOSE G : Sum(G)
  BY DEF DataBefore
<1>6. Sum(DataBefore)
  BY <1>4, <1>5
<1>7. DataBefore[0] = 0 /\ F[0] = 0
  BY <1>1, <1>4, <1>6
<1>8. \A n \in 1..N : DataBefore[n] = DataBefore[n - 1] + (inodes[n].key + inodes[n].value)
  BY <1>1, <1>6
<1>9. \A n \in 1..N : F[n] = F[n - 1] + (inodes[n].key + inodes[n].value)
  BY <1>1, <1>4
<1>10. \A n \in 0..N : DataBefore[n] = F[n]
  <2> DEFINE T == {n \in 0..N : DataBefore[n] # F[n]}
  <2> SUFFICES ASSUME T # {} PROVE FALSE
    OBVIOUS
  <2>0. T \subseteq Nat
    OBVIOUS
  <2>1. PICK n \in T : \A k \in T : n <= k
    <3> HIDE DEF T
    <3> QED
      BY <2>0, LeastNat
  <2>2. n \in 1..N
    BY <1>1, <1>7
  <2>3. n - 1 \in 0..N /\ n - 1 \notin T
    <3>1. n - 1 \in 0..N /\ n \in Int
      BY <1>1, <2>2
    <3> HIDE DEF T
    <3> QED
      BY <2>1, <3>1
  <2>4. DataBefore[n - 1] = F[n - 1]
    BY <2>3
  <2> QED
    BY <1>8, <1>9, <2>2, <2>4
<1>11. DataBefore = [n \in 0..N |-> DataBefore[n]]
  BY <1>6
<1>12. DataBefore \in [0..N -> Nat]
  BY <1>3, <1>10, <1>11
<1> QED
  BY <1>7, <1>8, <1>12

-----------------------------------------------------------------------------
(* std::lower_bound and the node as a map.                                 *)

SortedKeys(s) == \A i, j \in DOMAIN s : i < j => s[i].key < s[j].key

\* The keys of a node are numbers above zero.
LEMMA InodeFacts ==
  ASSUME inodes \in Seq(INode), NEW i \in 1..Len(inodes)
  PROVE  /\ inodes[i] \in INode
         /\ inodes[i].key \in Keys /\ inodes[i].key \in Nat /\ inodes[i].key > 0
         /\ inodes[i].value \in Values /\ inodes[i].value \in Nat
         /\ inodes[i].flags \in Flags /\ inodes[i].id \in Ids
<1>1. inodes[i] \in INode
  OBVIOUS
<1>2. /\ inodes[i].key \in Keys /\ inodes[i].value \in Values
      /\ inodes[i].flags \in Flags /\ inodes[i].id \in Ids
  BY <1>1 DEF INode
<1>3. (\A x \in Keys : x \in Nat /\ x > 0) /\ (\A x \in Values : x \in Nat)
  BY NodeAssumption DEF NodeAssumption
<1> QED
  BY <1>1, <1>2, <1>3

\* On sorted inodes lower_bound separates the smaller keys from the others.
LEMMA IndexFacts ==
  ASSUME inodes \in Seq(INode), KeysSorted, NEW k \in Nat
  PROVE  /\ Index(k) \in 1..(Len(inodes) + 1)
         /\ \A i \in 1..(Index(k) - 1) : inodes[i].key < k
         /\ \A i \in Index(k)..Len(inodes) : k <= inodes[i].key
<1> DEFINE N == Len(inodes)
           L == {i \in DOMAIN inodes : inodes[i].key < k}
           T == {n \in Nat : n # 0 /\ n \notin L}
<1>1. N \in Nat /\ DOMAIN inodes = 1..N
  OBVIOUS
<1>2. \A i \in 1..N : inodes[i].key \in Nat
  BY InodeFacts
<1>3. N + 1 \in T /\ T \subseteq Nat
  BY <1>1
<1>4. PICK n \in T : \A j \in T : n <= j
  <2> HIDE DEF T
  <2> QED
    BY <1>3, LeastNat
<1>5. n \in 1..(N + 1) /\ n \notin L
  <2>1. n <= N + 1
    <3> HIDE DEF T
    <3> QED
      BY <1>3, <1>4
  <2> QED
    BY <1>1, <1>4, <2>1
<1>6. \A i \in 1..(n - 1) : i \in L
  <2> SUFFICES ASSUME NEW i \in 1..(n - 1), i \notin L PROVE FALSE
    OBVIOUS
  <2>1. i \in T
    BY <1>5
  <2> HIDE DEF T
  <2> QED
    BY <1>4, <1>5, <2>1
<1>7. \A i \in n..N : i \notin L
  <2> SUFFICES ASSUME NEW i \in n..N, i \in L PROVE FALSE
    OBVIOUS
  <2>1. i \in 1..N /\ inodes[i].key < k /\ n \in 1..N
    BY <1>1, <1>5
  <2>2. ~(inodes[n].key < k)
    BY <1>1, <1>5, <2>1
  <2>3. n < i
    BY <2>1, <2>2
  <2>4. inodes[n].key < inodes[i].key
    BY <1>1, <2>1, <2>3 DEF KeysSorted
  <2> QED
    BY <1>2, <2>1, <2>2, <2>4
<1>8. L = 1..(n - 1)
  <2>1. \A i \in L : i \in 1..(n - 1)
    BY <1>1, <1>5, <1>7
  <2> HIDE DEF L
  <2> QED
    BY <1>6, <2>1
<1>9. Cardinality(L) = n - 1
  <2> HIDE DEF L
  <2>1. Cardinality(1..(n - 1)) = IF 1 > n - 1 THEN 0 ELSE (n - 1) - 1 + 1
    BY <1>5, FS_Interval
  <2> QED
    BY <1>5, <1>8, <2>1
<1>10. Index(k) = n
  BY <1>5, <1>9 DEF Index, lower_bound
<1>11. \A i \in 1..(n - 1) : inodes[i].key < k
  BY <1>6
<1>12. \A i \in n..N : k <= inodes[i].key
  BY <1>1, <1>2, <1>5, <1>7
<1> HIDE DEF L, T
<1> QED
  BY <1>5, <1>10, <1>11, <1>12

\* A key is in the node exactly if it is where lower_bound points.
LEMMA ExactFacts ==
  ASSUME inodes \in Seq(INode), KeysSorted, NEW k \in Nat
  PROVE  /\ Exact(k) => Index(k) \in 1..Len(inodes) /\ inodes[Index(k)].key = k
         /\ ~Exact(k) => \A i \in 1..Len(inodes) : inodes[i].key # k
         /\ ~Exact(k) => \A i \in Index(k)..Len(inodes) : k < inodes[i].key
<1>1. Len(inodes) \in Nat /\ \A i \in 1..Len(inodes) : inodes[i].key \in Nat
  BY InodeFacts
<1>2. /\ Index(k) \in 1..(Len(inodes) + 1)
      /\ \A i \in 1..(Index(k) - 1) : inodes[i].key < k
      /\ \A i \in Index(k)..Len(inodes) : k <= inodes[i].key
  BY IndexFacts
<1>3. Exact(k) => Index(k) \in 1..Len(inodes) /\ inodes[Index(k)].key = k
  BY <1>1, <1>2 DEF Exact
<1>4. ASSUME ~Exact(k), NEW i \in Index(k)..Len(inodes) PROVE k < inodes[i].key
  <2>1. i \in 1..Len(inodes) /\ Index(k) \in 1..Len(inodes) /\ inodes[Index(k)].key # k
    BY <1>1, <1>2, <1>4 DEF Exact
  <2>2. k < inodes[Index(k)].key
    BY <1>1, <1>2, <2>1
  <2>3. Index(k) < i => inodes[Index(k)].key < inodes[i].key
    BY <2>1 DEF KeysSorted
  <2> QED
    BY <1>1, <1>2, <2>1, <2>2, <2>3
<1>5. ASSUME ~Exact(k), NEW i \in 1..Len(inodes) PROVE inodes[i].key # k
  <2>1. i \in 1..(Index(k) - 1) \/ i \in Index(k)..Len(inodes)
    BY <1>1, <1>2
  <2> QED
    BY <1>1, <1>2, <1>4, <1>5, <2>1
<1> QED
  BY <1>3, <1>4, <1>5

ContentsOf(s) ==
    [k \in {s[i].key : i \in DOMAIN s} |->
        LET i == CHOOSE j \in DOMAIN s : s[j].key = k
        IN  [value |-> s[i].value, flags |-> s[i].flags]]

IsMap(m) == m = [k \in DOMAIN m |-> m[k]]

EntryOf(inode) == [value |-> inode.value, flags |-> inode.flags]

\* The keys of sorted inodes differ, so that each inode is an entry of the map.
LEMMA ContentsFacts ==
  ASSUME NEW s \in Seq(INode), SortedKeys(s)
  PROVE  /\ IsMap(ContentsOf(s))
         /\ DOMAIN ContentsOf(s) = {s[i].key : i \in 1..Len(s)}
         /\ \A i \in 1..Len(s) : ContentsOf(s)[s[i].key] = EntryOf(s[i])
<1>1. Len(s) \in Nat /\ DOMAIN s = 1..Len(s)
  OBVIOUS
<1>2. \A i \in 1..Len(s) : s[i].key \in Nat
  <2>1. \A i \in 1..Len(s) : s[i] \in INode
    OBVIOUS
  <2>2. \A i \in 1..Len(s) : s[i].key \in Keys
    BY <2>1 DEF INode
  <2>3. \A x \in Keys : x \in Nat
    BY NodeAssumption DEF NodeAssumption
  <2> QED
    BY <2>2, <2>3
<1>3. ASSUME NEW i \in 1..Len(s) PROVE ContentsOf(s)[s[i].key] = EntryOf(s[i])
  <2> DEFINE c == CHOOSE j \in DOMAIN s : s[j].key = s[i].key
  <2>1. c \in DOMAIN s /\ s[c].key = s[i].key
    BY <1>1
  <2> HIDE DEF c
  <2>2. c = i
    <3>1. c \in Int /\ i \in Int
      BY <1>1, <2>1
    <3>2. ~(c < i) /\ ~(i < c)
      BY <1>1, <1>2, <2>1 DEF SortedKeys
    <3> QED
      BY <3>1, <3>2
  <2>3. ContentsOf(s)[s[i].key] = EntryOf(s[c])
    BY <1>1 DEF ContentsOf, EntryOf, c
  <2> QED
    BY <2>2, <2>3
<1>4. DOMAIN ContentsOf(s) = {s[i].key : i \in 1..Len(s)}
  BY <1>1 DEF ContentsOf
<1>5. IsMap(ContentsOf(s))
  BY DEF ContentsOf, IsMap
<1> QED
  BY <1>3, <1>4, <1>5

\* A map with the entries of the inodes is what they contain.
LEMMA ContentsUnique ==
  ASSUME NEW s \in Seq(INode), SortedKeys(s),
         NEW m, IsMap(m),
         \A k : k \in DOMAIN m <=> \E i \in 1..Len(s) : s[i].key = k,
         \A i \in 1..Len(s) : m[s[i].key] = EntryOf(s[i])
  PROVE  m = ContentsOf(s)
<1> DEFINE c == ContentsOf(s)
<1>1. /\ IsMap(c)
      /\ DOMAIN c = {s[i].key : i \in 1..Len(s)}
      /\ \A i \in 1..Len(s) : c[s[i].key] = EntryOf(s[i])
  BY ContentsFacts
<1> HIDE DEF c
<1>2. DOMAIN m = DOMAIN c
  BY <1>1
<1>3. \A k \in DOMAIN m : m[k] = c[k]
  BY <1>1
<1>4. m = c
  BY <1>1, <1>2, <1>3 DEF IsMap
<1> QED
  BY <1>4 DEF c

LEMMA SeqInodeFacts ==
  ASSUME NEW s \in Seq(INode)
  PROVE  /\ Len(s) \in Nat /\ DOMAIN s = 1..Len(s)
         /\ \A i \in 1..Len(s) : s[i] \in INode /\ s[i].key \in Keys /\ s[i].key \in Nat
<1>1. \A i \in 1..Len(s) : s[i] \in INode
  OBVIOUS
<1>2. \A i \in 1..Len(s) : s[i].key \in Keys
  BY <1>1 DEF INode
<1>3. \A x \in Keys : x \in Nat
  BY NodeAssumption DEF NodeAssumption
<1> QED
  BY <1>1, <1>2, <1>3

-----------------------------------------------------------------------------
(* put and del on sorted inodes, and on the map they stand for.            *)

\* put over the inode with the old key.
LEMMA ReplaceEntry ==
  ASSUME NEW s \in Seq(INode), SortedKeys(s), NEW n \in 1..Len(s), NEW e \in INode,
         \A i \in 1..(n - 1) : s[i].key < e.key,
         \A i \in (n + 1)..Len(s) : e.key < s[i].key
  PROVE  LET r == ReplaceAt(s, n, e)
             c == ContentsOf(s)
         IN  /\ r \in Seq(INode) /\ SortedKeys(r)
             /\ e.key \notin DOMAIN c \ {s[n].key}
             /\ Map!With(Map!Without(c, s[n].key), e.key, EntryOf(e)) = ContentsOf(r)
<1> DEFINE r == ReplaceAt(s, n, e)
           c == ContentsOf(s)
           m == Map!With(Map!Without(c, s[n].key), e.key, EntryOf(e))
<1>1. /\ Len(s) \in Nat /\ DOMAIN s = 1..Len(s)
      /\ \A i \in 1..Len(s) : s[i] \in INode /\ s[i].key \in Keys /\ s[i].key \in Nat
  BY SeqInodeFacts
<1>2. e.key \in Keys /\ e.key \in Nat
  BY NodeAssumption DEF NodeAssumption, INode
<1>3. /\ r \in Seq(INode) /\ Len(r) = Len(s) /\ DOMAIN r = 1..Len(s) /\ r[n] = e
      /\ \A i \in 1..Len(s) : i # n => r[i] = s[i]
  BY DEF ReplaceAt
<1>4. /\ DOMAIN c = {s[i].key : i \in 1..Len(s)}
      /\ \A i \in 1..Len(s) : c[s[i].key] = EntryOf(s[i])
  BY ContentsFacts
<1>5. /\ DOMAIN m = (DOMAIN c \ {s[n].key}) \cup {e.key} /\ IsMap(m)
      /\ m[e.key] = EntryOf(e)
      /\ \A k \in DOMAIN c \ {s[n].key} : k # e.key => m[k] = c[k]
  BY DEF Map!With, Map!Without, Map!Restrict, IsMap
<1> HIDE DEF r, c, m
<1>6. \A i \in 1..Len(s) : i # n => s[i].key # e.key /\ s[i].key # s[n].key
  <2> SUFFICES ASSUME NEW i \in 1..Len(s), i # n PROVE s[i].key # e.key /\ s[i].key # s[n].key
    OBVIOUS
  <2>1. (i < n => s[i].key < s[n].key) /\ (n < i => s[n].key < s[i].key)
    BY <1>1 DEF SortedKeys
  <2>2. i \in 1..(n - 1) \/ i \in (n + 1)..Len(s)
    BY <1>1
  <2> QED
    BY <1>1, <1>2, <2>1, <2>2
<1>7. SortedKeys(r)
  <2> SUFFICES ASSUME NEW i \in 1..Len(s), NEW j \in 1..Len(s), i < j PROVE r[i].key < r[j].key
    BY <1>3 DEF SortedKeys
  <2>1. s[i].key < s[j].key
    BY <1>1 DEF SortedKeys
  <2>2. CASE i # n /\ j # n
    BY <1>3, <2>1, <2>2
  <2>3. CASE i = n
    BY <1>1, <1>3, <2>3
  <2>4. CASE j = n
    BY <1>1, <1>3, <2>4
  <2> QED
    BY <2>2, <2>3, <2>4
<1>8. e.key \notin DOMAIN c \ {s[n].key}
  BY <1>4, <1>6
<1>9. \A i \in 1..Len(r) : m[r[i].key] = EntryOf(r[i])
  <2> SUFFICES ASSUME NEW i \in 1..Len(r) PROVE m[r[i].key] = EntryOf(r[i])
    OBVIOUS
  <2>1. CASE i = n
    BY <1>3, <1>5, <2>1
  <2>2. CASE i # n
    BY <1>3, <1>4, <1>5, <1>6, <2>2, ZenonT(30)
  <2> QED
    BY <2>1, <2>2
<1>10. \A k : k \in DOMAIN m <=> \E i \in 1..Len(r) : r[i].key = k
  <2>1. ASSUME NEW k \in DOMAIN m PROVE \E i \in 1..Len(r) : r[i].key = k
    <3>1. CASE k = e.key
      BY <1>3, <3>1
    <3>2. CASE k # e.key
      <4>1. PICK i \in 1..Len(s) : s[i].key = k /\ i # n
        BY <1>4, <1>5, <2>1, <3>2
      <4> QED
        BY <1>3, <4>1
    <3> QED
      BY <3>1, <3>2
  <2>2. ASSUME NEW i \in 1..Len(r) PROVE r[i].key \in DOMAIN m
    <3>1. CASE i = n
      BY <1>3, <1>5, <3>1
    <3>2. CASE i # n
      BY <1>3, <1>4, <1>5, <1>6, <2>2, <3>2
    <3> QED
      BY <3>1, <3>2
  <2> QED
    BY <2>1, <2>2
<1>11. m = ContentsOf(r)
  BY <1>3, <1>5, <1>7, <1>9, <1>10, ContentsUnique
<1> QED
  BY <1>3, <1>7, <1>8, <1>11 DEF r, c, m

\* put of a key the node does not have.
LEMMA InsertEntry ==
  ASSUME NEW s \in Seq(INode), SortedKeys(s), NEW n \in 1..(Len(s) + 1), NEW e \in INode,
         NEW old, \A i \in 1..Len(s) : s[i].key # old,
         \A i \in 1..(n - 1) : s[i].key < e.key,
         \A i \in n..Len(s) : e.key < s[i].key
  PROVE  LET r == InsertAt(s, n, e)
             c == ContentsOf(s)
         IN  /\ r \in Seq(INode) /\ SortedKeys(r)
             /\ e.key \notin DOMAIN c \ {old}
             /\ Map!With(Map!Without(c, old), e.key, EntryOf(e)) = ContentsOf(r)
<1> DEFINE r == InsertAt(s, n, e)
           c == ContentsOf(s)
           m == Map!With(Map!Without(c, old), e.key, EntryOf(e))
<1>1. /\ Len(s) \in Nat /\ DOMAIN s = 1..Len(s)
      /\ \A i \in 1..Len(s) : s[i] \in INode /\ s[i].key \in Keys /\ s[i].key \in Nat
  BY SeqInodeFacts
<1>2. e.key \in Keys /\ e.key \in Nat
  BY NodeAssumption DEF NodeAssumption, INode
<1>3. /\ r \in Seq(INode) /\ Len(r) = Len(s) + 1 /\ r[n] = e
      /\ \A i \in 1..(n - 1) : r[i] = s[i]
      /\ \A i \in n..Len(s) : r[i + 1] = s[i]
  BY InsertAtFacts
<1>4. /\ DOMAIN c = {s[i].key : i \in 1..Len(s)}
      /\ \A i \in 1..Len(s) : c[s[i].key] = EntryOf(s[i])
  BY ContentsFacts
<1>5. /\ DOMAIN m = (DOMAIN c \ {old}) \cup {e.key} /\ IsMap(m)
      /\ m[e.key] = EntryOf(e)
      /\ \A k \in DOMAIN c \ {old} : k # e.key => m[k] = c[k]
  BY DEF Map!With, Map!Without, Map!Restrict, IsMap
<1> HIDE DEF r, c, m
<1>6. \A i \in 1..Len(s) : s[i].key # e.key /\ s[i].key # old
  <2> SUFFICES ASSUME NEW i \in 1..Len(s) PROVE s[i].key # e.key
    OBVIOUS
  <2>2. i \in 1..(n - 1) \/ i \in n..Len(s)
    BY <1>1
  <2> QED
    BY <1>1, <1>2, <2>2
\* Where the inodes after the insertion come from.
<1>7. \A i \in 1..Len(r) : \/ i \in 1..(n - 1) /\ i \in 1..Len(s) /\ r[i] = s[i]
                           \/ i = n
                           \/ i - 1 \in n..Len(s) /\ i - 1 \in 1..Len(s) /\ r[i] = s[i - 1]
  <2> SUFFICES ASSUME NEW i \in 1..Len(r), i > n PROVE i - 1 \in n..Len(s) /\ r[i] = s[i - 1]
    BY <1>1, <1>3
  <2>1. i - 1 \in n..Len(s) /\ i = (i - 1) + 1
    BY <1>1, <1>3
  <2> QED
    BY <1>3, <2>1
<1>8. SortedKeys(r)
  <2> SUFFICES ASSUME NEW i \in 1..Len(r), NEW j \in 1..Len(r), i < j PROVE r[i].key < r[j].key
    BY <1>3 DEF SortedKeys
  <2>0. \A a, b \in 1..Len(s) : a < b => s[a].key < s[b].key
    BY <1>1 DEF SortedKeys
  <2>1. CASE i = n
    BY <1>1, <1>3, <1>7, <2>1
  <2>2. CASE j = n
    BY <1>1, <1>3, <1>7, <2>2
  <2>3. CASE i # n /\ j # n
    <3>1. CASE j < n
      <4>1. r[i] = s[i] /\ i \in 1..Len(s) /\ r[j] = s[j] /\ j \in 1..Len(s)
        BY <1>1, <1>3, <3>1
      <4> QED
        BY <2>0, <4>1
    <3>2. CASE n < i
      <4>1. /\ r[i] = s[i - 1] /\ i - 1 \in 1..Len(s) /\ i - 1 < j - 1
            /\ r[j] = s[j - 1] /\ j - 1 \in 1..Len(s)
        BY <1>7, <3>2
      <4> QED
        BY <2>0, <4>1
    <3>3. CASE i < n /\ n < j
      <4>1. r[i] = s[i] /\ i \in 1..(n - 1) /\ r[j] = s[j - 1] /\ j - 1 \in n..Len(s)
        BY <1>1, <1>3, <1>7, <3>3
      <4> QED
        BY <1>1, <1>2, <4>1
    <3> QED
      BY <2>3, <3>1, <3>2, <3>3
  <2> QED
    BY <2>1, <2>2, <2>3
<1>9. e.key \notin DOMAIN c \ {old}
  BY <1>4, <1>6
<1>10. \A i \in 1..Len(r) : m[r[i].key] = EntryOf(r[i])
  <2>1. \A i \in 1..Len(s) : m[s[i].key] = EntryOf(s[i])
    BY <1>4, <1>5, <1>6
  <2> SUFFICES ASSUME NEW i \in 1..Len(r) PROVE m[r[i].key] = EntryOf(r[i])
    OBVIOUS
  <2>2. CASE i = n
    BY <1>3, <1>5, <2>2
  <2>3. CASE i # n
    <3>1. PICK j \in 1..Len(s) : r[i] = s[j]
      BY <1>7, <2>3
    <3> QED
      BY <2>1, <3>1
  <2> QED
    BY <2>2, <2>3
<1>11. \A k : k \in DOMAIN m <=> \E i \in 1..Len(r) : r[i].key = k
  <2>1. \A i \in 1..Len(s) : \E j \in 1..Len(r) : r[j] = s[i]
    <3> SUFFICES ASSUME NEW i \in 1..Len(s) PROVE \E j \in 1..Len(r) : r[j] = s[i]
      OBVIOUS
    <3>1. CASE i < n
      BY <1>1, <1>3, <3>1
    <3>2. CASE ~(i < n)
      <4>1. i + 1 \in 1..Len(r) /\ r[i + 1] = s[i]
        BY <1>1, <1>3, <3>2
      <4> QED
        BY <4>1
    <3> QED
      BY <3>1, <3>2
  <2>2. n \in 1..Len(r)
    BY <1>1, <1>3
  <2>3. ASSUME NEW k \in DOMAIN m PROVE \E i \in 1..Len(r) : r[i].key = k
    BY <1>3, <1>4, <1>5, <2>1, <2>2, <2>3
  <2>4. ASSUME NEW i \in 1..Len(r) PROVE r[i].key \in DOMAIN m
    <3>1. CASE i = n
      BY <1>3, <1>5, <3>1
    <3>2. CASE i # n
      <4>1. PICK j \in 1..Len(s) : r[i] = s[j]
        BY <1>7, <3>2
      <4>2. s[j].key \in DOMAIN m
        BY <1>4, <1>5, <1>6
      <4> QED
        BY <4>1, <4>2
    <3> QED
      BY <3>1, <3>2
  <2> QED
    BY <2>3, <2>4
<1>12. m = ContentsOf(r)
  BY <1>3, <1>5, <1>8, <1>10, <1>11, ContentsUnique
<1> QED
  BY <1>3, <1>8, <1>9, <1>12 DEF r, c, m

\* del of a key the node has.
LEMMA RemoveEntry ==
  ASSUME NEW s \in Seq(INode), SortedKeys(s), NEW n \in 1..Len(s)
  PROVE  LET r == RemoveAt(s, n)
         IN  /\ r \in Seq(INode) /\ SortedKeys(r)
             /\ Map!Without(ContentsOf(s), s[n].key) = ContentsOf(r)
<1> DEFINE r == RemoveAt(s, n)
           c == ContentsOf(s)
           m == Map!Without(c, s[n].key)
<1>1. /\ Len(s) \in Nat /\ DOMAIN s = 1..Len(s)
      /\ \A i \in 1..Len(s) : s[i] \in INode /\ s[i].key \in Keys /\ s[i].key \in Nat
  BY SeqInodeFacts
<1>2. /\ r \in Seq(INode) /\ Len(r) = Len(s) - 1
      /\ \A i \in 1..(n - 1) : r[i] = s[i]
      /\ \A i \in n..(Len(s) - 1) : r[i] = s[i + 1]
  BY RemoveAtFacts
<1>3. /\ DOMAIN c = {s[i].key : i \in 1..Len(s)}
      /\ \A i \in 1..Len(s) : c[s[i].key] = EntryOf(s[i])
  BY ContentsFacts
<1>4. /\ DOMAIN m = DOMAIN c \ {s[n].key} /\ IsMap(m)
      /\ \A k \in DOMAIN m : m[k] = c[k]
  BY DEF Map!Without, Map!Restrict, IsMap
<1> HIDE DEF r, c, m
<1>5. \A a, b \in 1..Len(s) : a < b => s[a].key < s[b].key
  BY <1>1 DEF SortedKeys
<1>6. \A i \in 1..Len(s) : i # n => s[i].key # s[n].key
  BY <1>1, <1>5
<1>7. \A i \in 1..Len(r) : (i < n /\ r[i] = s[i]) \/ (i >= n /\ r[i] = s[i + 1])
  BY <1>1, <1>2
<1>8. SortedKeys(r)
  <2> SUFFICES ASSUME NEW i \in 1..Len(r), NEW j \in 1..Len(r), i < j PROVE r[i].key < r[j].key
    BY <1>2 DEF SortedKeys
  <2>1. i \in 1..Len(s) /\ j \in 1..Len(s) /\ i + 1 \in 1..Len(s) /\ j + 1 \in 1..Len(s)
    BY <1>1, <1>2
  <2> QED
    BY <1>5, <1>7, <2>1, SMTT(30)
<1>9. \A i \in 1..Len(r) : r[i].key \in DOMAIN m /\ m[r[i].key] = EntryOf(r[i])
  <2> SUFFICES ASSUME NEW i \in 1..Len(r)
               PROVE  r[i].key \in DOMAIN m /\ m[r[i].key] = EntryOf(r[i])
    OBVIOUS
  <2>1. PICK j \in 1..Len(s) : j # n /\ r[i] = s[j]
    <3>1. i \in 1..Len(s) /\ i + 1 \in 1..Len(s)
      BY <1>1, <1>2
    <3> QED
      BY <1>7, <3>1
  <2> QED
    BY <1>3, <1>4, <1>6, <2>1
<1>10. ASSUME NEW k \in DOMAIN m PROVE \E i \in 1..Len(r) : r[i].key = k
  <2>1. PICK j \in 1..Len(s) : j # n /\ s[j].key = k
    BY <1>3, <1>4, <1>10
  <2>2. CASE j < n
    BY <1>1, <1>2, <2>1, <2>2
  <2>3. CASE j > n
    <3>1. j - 1 \in 1..Len(r) /\ j - 1 \in n..(Len(s) - 1) /\ (j - 1) + 1 = j
      BY <1>1, <1>2, <2>3
    <3>2. r[j - 1] = s[j]
      BY <1>2, <3>1
    <3> QED
      BY <2>1, <3>1, <3>2
  <2> QED
    BY <2>1, <2>2, <2>3
<1>11. m = ContentsOf(r)
  <2>1. \A k : k \in DOMAIN m <=> \E i \in 1..Len(r) : r[i].key = k
    BY <1>9, <1>10
  <2>2. r \in Seq(INode) /\ IsMap(m) /\ \A i \in 1..Len(r) : m[r[i].key] = EntryOf(r[i])
    BY <1>2, <1>4, <1>9
  <2> QED
    BY <1>8, <2>1, <2>2, ContentsUnique
<1> QED
  BY <1>2, <1>8, <1>11 DEF r, c, m

-----------------------------------------------------------------------------
(* The inductive invariant.                                                *)

\* A node is written to pages of its own kind only, and it reads pages that have been
\* written to: isLeaf does not change, and no page has both flags.
PageKind ==
    \A p \in PageIds : pages[p].flags \subseteq {IF isLeaf THEN "leaf" ELSE "branch"}

\* The elements of a leaf page have the keys in order, and each says where its key and
\* value are.
PageFilled(pg) ==
    /\ Len(pg.elems) = pg.count
    /\ \A i \in 1..pg.count :
         /\ pg.elems[i].ksize \in Keys /\ pg.elems[i].vsize \in Values
         /\ [at |-> LeafData(pg, i), key |-> pg.elems[i].ksize, value |-> pg.elems[i].vsize]
              \in pg.data
    /\ \A i, j \in 1..pg.count : i < j => pg.elems[i].ksize < pg.elems[j].ksize
    /\ \A d, e \in pg.data : d.at = e.at => d = e

\* The elements of a leaf page have the entries of the node written to it.
PageSays(pg, m) ==
    /\ IsMap(m)
    /\ DOMAIN m = {pg.elems[i].ksize : i \in 1..pg.count}
    /\ \A i \in 1..pg.count :
         m[pg.elems[i].ksize] = [value |-> pg.elems[i].vsize, flags |-> pg.elems[i].flags]

PageEnd(pg, i) == LeafData(pg, i) + pg.elems[i].ksize + pg.elems[i].vsize

PageTight(pg, total) ==
    /\ LeafData(pg, 1) = pg.count * LeafSize
    /\ \A i \in 1..(pg.count - 1) : LeafData(pg, i + 1) = PageEnd(pg, i)
    /\ HeaderSize + PageEnd(pg, pg.count) = total

PageHolds(pg, m, total) ==
    /\ pg.count = 0 => IsMap(m) /\ DOMAIN m = {}
    /\ "leaf" \in pg.flags /\ pg.count > 0 =>
         PageFilled(pg) /\ PageSays(pg, m) /\ PageTight(pg, total)

PagesHold == \A p \in PageIds : PageHolds(pages[p], onPage[p], sizeOnPage[p])

NodeInv ==
    /\ TypeOK /\ KeysSorted /\ PageKind /\ PagesHold
    /\ IsMap(onPage) /\ DOMAIN onPage = PageIds

\* What Node::write leaves on the page.
Written(p) ==
    [flags |-> pages[p].flags \cup {IF isLeaf THEN "leaf" ELSE "branch"},
     count |-> Len(inodes),
     elems |-> IF inodes = <<>> THEN pages[p].elems ELSE [i \in DOMAIN inodes |-> ElementAt(i)],
     data |-> IF inodes = <<>> THEN pages[p].data
              ELSE {[at |-> Offset(i), key |-> inodes[i].key, value |-> inodes[i].value]
                    : i \in DOMAIN inodes}]

\* Every inode has bytes of its own, because its key is not empty.
LEMMA DataGrows ==
  ASSUME inodes \in Seq(INode), NEW i \in 0..Len(inodes), NEW j \in 0..Len(inodes), i < j
  PROVE  DataBefore[i] < DataBefore[j]
<1> DEFINE T == {n \in Nat : n > i /\ n <= Len(inodes) /\ ~(DataBefore[i] < DataBefore[n])}
<1>1. Len(inodes) \in Nat
  OBVIOUS
<1>2. /\ DataBefore \in [0..Len(inodes) -> Nat]
      /\ \A n \in 1..Len(inodes) :
           DataBefore[n] = DataBefore[n - 1] + (inodes[n].key + inodes[n].value)
  BY NodeAssumption, DataBeforeFacts
<1>3. \A n \in 1..Len(inodes) :
        /\ inodes[n].key \in Nat /\ inodes[n].key > 0 /\ inodes[n].value \in Nat
  BY InodeFacts
<1>4. \A n \in 1..Len(inodes) : DataBefore[n - 1] < DataBefore[n]
  <2> SUFFICES ASSUME NEW n \in 1..Len(inodes) PROVE DataBefore[n - 1] < DataBefore[n]
    OBVIOUS
  <2>1. n - 1 \in 0..Len(inodes) /\ n \in 1..Len(inodes)
    BY <1>1
  <2>2. DataBefore[n - 1] \in Nat
    BY <1>2, <2>1
  <2>3. inodes[n].key \in Nat /\ inodes[n].key > 0 /\ inodes[n].value \in Nat
    BY <1>3, <2>1
  <2>4. DataBefore[n] = DataBefore[n - 1] + (inodes[n].key + inodes[n].value)
    BY <1>2, <2>1
  <2> HIDE DEF T
  <2> QED
    BY <2>2, <2>3, <2>4
<1>5. T = {}
  <2> SUFFICES ASSUME T # {} PROVE FALSE
    OBVIOUS
  <2>1. T \subseteq Nat
    OBVIOUS
  <2>2. PICK n \in T : \A k \in T : n <= k
    <3> HIDE DEF T
    <3> QED
      BY <2>1, LeastNat
  <2>3. n \in Nat /\ n > i /\ n <= Len(inodes) /\ ~(DataBefore[i] < DataBefore[n])
    BY <2>2
  <2>4. n \in 1..Len(inodes) /\ n - 1 \in Nat
    BY <1>1, <2>3
  <2>5. n - 1 \notin T
    <3> HIDE DEF T
    <3> QED
      BY <2>2, <2>3, <2>4
  <2>6. DataBefore[i] < DataBefore[n - 1] \/ i = n - 1
    BY <1>1, <2>3, <2>4, <2>5
  <2>7. DataBefore[i] \in Nat /\ DataBefore[n - 1] \in Nat /\ DataBefore[n] \in Nat
    <3>1. i \in 0..Len(inodes) /\ n - 1 \in 0..Len(inodes) /\ n \in 0..Len(inodes)
      BY <1>1, <2>4
    <3> HIDE DEF T
    <3> QED
      BY <1>2, <3>1
  <2> QED
    BY <1>4, <2>3, <2>4, <2>6, <2>7
<1> QED
  BY <1>1, <1>5

\* The page a leaf with inodes is written to.
LEMMA WrittenHolds ==
  ASSUME TypeOK, KeysSorted, isLeaf, inodes # <<>>, NEW p \in PageIds
  PROVE  LET pg == Written(p)
         IN  PageFilled(pg) /\ PageSays(pg, Contents) /\ PageTight(pg, size)
<1> DEFINE N == Len(inodes)
           pg == Written(p)
<1>1. N \in Nat /\ N > 0 /\ DOMAIN inodes = 1..N /\ inodes \in Seq(INode)
  BY DEF TypeOK
<1>2. LeafSize \in Nat /\ HeaderSize \in Nat /\ N * LeafSize \in Nat
  BY <1>1, NodeAssumption DEF NodeAssumption
<1>3. /\ DataBefore \in [0..N -> Nat] /\ DataBefore[0] = 0
      /\ \A n \in 1..N : DataBefore[n] = DataBefore[n - 1] + (inodes[n].key + inodes[n].value)
  BY <1>1, NodeAssumption, DataBeforeFacts
<1>4. \A i \in 1..N : /\ inodes[i].key \in Keys /\ inodes[i].key \in Nat
                      /\ inodes[i].value \in Values /\ inodes[i].value \in Nat
  BY <1>1, InodeFacts
<1>5. \A i \in 1..N : DataBefore[i - 1] \in Nat /\ DataBefore[i] \in Nat
  BY <1>1, <1>3
<1>6. \A i \in 1..N : Offset(i) = N * LeafSize + DataBefore[i - 1] /\ Offset(i) \in Nat
  BY <1>2, <1>5 DEF Offset, pageElementSize
<1>7. /\ pg.count = N /\ pg.elems = [i \in 1..N |-> ElementAt(i)]
      /\ pg.data = {[at |-> Offset(i), key |-> inodes[i].key, value |-> inodes[i].value]
                    : i \in 1..N}
  BY <1>1 DEF Written
<1> HIDE DEF pg
<1>8. \A i \in 1..N :
        /\ pg.elems[i].ksize = inodes[i].key /\ pg.elems[i].vsize = inodes[i].value
        /\ pg.elems[i].flags = inodes[i].flags
        /\ pg.elems[i].pos = Offset(i) - (i - 1) * LeafSize
  BY <1>7 DEF ElementAt, pageElementSize
<1>9. \A i \in 1..N : LeafData(pg, i) = Offset(i)
  <2> SUFFICES ASSUME NEW i \in 1..N PROVE LeafData(pg, i) = Offset(i)
    OBVIOUS
  <2> DEFINE a == (i - 1) * LeafSize
  <2>1. a \in Int
    BY <1>2
  <2>2. LeafData(pg, i) = a + (Offset(i) - a)
    BY <1>8 DEF LeafData
  <2> HIDE DEF a
  <2> QED
    BY <1>6, <2>1, <2>2
<1>10. Len(pg.elems) = N
  BY <1>1, <1>7
<1>11. PageFilled(pg)
  <2>1. \A i \in 1..N :
          /\ pg.elems[i].ksize \in Keys /\ pg.elems[i].vsize \in Values
          /\ [at |-> LeafData(pg, i), key |-> pg.elems[i].ksize, value |-> pg.elems[i].vsize]
               \in pg.data
    BY <1>4, <1>7, <1>8, <1>9
  <2>2. \A i, j \in 1..N : i < j => pg.elems[i].ksize < pg.elems[j].ksize
    BY <1>1, <1>8 DEF KeysSorted
  <2>3. \A d, e \in pg.data : d.at = e.at => d = e
    <3> SUFFICES ASSUME NEW d \in pg.data, NEW e \in pg.data, d.at = e.at PROVE d = e
      OBVIOUS
    <3>1. PICK i \in 1..N :
            d = [at |-> Offset(i), key |-> inodes[i].key, value |-> inodes[i].value]
      BY <1>7
    <3>2. PICK j \in 1..N :
            e = [at |-> Offset(j), key |-> inodes[j].key, value |-> inodes[j].value]
      BY <1>7
    <3>3. Offset(i) = Offset(j)
      BY <3>1, <3>2
    <3>4. DataBefore[i - 1] = DataBefore[j - 1]
      BY <1>2, <1>5, <1>6, <3>3
    <3>5. i - 1 \in 0..N /\ j - 1 \in 0..N
      BY <1>1
    <3>6. ~(i - 1 < j - 1) /\ ~(j - 1 < i - 1)
      BY <1>1, <1>5, <3>4, <3>5, DataGrows
    <3>7. i = j
      BY <3>6
    <3> QED
      BY <3>1, <3>2, <3>7
  <2> QED
    BY <1>7, <1>10, <2>1, <2>2, <2>3 DEF PageFilled
<1>12. PageSays(pg, Contents)
  <2> DEFINE c == ContentsOf(inodes)
  <2>1. Contents = c
    BY DEF Contents, ContentsOf
  <2>2. /\ IsMap(c)
        /\ DOMAIN c = {inodes[i].key : i \in 1..N}
        /\ \A i \in 1..N : c[inodes[i].key] = EntryOf(inodes[i])
    <3>1. SortedKeys(inodes)
      BY DEF KeysSorted, SortedKeys
    <3> QED
      BY <1>1, <3>1, ContentsFacts
  <2> HIDE DEF c
  <2>3. DOMAIN c = {pg.elems[i].ksize : i \in 1..N}
    BY <1>8, <2>2, ZenonT(30)
  <2>4. \A i \in 1..N :
          c[pg.elems[i].ksize] = [value |-> pg.elems[i].vsize, flags |-> pg.elems[i].flags]
    BY <1>8, <2>2 DEF EntryOf
  <2>5. PageSays(pg, c)
    BY <1>7, <2>2, <2>3, <2>4 DEF PageSays
  <2> QED
    BY <2>1, <2>5
<1>13. PageTight(pg, size)
  <2>1. \A i \in 1..N : PageEnd(pg, i) = N * LeafSize + DataBefore[i]
    <3> SUFFICES ASSUME NEW i \in 1..N PROVE PageEnd(pg, i) = N * LeafSize + DataBefore[i]
      OBVIOUS
    <3>1. PageEnd(pg, i) = Offset(i) + inodes[i].key + inodes[i].value
      BY <1>8, <1>9 DEF PageEnd
    <3>2. DataBefore[i] = DataBefore[i - 1] + (inodes[i].key + inodes[i].value)
      BY <1>3
    <3> DEFINE a == N * LeafSize
    <3>3. a \in Nat /\ Offset(i) = a + DataBefore[i - 1]
      BY <1>2, <1>6
    <3>4. DataBefore[i - 1] \in Nat /\ inodes[i].key \in Nat /\ inodes[i].value \in Nat
      BY <1>4, <1>5
    <3> HIDE DEF a
    <3>5. PageEnd(pg, i) = a + DataBefore[i]
      BY <3>1, <3>2, <3>3, <3>4
    <3> QED
      BY <3>5 DEF a
  <2>2. LeafData(pg, 1) = N * LeafSize
    BY <1>1, <1>2, <1>3, <1>6, <1>9
  <2>3. \A i \in 1..(N - 1) : LeafData(pg, i + 1) = PageEnd(pg, i)
    <3> SUFFICES ASSUME NEW i \in 1..(N - 1) PROVE LeafData(pg, i + 1) = PageEnd(pg, i)
      OBVIOUS
    <3>1. i \in 1..N /\ i + 1 \in 1..N /\ (i + 1) - 1 = i
      BY <1>1
    <3> QED
      BY <1>6, <1>9, <2>1, <3>1
  <2>4. size = HeaderSize + N * LeafSize + DataBefore[N]
    BY DEF size, pageElementSize
  <2>5. HeaderSize + PageEnd(pg, N) = size
    BY <1>1, <1>2, <1>5, <2>1, <2>4
  <2> QED
    BY <1>7, <2>2, <2>3, <2>5 DEF PageTight
<1> QED
  BY <1>11, <1>12, <1>13 DEF pg

\* What Node::read makes of a page.
ReadInodes(pg, garbage) ==
    [i \in 1..pg.count |->
        [flags |-> pg.elems[i].flags, id |-> garbage[i], key |-> KeyRead(pg, i),
         value |-> Chunk(pg, LeafData(pg, i)).value]]

\* The page gives back the contents of the node that was written to it.
LEMMA ReadHolds ==
  ASSUME NEW pg \in PageType, NEW m, NEW total, PageHolds(pg, m, total), ~ZeroKey(pg),
         NEW garbage \in [1..pg.count -> Ids]
  PROVE  LET r == ReadInodes(pg, garbage)
         IN  r \in Seq(INode) /\ SortedKeys(r) /\ ContentsOf(r) = m
<1> DEFINE r == ReadInodes(pg, garbage)
           N == pg.count
<1>1. N \in Nat /\ pg.elems \in Seq([pos : Int, ksize : Nat, vsize : Nat, flags : Flags, id : Ids])
  BY DEF PageType
<1>2. Len(r) = N /\ DOMAIN r = 1..N
  BY <1>1 DEF ReadInodes
<1>3. CASE N = 0
  <2>1. r = <<>>
    BY <1>2, <1>3 DEF ReadInodes
  <2>2. IsMap(m) /\ DOMAIN m = {}
    BY <1>3 DEF PageHolds
  <2>3. <<>> \in Seq(INode) /\ Len(<<>>) = 0
    OBVIOUS
  <2>4. SortedKeys(<<>>)
    BY DEF SortedKeys
  <2>5. /\ \A k : k \in DOMAIN m <=> \E i \in 1..Len(<<>>) : <<>>[i].key = k
        /\ \A i \in 1..Len(<<>>) : m[<<>>[i].key] = EntryOf(<<>>[i])
    BY <2>2, <2>3
  <2>6. m = ContentsOf(<<>>)
    BY <2>2, <2>3, <2>4, <2>5, ContentsUnique
  <2> QED
    BY <2>1, <2>3, <2>4, <2>6
<1>4. CASE N > 0
  <2>1. "leaf" \in pg.flags
    BY <1>1, <1>4 DEF ZeroKey, KeyRead
  <2>2. PageFilled(pg) /\ PageSays(pg, m)
    BY <1>4, <2>1 DEF PageHolds
  <2>3. \A i \in 1..N :
          /\ Chunk(pg, LeafData(pg, i)).key = pg.elems[i].ksize
          /\ Chunk(pg, LeafData(pg, i)).value = pg.elems[i].vsize
    <3> SUFFICES ASSUME NEW i \in 1..N
                 PROVE  /\ Chunk(pg, LeafData(pg, i)).key = pg.elems[i].ksize
                        /\ Chunk(pg, LeafData(pg, i)).value = pg.elems[i].vsize
      OBVIOUS
    <3> DEFINE off == LeafData(pg, i)
               d == [at |-> off, key |-> pg.elems[i].ksize, value |-> pg.elems[i].vsize]
    <3>1. d \in pg.data /\ d.at = off
      BY <2>2 DEF PageFilled
    <3>2. \A a, b \in pg.data : a.at = b.at => a = b
      BY <2>2 DEF PageFilled
    <3>3. d.key = pg.elems[i].ksize /\ d.value = pg.elems[i].vsize
      OBVIOUS
    <3> HIDE DEF off, d
    <3>4. Chunk(pg, off) = d
      BY <3>1, <3>2 DEF Chunk
    <3> QED
      BY <3>3, <3>4 DEF off
  <2>4. \A i \in 1..N :
          r[i] = [flags |-> pg.elems[i].flags, id |-> garbage[i], key |-> pg.elems[i].ksize,
                  value |-> pg.elems[i].vsize]
    BY <2>1, <2>3 DEF ReadInodes, KeyRead
  <2>5. \A i \in 1..N : pg.elems[i].flags \in Flags
    <3> DEFINE E == [pos : Int, ksize : Nat, vsize : Nat, flags : Flags, id : Ids]
    <3>1. N = Len(pg.elems) /\ pg.elems \in Seq(E)
      BY <1>1, <2>2 DEF PageFilled
    <3>2. \A x \in E : x.flags \in Flags
      OBVIOUS
    <3> HIDE DEF E
    <3>3. \A i \in 1..N : pg.elems[i] \in E
      BY <3>1
    <3> QED
      BY <3>2, <3>3
  <2>6. r \in [1..N -> INode]
    <3>1. ASSUME NEW i \in 1..N PROVE r[i] \in INode
      <4>1. pg.elems[i].ksize \in Keys /\ pg.elems[i].vsize \in Values /\ garbage[i] \in Ids
        BY <2>2, <3>1 DEF PageFilled
      <4>2. pg.elems[i].flags \in Flags
        BY <2>5, <3>1
      <4>3. \A f \in Flags, g \in Ids, k \in Keys, v \in Values :
              [flags |-> f, id |-> g, key |-> k, value |-> v] \in INode
        BY DEF INode
      <4> HIDE DEF r, N
      <4> QED
        BY <2>4, <3>1, <4>1, <4>2, <4>3
    <3>2. r = [i \in 1..N |-> r[i]]
      BY DEF ReadInodes
    <3> HIDE DEF r
    <3> QED
      BY <3>1, <3>2
  <2> HIDE DEF r
  <2>7. r \in Seq(INode)
    <3> HIDE DEF N
    <3> QED
      BY <1>1, <2>6
  <2>8. \A i \in 1..N : r[i].key = pg.elems[i].ksize /\ EntryOf(r[i]) =
          [value |-> pg.elems[i].vsize, flags |-> pg.elems[i].flags]
    <3> SUFFICES ASSUME NEW i \in 1..N
                 PROVE  r[i].key = pg.elems[i].ksize /\ EntryOf(r[i]) =
                          [value |-> pg.elems[i].vsize, flags |-> pg.elems[i].flags]
      OBVIOUS
    <3> HIDE DEF N
    <3>1. r[i] = [flags |-> pg.elems[i].flags, id |-> garbage[i], key |-> pg.elems[i].ksize,
                  value |-> pg.elems[i].vsize]
      BY <2>4
    <3>2. /\ r[i].key = pg.elems[i].ksize /\ r[i].value = pg.elems[i].vsize
          /\ r[i].flags = pg.elems[i].flags
      BY <3>1
    <3> QED
      BY <3>2 DEF EntryOf
  <2>9. SortedKeys(r)
    <3>1. \A i, j \in 1..N : i < j => pg.elems[i].ksize < pg.elems[j].ksize
      BY <2>2 DEF PageFilled
    <3> HIDE DEF N
    <3> QED
      BY <1>2, <2>8, <3>1 DEF SortedKeys
  <2>10. /\ IsMap(m) /\ DOMAIN m = {pg.elems[i].ksize : i \in 1..N}
         /\ \A i \in 1..N :
              m[pg.elems[i].ksize] = [value |-> pg.elems[i].vsize, flags |-> pg.elems[i].flags]
    BY <2>2 DEF PageSays
  <2> HIDE DEF N
  <2>11. \A i \in 1..Len(r) : m[r[i].key] = EntryOf(r[i])
    BY <1>2, <2>8, <2>10
  <2>12. \A k : k \in DOMAIN m <=> \E i \in 1..Len(r) : r[i].key = k
    BY <1>2, <2>8, <2>10
  <2>13. m = ContentsOf(r)
    BY <2>7, <2>9, <2>10, <2>11, <2>12, ContentsUnique
  <2> QED
    BY <2>7, <2>9, <2>13 DEF r
<1> QED
  BY <1>1, <1>3, <1>4

-----------------------------------------------------------------------------
(* The operations, on the inodes and on the map.                           *)

LEMMA ContentsNow ==
  ASSUME NodeInv
  PROVE  /\ inodes \in Seq(INode) /\ SortedKeys(inodes)
         /\ Contents = ContentsOf(inodes) /\ Contents' = ContentsOf(inodes')
         /\ KeysSorted' <=> SortedKeys(inodes')
BY DEF NodeInv, TypeOK, KeysSorted, SortedKeys, Contents, ContentsOf

LEMMA GetStep ==
  ASSUME NodeInv, NEW k \in Keys, Get(k)
  PROVE  /\ Map!Get(k)
         /\ answer' \in [key : Keys \cup {0}, entry : [value : Values, flags : Flags] \cup {NotFound}]
<1> DEFINE c == ContentsOf(inodes)
           n == Index(k)
<1>1. /\ inodes \in Seq(INode) /\ SortedKeys(inodes) /\ KeysSorted
      /\ Contents = ContentsOf(inodes) /\ Contents' = ContentsOf(inodes')
  BY ContentsNow DEF NodeInv
<1>2. k \in Nat
  BY NodeAssumption DEF NodeAssumption
<1>3. /\ DOMAIN c = {inodes[i].key : i \in 1..Len(inodes)}
      /\ \A i \in 1..Len(inodes) : c[inodes[i].key] = EntryOf(inodes[i])
  BY <1>1, ContentsFacts
<1>4. /\ Exact(k) => n \in 1..Len(inodes) /\ inodes[n].key = k
      /\ ~Exact(k) => \A i \in 1..Len(inodes) : inodes[i].key # k
  BY <1>1, <1>2, ExactFacts
<1>5. inodes' = inodes /\ onPage' = onPage
  BY DEF Get
<1>6. answer' = [key |-> k, entry |-> IF Exact(k) THEN EntryOf(inodes[n]) ELSE NotFound]
  BY DEF Get, EntryOf
<1> HIDE DEF c, n
<1>7. Exact(k) => k \in DOMAIN c /\ c[k] = EntryOf(inodes[n])
  BY <1>3, <1>4
<1>8. ~Exact(k) => k \notin DOMAIN c
  BY <1>3, <1>4
<1>9. answer' = [key |-> k, entry |-> IF k \in DOMAIN c THEN c[k] ELSE NotFound]
  BY <1>6, <1>7, <1>8
<1>10. Map!Get(k)
  BY <1>1, <1>5, <1>9 DEF Map!Get, c
<1>11. (IF Exact(k) THEN EntryOf(inodes[n]) ELSE NotFound)
          \in [value : Values, flags : Flags] \cup {NotFound}
  <2>1. CASE Exact(k)
    <3>1. inodes[n].value \in Values /\ inodes[n].flags \in Flags
      BY <1>1, <1>4, <2>1, InodeFacts
    <3>2. EntryOf(inodes[n]) \in [value : Values, flags : Flags]
      BY <3>1 DEF EntryOf
    <3> QED
      BY <2>1, <3>2
  <2>2. CASE ~Exact(k)
    BY <2>2
  <2> QED
    BY <2>1, <2>2
<1> QED
  BY <1>6, <1>10, <1>11

LEMMA PutStep ==
  ASSUME NodeInv, NEW old \in Keys, NEW new \in Keys, NEW v \in Values, NEW id \in Ids,
         NEW f \in Flags, Fits(old, new), Put(old, new, v, id, f)
  PROVE  /\ inodes' \in Seq(INode) /\ KeysSorted'
         /\ Map!Put(old, new, [value |-> v, flags |-> f])
<1> DEFINE e == [flags |-> f, id |-> id, key |-> new, value |-> v]
           n == Index(old)
           c == ContentsOf(inodes)
<1>1. /\ inodes \in Seq(INode) /\ SortedKeys(inodes) /\ KeysSorted
      /\ Contents = ContentsOf(inodes) /\ Contents' = ContentsOf(inodes')
      /\ KeysSorted' <=> SortedKeys(inodes')
  BY ContentsNow DEF NodeInv
<1>2. old \in Nat
  BY NodeAssumption DEF NodeAssumption
<1>3. e \in INode /\ e.key = new /\ EntryOf(e) = [value |-> v, flags |-> f]
  BY DEF INode, EntryOf
<1>4. n \in 1..(Len(inodes) + 1)
  BY <1>1, <1>2, IndexFacts
<1>5. /\ Exact(old) => n \in 1..Len(inodes) /\ inodes[n].key = old
      /\ ~Exact(old) => \A i \in 1..Len(inodes) : inodes[i].key # old
  BY <1>1, <1>2, ExactFacts
<1>6. /\ \A i \in 1..(n - 1) : inodes[i].key < new
      /\ Exact(old) => \A i \in (n + 1)..Len(inodes) : new < inodes[i].key
      /\ ~Exact(old) => \A i \in n..Len(inodes) : new < inodes[i].key
  BY DEF Fits
<1>7. /\ inodes' = IF Exact(old) THEN ReplaceAt(inodes, n, e) ELSE InsertAt(inodes, n, e)
      /\ answer' = Map!NoAnswer /\ onPage' = onPage
  BY DEF Put, NoAnswer, Map!NoAnswer
<1> HIDE DEF e, n, c
<1>8. /\ inodes' \in Seq(INode) /\ SortedKeys(inodes')
      /\ new \notin DOMAIN c \ {old}
      /\ Map!With(Map!Without(c, old), new, EntryOf(e)) = ContentsOf(inodes')
  <2>1. CASE Exact(old)
    <3>1. inodes' = ReplaceAt(inodes, n, e) /\ inodes[n].key = old /\ n \in 1..Len(inodes)
      BY <1>5, <1>7, <2>1
    <3> QED
      BY <1>1, <1>3, <1>6, <2>1, <3>1, ReplaceEntry DEF c
  <2>2. CASE ~Exact(old)
    <3>1. inodes' = InsertAt(inodes, n, e) /\ \A i \in 1..Len(inodes) : inodes[i].key # old
      BY <1>5, <1>7, <2>2
    <3> QED
      BY <1>1, <1>3, <1>4, <1>6, <2>2, <3>1, InsertEntry DEF c
  <2> QED
    BY <2>1, <2>2
<1>9. Map!Put(old, new, [value |-> v, flags |-> f])
  BY <1>1, <1>3, <1>7, <1>8 DEF Map!Put, c
<1> QED
  BY <1>1, <1>8, <1>9

LEMMA DelStep ==
  ASSUME NodeInv, NEW k \in Keys, Del(k)
  PROVE  /\ inodes' \in Seq(INode) /\ KeysSorted' /\ Map!Del(k)
<1> DEFINE n == Index(k)
           c == ContentsOf(inodes)
<1>1. /\ inodes \in Seq(INode) /\ SortedKeys(inodes) /\ KeysSorted
      /\ Contents = ContentsOf(inodes) /\ Contents' = ContentsOf(inodes')
      /\ KeysSorted' <=> SortedKeys(inodes')
  BY ContentsNow DEF NodeInv
<1>2. k \in Nat
  BY NodeAssumption DEF NodeAssumption
<1>3. /\ Exact(k) => n \in 1..Len(inodes) /\ inodes[n].key = k
      /\ ~Exact(k) => \A i \in 1..Len(inodes) : inodes[i].key # k
  BY <1>1, <1>2, ExactFacts
<1>4. /\ Exact(k) => inodes' = RemoveAt(inodes, n)
      /\ ~Exact(k) => inodes' = inodes
      /\ answer' = Map!NoAnswer /\ onPage' = onPage
  BY DEF Del, NoAnswer, Map!NoAnswer
<1> HIDE DEF n, c
<1>5. inodes' \in Seq(INode) /\ SortedKeys(inodes') /\ Map!Without(c, k) = ContentsOf(inodes')
  <2>1. CASE Exact(k)
    BY <1>1, <1>3, <1>4, <2>1, RemoveEntry DEF c
  <2>2. CASE ~Exact(k)
    <3>1. IsMap(c) /\ DOMAIN c = {inodes[i].key : i \in 1..Len(inodes)}
      BY <1>1, ContentsFacts DEF c
    <3>2. k \notin DOMAIN c
      BY <1>3, <2>2, <3>1
    <3>3. Map!Without(c, k) = [x \in DOMAIN c |-> c[x]]
      BY <3>2 DEF Map!Without, Map!Restrict
    <3>4. Map!Without(c, k) = c
      BY <3>1, <3>3 DEF IsMap
    <3> QED
      BY <1>1, <1>4, <2>2, <3>4 DEF c
  <2> QED
    BY <2>1, <2>2
<1>6. Map!Del(k)
  BY <1>1, <1>4, <1>5 DEF Map!Del, c
<1> QED
  BY <1>1, <1>5, <1>6

LEMMA ReadStep ==
  ASSUME NodeInv, NEW p \in PageIds, pages[p].flags # {}, Read(p)
  PROVE  /\ inodes' \in Seq(INode) /\ KeysSorted' /\ isLeaf' = isLeaf
         /\ key_' \in Keys \cup {0} /\ backing' \subseteq PageIds
         /\ Map!Read(p)
<1> DEFINE pg == pages[p]
<1>1. /\ Contents = ContentsOf(inodes) /\ Contents' = ContentsOf(inodes')
      /\ KeysSorted' <=> SortedKeys(inodes')
  BY ContentsNow
<1>2. pg \in PageType /\ PageHolds(pg, onPage[p], sizeOnPage[p])
  BY DEF NodeInv, TypeOK, PagesHold
<1>3. PICK garbage \in [1..pg.count -> Ids] : inodes' = ReadInodes(pg, garbage)
  BY DEF Read, ReadInodes
<1>4. /\ ~ZeroKey(pg) /\ isLeaf' = ("leaf" \in pg.flags)
      /\ key_' = IF pg.count > 0 THEN inodes'[1].key ELSE key_
      /\ backing' = IF pg.count > 0 THEN {p} ELSE {}
      /\ answer' = Map!NoAnswer /\ onPage' = onPage
  BY DEF Read, NoAnswer, Map!NoAnswer
<1>5. pg.flags \subseteq {IF isLeaf THEN "leaf" ELSE "branch"} /\ isLeaf \in BOOLEAN
      /\ key_ \in Keys \cup {0} /\ pg.count \in Nat
  <2>1. /\ isLeaf \in BOOLEAN /\ key_ \in Keys \cup {0}
    BY DEF NodeInv, TypeOK
  <2>2. pg.flags \subseteq {IF isLeaf THEN "leaf" ELSE "branch"}
    BY DEF NodeInv, PageKind
  <2>3. pg.count \in Nat
    BY <1>2 DEF PageType
  <2> QED
    BY <2>1, <2>2, <2>3
<1>6. isLeaf' = isLeaf
  BY <1>4, <1>5
<1>7. inodes' \in Seq(INode) /\ SortedKeys(inodes') /\ ContentsOf(inodes') = onPage[p]
  BY <1>2, <1>3, <1>4, ReadHolds
<1>8. Len(inodes') = pg.count
  BY <1>3, <1>5 DEF ReadInodes
<1>9. key_' \in Keys \cup {0}
  <2>1. CASE pg.count > 0
    <3>1. 1 \in 1..Len(inodes')
      BY <1>5, <1>8, <2>1
    <3>2. inodes'[1].key \in Keys
      BY <1>7, <3>1, SeqInodeFacts
    <3> QED
      BY <1>4, <2>1, <3>2
  <2>2. CASE ~(pg.count > 0)
    BY <1>4, <1>5, <2>2
  <2> QED
    BY <2>1, <2>2
<1>10. backing' \subseteq PageIds
  BY <1>4
<1>11. Map!Read(p)
  BY <1>1, <1>4, <1>7 DEF Map!Read
<1> QED
  BY <1>1, <1>6, <1>7, <1>9, <1>10, <1>11

\* A written page has the type of a page.
LEMMA WrittenType ==
  ASSUME TypeOK, NEW p \in PageIds
  PROVE  Written(p) \in PageType /\ size \in Nat
<1> DEFINE N == Len(inodes)
           E == [pos : Int, ksize : Nat, vsize : Nat, flags : Flags, id : Ids]
           D == [at : Nat, key : Nat, value : Nat]
<1>1. N \in Nat /\ DOMAIN inodes = 1..N /\ inodes \in Seq(INode)
  BY DEF TypeOK
<1>2. pageElementSize \in Nat /\ HeaderSize \in Nat
  BY NodeAssumption DEF NodeAssumption, pageElementSize
<1>3. N * pageElementSize \in Nat /\ \A i \in 1..N : (i - 1) * pageElementSize \in Int
  BY <1>1, <1>2
<1>4. DataBefore \in [0..N -> Nat]
  BY <1>1, NodeAssumption, DataBeforeFacts
<1>5. \A i \in 1..N : /\ inodes[i].key \in Nat /\ inodes[i].value \in Nat
                      /\ inodes[i].flags \in Flags /\ inodes[i].id \in Ids
  BY <1>1, InodeFacts
<1>6. \A i \in 1..N : Offset(i) \in Nat
  <2> SUFFICES ASSUME NEW i \in 1..N PROVE Offset(i) \in Nat
    OBVIOUS
  <2>1. i - 1 \in 0..N
    BY <1>1
  <2>2. DataBefore[i - 1] \in Nat
    BY <1>4, <2>1
  <2> QED
    BY <1>3, <2>2 DEF Offset
<1>7. \A i \in 1..N : ElementAt(i) \in E
  <2> SUFFICES ASSUME NEW i \in 1..N PROVE ElementAt(i) \in E
    OBVIOUS
  <2>1. Offset(i) - (i - 1) * pageElementSize \in Int
    <3> DEFINE a == (i - 1) * pageElementSize
    <3>1. a \in Int /\ Offset(i) \in Int
      BY <1>3, <1>6
    <3> HIDE DEF a
    <3>2. Offset(i) - a \in Int
      BY <3>1
    <3> QED
      BY <3>2 DEF a
  <2> QED
    BY <1>5, <2>1 DEF ElementAt
<1>8. pages[p] \in PageType
  BY DEF TypeOK
<1>9. pages[p].flags \subseteq {"leaf", "branch"} /\ pages[p].elems \in Seq(E) /\ pages[p].data \subseteq D
  BY <1>8 DEF PageType
<1> DEFINE W == Written(p)
<1>10. W.elems \in Seq(E)
  <2>1. CASE inodes = <<>>
    BY <1>9, <2>1 DEF Written
  <2>2. CASE inodes # <<>>
    <3>1. W.elems = [i \in 1..N |-> ElementAt(i)]
      BY <1>1, <2>2 DEF Written
    <3> HIDE DEF W, E
    <3>2. W.elems \in [1..N -> E]
      BY <1>7, <3>1
    <3> QED
      BY <1>1, <3>2
  <2> QED
    BY <2>1, <2>2
<1>11. W.data \subseteq D
  <2>1. CASE inodes = <<>>
    BY <1>9, <2>1 DEF Written
  <2>2. CASE inodes # <<>>
    <3>1. W.data = {[at |-> Offset(i), key |-> inodes[i].key, value |-> inodes[i].value] : i \in 1..N}
      BY <1>1, <2>2 DEF Written
    <3>2. \A i \in 1..N :
            [at |-> Offset(i), key |-> inodes[i].key, value |-> inodes[i].value] \in D
      BY <1>5, <1>6
    <3> HIDE DEF W, D
    <3> QED
      BY <3>1, <3>2
  <2> QED
    BY <2>1, <2>2
<1>12. W.flags \subseteq {"leaf", "branch"} /\ W.count \in Nat
  BY <1>1, <1>9 DEF Written
<1>13. W = [flags |-> W.flags, count |-> W.count, elems |-> W.elems, data |-> W.data]
  BY DEF Written
<1>14. W \in PageType
  <2> HIDE DEF W
  <2> QED
    BY <1>10, <1>11, <1>12, <1>13 DEF PageType
<1>15. size \in Nat
  <2>1. DataBefore[N] \in Nat
    BY <1>1, <1>4
  <2> QED
    BY <1>2, <1>3, <2>1 DEF size
<1> QED
  BY <1>14, <1>15

LEMMA WriteStep ==
  ASSUME NodeInv, NEW p \in PageIds, Write(p)
  PROVE  NodeInv' /\ Map!Write(p)
<1>1. /\ pages' = [pages EXCEPT ![p] = Written(p)]
      /\ onPage' = [onPage EXCEPT ![p] = Contents]
      /\ sizeOnPage' = [sizeOnPage EXCEPT ![p] = size]
      /\ answer' = NoAnswer
      /\ UNCHANGED <<inodes, isLeaf, unbalanced, key_, backing, exited>>
  BY DEF Write, Written
<1>2. TypeOK /\ KeysSorted /\ PageKind /\ PagesHold /\ IsMap(onPage) /\ DOMAIN onPage = PageIds
  BY DEF NodeInv
<1>3. /\ inodes \in Seq(INode) /\ SortedKeys(inodes)
      /\ Contents = ContentsOf(inodes) /\ Contents' = ContentsOf(inodes')
  BY ContentsNow
<1>4. Written(p) \in PageType /\ size \in Nat
  BY <1>2, WrittenType
<1>5. TypeOK'
  <2>1. pages' \in [PageIds -> PageType]
    BY <1>1, <1>2, <1>4 DEF TypeOK
  <2>2. sizeOnPage' \in [PageIds -> Nat]
    BY <1>1, <1>2, <1>4 DEF TypeOK
  <2>3. answer' \in [key : Keys \cup {0}, entry : [value : Values, flags : Flags] \cup {NotFound}]
    BY <1>1 DEF NoAnswer
  <2> QED
    BY <1>1, <1>2, <2>1, <2>2, <2>3 DEF TypeOK
<1>6. KeysSorted'
  BY <1>1, <1>2 DEF KeysSorted
<1>7. Written(p).flags = pages[p].flags \cup {IF isLeaf THEN "leaf" ELSE "branch"}
      /\ Written(p).count = Len(inodes)
  BY DEF Written
<1>8. /\ pages'[p] = Written(p) /\ onPage'[p] = Contents /\ sizeOnPage'[p] = size
      /\ \A q \in PageIds \ {p} : /\ pages'[q] = pages[q] /\ onPage'[q] = onPage[q]
                                  /\ sizeOnPage'[q] = sizeOnPage[q]
  <2>1. pages \in [PageIds -> PageType] /\ sizeOnPage \in [PageIds -> Nat]
    BY <1>2 DEF TypeOK
  <2> QED
    BY <1>1, <1>2, <2>1 DEF IsMap
<1>9. PageKind'
  <2> SUFFICES ASSUME NEW q \in PageIds
               PROVE  pages'[q].flags \subseteq {IF isLeaf THEN "leaf" ELSE "branch"}
    BY <1>1 DEF PageKind
  <2>1. pages[q].flags \subseteq {IF isLeaf THEN "leaf" ELSE "branch"}
    BY <1>2 DEF PageKind
  <2>2. CASE q = p
    BY <1>7, <1>8, <2>1, <2>2
  <2>3. CASE q # p
    BY <1>8, <2>1, <2>3
  <2> QED
    BY <2>2, <2>3
<1>10. PageHolds(Written(p), Contents, size)
  <2>1. CASE inodes = <<>>
    <3>1. Len(inodes) = 0 /\ 1..Len(inodes) = {}
      BY <2>1
    <3>2. IsMap(Contents) /\ DOMAIN Contents = {inodes[i].key : i \in 1..Len(inodes)}
      BY <1>3, ContentsFacts
    <3> QED
      BY <1>7, <3>1, <3>2 DEF PageHolds
  <2>2. CASE inodes # <<>>
    <3>1. Len(inodes) \in Nat /\ Len(inodes) # 0
      BY <1>3, <2>2
    <3>2. ASSUME "leaf" \in Written(p).flags PROVE isLeaf
      <4>1. isLeaf \in BOOLEAN /\ pages[p].flags \subseteq {IF isLeaf THEN "leaf" ELSE "branch"}
        BY <1>2 DEF TypeOK, PageKind
      <4> QED
        BY <1>7, <3>2, <4>1
    <3>3. isLeaf => /\ PageFilled(Written(p)) /\ PageSays(Written(p), Contents)
                    /\ PageTight(Written(p), size)
      BY <1>2, <2>2, WrittenHolds
    <3> QED
      BY <1>7, <3>1, <3>2, <3>3 DEF PageHolds
  <2> QED
    BY <2>1, <2>2
<1>11. PagesHold'
  <2> SUFFICES ASSUME NEW q \in PageIds PROVE PageHolds(pages'[q], onPage'[q], sizeOnPage'[q])
    BY DEF PagesHold, PageHolds, PageFilled, PageSays, PageTight, PageEnd, LeafData
  <2>1. CASE q = p
    BY <1>8, <1>10, <2>1
  <2>2. CASE q # p
    BY <1>2, <1>8, <2>2 DEF PagesHold
  <2> QED
    BY <2>1, <2>2
<1>12. IsMap(onPage') /\ DOMAIN onPage' = PageIds
  BY <1>1, <1>2 DEF IsMap
<1>13. NodeInv'
  BY <1>5, <1>6, <1>9, <1>11, <1>12 DEF NodeInv, IsMap
<1>14. Map!Write(p)
  BY <1>1, <1>3 DEF Map!Write, NoAnswer, Map!NoAnswer
<1> QED
  BY <1>13, <1>14

\* Steps that leave the pages alone keep what they hold.
LEMMA PagesKept ==
  ASSUME NodeInv, UNCHANGED <<isLeaf, pages, onPage, sizeOnPage>>
  PROVE  PageKind' /\ PagesHold' /\ (IsMap(onPage) /\ DOMAIN onPage = PageIds)'
<1>1. PageKind /\ PagesHold /\ IsMap(onPage) /\ DOMAIN onPage = PageIds
  BY DEF NodeInv
<1>2. PageKind'
  BY <1>1 DEF PageKind
<1>3. PagesHold'
  <2> SUFFICES ASSUME NEW q \in PageIds PROVE PageHolds(pages'[q], onPage'[q], sizeOnPage'[q])
    BY DEF PagesHold, PageHolds, PageFilled, PageSays, PageTight, PageEnd, LeafData
  <2> QED
    BY <1>1 DEF PagesHold
<1>4. (IsMap(onPage) /\ DOMAIN onPage = PageIds)'
  BY <1>1 DEF IsMap
<1> QED
  BY <1>2, <1>3, <1>4

LEMMA NodeInit ==
  ASSUME Init
  PROVE  NodeInv /\ Map!Init
<1>1. /\ inodes = <<>> /\ isLeaf \in BOOLEAN /\ unbalanced \in BOOLEAN
      /\ key_ = 0 /\ backing = {} /\ answer = NoAnswer /\ exited = FALSE
      /\ pages = [p \in PageIds |-> EmptyPage]
      /\ onPage = [p \in PageIds |-> Contents]
      /\ sizeOnPage = [p \in PageIds |-> HeaderSize]
  BY DEF Init
<1>2. inodes \in Seq(INode)
  BY <1>1
<1>3. EmptyPage \in PageType
  BY DEF EmptyPage, PageType
<1>4. TypeOK
  <2>1. pages \in [PageIds -> PageType]
    BY <1>1, <1>3
  <2>2. sizeOnPage \in [PageIds -> Nat]
    BY <1>1, NodeAssumption DEF NodeAssumption
  <2>3. answer \in [key : Keys \cup {0}, entry : [value : Values, flags : Flags] \cup {NotFound}]
    BY <1>1 DEF NoAnswer
  <2> QED
    BY <1>1, <1>2, <2>1, <2>2, <2>3 DEF TypeOK
<1>5. KeysSorted
  BY <1>1 DEF KeysSorted
<1>6. PageKind
  BY <1>1 DEF PageKind, EmptyPage
<1>7. Contents = Map!Empty /\ IsMap(Contents) /\ DOMAIN Contents = {}
  BY <1>1 DEF Contents, Map!Empty, IsMap
<1>8. PagesHold
  BY <1>1, <1>7 DEF PagesHold, PageHolds, EmptyPage
<1>9. IsMap(onPage) /\ DOMAIN onPage = PageIds
  BY <1>1 DEF IsMap
<1>10. Map!Init
  BY <1>1, <1>7 DEF Map!Init, NoAnswer, Map!NoAnswer
<1> QED
  BY <1>4, <1>5, <1>6, <1>8, <1>9, <1>10 DEF NodeInv

\* Every operation keeps the invariant, and is an operation of the map or, where the
\* process exits, none.
LEMMA NodeNext ==
  ASSUME NodeInv, [Next]_vars
  PROVE  NodeInv' /\ [Map!Next]_(Map!vars)
<1>1. TypeOK /\ KeysSorted
  BY DEF NodeInv
<1>2. Contents = ContentsOf(inodes) /\ Contents' = ContentsOf(inodes')
  BY ContentsNow
<1>3. NoAnswer \in [key : Keys \cup {0}, entry : [value : Values, flags : Flags] \cup {NotFound}]
  BY DEF NoAnswer
<1>4. ASSUME NEW k \in Keys, Get(k) PROVE NodeInv' /\ Map!Next
  <2>1. Map!Get(k) /\ answer' \in [key : Keys \cup {0},
                                   entry : [value : Values, flags : Flags] \cup {NotFound}]
    BY <1>4, GetStep
  <2>2. UNCHANGED <<inodes, isLeaf, unbalanced, key_, backing, pages, exited, onPage, sizeOnPage>>
    BY <1>4 DEF Get
  <2>3. TypeOK' /\ KeysSorted'
    BY <1>1, <2>1, <2>2 DEF TypeOK, KeysSorted
  <2>4. PageKind' /\ PagesHold' /\ (IsMap(onPage) /\ DOMAIN onPage = PageIds)'
    BY <2>2, PagesKept
  <2> QED
    BY <2>1, <2>3, <2>4 DEF NodeInv, Map!Next
<1>5. ASSUME NEW k \in Keys, Del(k) PROVE NodeInv' /\ Map!Next
  <2>1. inodes' \in Seq(INode) /\ KeysSorted' /\ Map!Del(k)
    BY <1>5, DelStep
  <2>2. /\ UNCHANGED <<isLeaf, key_, backing, pages, exited, onPage, sizeOnPage>>
        /\ unbalanced' \in {TRUE, unbalanced} /\ answer' = NoAnswer
    BY <1>5 DEF Del
  <2>3. TypeOK'
    BY <1>1, <1>3, <2>1, <2>2 DEF TypeOK
  <2>4. PageKind' /\ PagesHold' /\ (IsMap(onPage) /\ DOMAIN onPage = PageIds)'
    BY <2>2, PagesKept
  <2> QED
    BY <2>1, <2>3, <2>4 DEF NodeInv, Map!Next
<1>6. ASSUME NEW old \in Keys, NEW new \in Keys, NEW v \in Values, NEW id \in Ids,
             NEW f \in Flags, Fits(old, new), Put(old, new, v, id, f)
      PROVE  NodeInv' /\ Map!Next
  <2>1. /\ inodes' \in Seq(INode) /\ KeysSorted'
        /\ Map!Put(old, new, [value |-> v, flags |-> f])
    BY <1>6, PutStep
  <2>2. /\ UNCHANGED <<isLeaf, unbalanced, key_, backing, pages, exited, onPage, sizeOnPage>>
        /\ answer' = NoAnswer
    BY <1>6 DEF Put
  <2>3. TypeOK'
    BY <1>1, <1>3, <2>1, <2>2 DEF TypeOK
  <2>4. PageKind' /\ PagesHold' /\ (IsMap(onPage) /\ DOMAIN onPage = PageIds)'
    BY <2>2, PagesKept
  <2>5. [value |-> v, flags |-> f] \in [value : Values, flags : Flags]
    OBVIOUS
  <2>6. Map!Next
    BY <2>1, <2>5 DEF Map!Next
  <2> QED
    BY <2>1, <2>3, <2>4, <2>6 DEF NodeInv
<1>7. ASSUME Exit PROVE NodeInv' /\ UNCHANGED Map!vars
  <2>1. /\ exited' = TRUE
        /\ UNCHANGED <<inodes, isLeaf, unbalanced, key_, backing, pages, answer, onPage, sizeOnPage>>
    BY <1>7 DEF Exit
  <2>2. TypeOK' /\ KeysSorted'
    BY <1>1, <2>1 DEF TypeOK, KeysSorted
  <2>3. PageKind' /\ PagesHold' /\ (IsMap(onPage) /\ DOMAIN onPage = PageIds)'
    BY <2>1, PagesKept
  <2>4. UNCHANGED Map!vars
    BY <1>2, <2>1 DEF Map!vars
  <2> QED
    BY <2>2, <2>3, <2>4 DEF NodeInv
<1>8. ASSUME NEW p \in PageIds, Write(p) PROVE NodeInv' /\ Map!Next
  <2>1. NodeInv' /\ Map!Write(p)
    BY <1>8, WriteStep
  <2> QED
    BY <2>1 DEF Map!Next
<1>9. ASSUME NEW p \in PageIds, pages[p].flags # {}, Read(p) PROVE NodeInv' /\ Map!Next
  <2>1. /\ inodes' \in Seq(INode) /\ KeysSorted' /\ isLeaf' = isLeaf
        /\ key_' \in Keys \cup {0} /\ backing' \subseteq PageIds
        /\ Map!Read(p)
    BY <1>9, ReadStep
  <2>2. answer' = NoAnswer /\ UNCHANGED <<unbalanced, pages, exited, onPage, sizeOnPage>>
    BY <1>9 DEF Read
  <2>3. TypeOK'
    BY <1>1, <1>3, <2>1, <2>2 DEF TypeOK
  <2>4. PageKind' /\ PagesHold' /\ (IsMap(onPage) /\ DOMAIN onPage = PageIds)'
    BY <2>1, <2>2, PagesKept
  <2> QED
    BY <2>1, <2>3, <2>4 DEF NodeInv, Map!Next
<1>10. ASSUME UNCHANGED vars PROVE NodeInv' /\ UNCHANGED Map!vars
  <2>1. UNCHANGED <<inodes, isLeaf, unbalanced, key_, backing, pages, answer, exited, onPage, sizeOnPage>>
    BY <1>10 DEF vars
  <2>2. TypeOK' /\ KeysSorted'
    BY <1>1, <2>1 DEF TypeOK, KeysSorted
  <2>3. PageKind' /\ PagesHold' /\ (IsMap(onPage) /\ DOMAIN onPage = PageIds)'
    BY <2>1, PagesKept
  <2>4. UNCHANGED Map!vars
    BY <1>2, <2>1 DEF Map!vars
  <2> QED
    BY <2>2, <2>3, <2>4 DEF NodeInv
<1> QED
  BY <1>4, <1>5, <1>6, <1>7, <1>8, <1>9, <1>10
  DEF Next, PutExits, DelExits, WriteOverflow, WriteCircular, ReadExits

-----------------------------------------------------------------------------
(* The theorems.                                                           *)

\* The inodes stay typed and sorted, and every page keeps what was written to it.
THEOREM NodeInvariant == Spec => []NodeInv
<1>1. Init => NodeInv
  BY NodeInit
<1>2. NodeInv /\ [Next]_vars => NodeInv'
  BY NodeNext
<1> QED
  BY <1>1, <1>2, PTL DEF Spec

\* The type invariant of Node.
THEOREM NodeTypes == Spec => []TypeOK
<1>1. NodeInv => TypeOK
  BY DEF NodeInv
<1> QED
  BY <1>1, NodeInvariant, PTL

\* put, del and read (node.cpp:77-144) keep the inodes strictly sorted, for any number of
\* inodes, so every lower_bound is applied to a sorted range.
THEOREM InodesStaySorted == Spec => []KeysSorted
<1>1. NodeInv => KeysSorted
  BY DEF NodeInv
<1> QED
  BY <1>1, NodeInvariant, PTL

\* The keys and values of a written leaf page follow one another without gaps behind the
\* elements and end where size() (node.h:50) said, for any element sizes.
THEOREM WrittenPagesAreTight == Spec => []LayoutTight
<1>1. NodeInv => LayoutTight
  BY DEF NodeInv, PagesHold, PageHolds, PageTight, PageEnd, LayoutTight
<1> QED
  BY <1>1, NodeInvariant, PTL

\* get, put, del, write and read (node.cpp:77-228) implement a map that is saved to pages and
\* restored from them.
THEOREM NodeIsAMap == Spec => ImplementsMap
<1>1. Init => Map!Init
  BY NodeInit
<1>2. NodeInv /\ [Next]_vars => [Map!Next]_(Map!vars)
  BY NodeNext
<1> QED
  BY <1>1, <1>2, NodeInvariant, PTL DEF Spec, ImplementsMap, Map!Spec
=============================================================================
