---------------------------- MODULE SliceProofs -----------------------------
(***************************************************************************)
(* Proofs about Slice, for strings of every length and any set of bytes.    *)
(* What the operators compute is shown once for all sequences of bytes and   *)
(* then used for the views that calls can reach.                            *)
(***************************************************************************)
EXTENDS Slice, WellFoundedInduction, TLAPS

Byte == 0..255

LEMMA BytesAreInts == ASSUME NEW u \in Seq(Byte), NEW i \in 1..Len(u) PROVE u[i] \in Int
<1>1. \A c \in Byte : c \in Int
  BY DEF Byte
<1>2. u[i] \in Byte
  OBVIOUS
<1> QED
  BY <1>1, <1>2

LEMMA LeastIndex ==
  ASSUME NEW T, T \subseteq Nat, T # {}
  PROVE  \E n \in T : \A k \in T : n <= k
<1>1. PICK n \in T : \A k \in T : ~(<<k, n>> \in OpToRel(<, Nat))
  BY NatLessThanWellFounded, WFMin
<1>2. \A k \in T : ~(k < n)
  BY <1>1 DEF OpToRel
<1> QED
  BY <1>2

-----------------------------------------------------------------------------
(* memcmp and the functions that call it.                                  *)

\* The first n bytes differ, and at i for the first time.
DiffersAt(u, v, n, i) == i \in 1..n /\ u[i] # v[i] /\ \A j \in 1..(i - 1) : u[j] = v[j]
Alike(u, v, n) == \A i \in 1..n : u[i] = v[i]

\* Two runs of n bytes are alike or differ somewhere for the first time.
LEMMA AlikeOrNot ==
  ASSUME NEW u, NEW v, NEW n \in Nat
  PROVE  Alike(u, v, n) \/ \E i : DiffersAt(u, v, n, i)
<1> DEFINE D == {i \in 1..n : u[i] # v[i]}
<1>1. CASE D = {}
  BY <1>1 DEF Alike
<1>2. CASE D # {}
  <2>1. D \subseteq Nat /\ D \subseteq 1..n
    OBVIOUS
  <2>2. PICK i \in D : \A k \in D : i <= k
    <3> HIDE DEF D
    <3> QED
      BY <1>2, <2>1, LeastIndex
  <2>3. i \in 1..n /\ u[i] # v[i]
    BY <2>2
  <2>4. ASSUME NEW j \in 1..(i - 1) PROVE u[j] = v[j]
    <3>1. j \in 1..n /\ ~(i <= j)
      BY <2>3
    <3> QED
      BY <2>2, <3>1
  <2> QED
    BY <2>3, <2>4 DEF DiffersAt
<1> QED
  BY <1>1, <1>2

\* memcmp is zero for runs that are alike and the difference of the first bytes that
\* differ otherwise.
LEMMA MemcmpAlike ==
  ASSUME NEW u, NEW v, NEW n \in Nat, Alike(u, v, n)
  PROVE  memcmp(u, v, n) = 0
<1>1. {i \in 1..n : u[i] # v[i]} = {}
  BY DEF Alike
<1> QED
  BY <1>1 DEF memcmp

LEMMA MemcmpDiffers ==
  ASSUME NEW u, NEW v, NEW n \in Nat, NEW i, DiffersAt(u, v, n, i)
  PROVE  memcmp(u, v, n) = u[i] - v[i]
<1> DEFINE D == {k \in 1..n : u[k] # v[k]}
<1>1. i \in D /\ \A j \in D : i <= j
  BY DEF DiffersAt
<1>2. \A k \in D : (\A j \in D : k <= j) => k = i
  <2>1. D \subseteq Nat
    OBVIOUS
  <2> HIDE DEF D
  <2> QED
    BY <1>1, <2>1
<1>3. (CHOOSE k \in D : \A j \in D : k <= j) = i
  <2> HIDE DEF D
  <2> QED
    BY <1>1, <1>2
<1>4. D # {}
  BY <1>1
<1>5. memcmp(u, v, n) = IF D = {} THEN 0
        ELSE u[CHOOSE k \in D : \A j \in D : k <= j] - v[CHOOSE k \in D : \A j \in D : k <= j]
  BY DEF memcmp
<1> HIDE DEF D
<1> QED
  BY <1>3, <1>4, <1>5

\* Sequences of one length that are alike are one sequence.
LEMMA AlikeEqual ==
  ASSUME NEW S, NEW u \in Seq(S), NEW v \in Seq(S)
  PROVE  u = v <=> Len(u) = Len(v) /\ Alike(u, v, Len(u))
BY DEF Alike

LEMMA PrefixAlike ==
  ASSUME NEW S, NEW u \in Seq(S), NEW v \in Seq(S)
  PROVE  IsPrefix(u, v) <=> Len(u) <= Len(v) /\ Alike(u, v, Len(u))
<1>1. Len(u) \in Nat /\ Len(v) \in Nat
  OBVIOUS
<1> SUFFICES ASSUME Len(u) <= Len(v)
             PROVE  SubSeq(u, 1, Len(u)) = SubSeq(v, 1, Len(u)) <=> Alike(u, v, Len(u))
  BY DEF IsPrefix
<1> DEFINE p == SubSeq(u, 1, Len(u))
           q == SubSeq(v, 1, Len(u))
<1>2. p \in Seq(S) /\ Len(p) = Len(u) /\ \A i \in 1..Len(u) : p[i] = u[i]
  BY <1>1
<1>3. q \in Seq(S) /\ Len(q) = Len(u) /\ \A i \in 1..Len(u) : q[i] = v[i]
  BY <1>1
<1>4. p = q <=> Alike(p, q, Len(u))
  <2> HIDE DEF p, q
  <2> QED
    BY <1>2, <1>3, AlikeEqual
<1>5. Alike(p, q, Len(u)) <=> Alike(u, v, Len(u))
  <2> HIDE DEF p, q
  <2> QED
    BY <1>2, <1>3 DEF Alike
<1> QED
  BY <1>4, <1>5

-----------------------------------------------------------------------------
(* The order.                                                              *)

\* What OneOrder says, of any two sequences.
OrderAgrees(u, v) ==
    /\ compare(u, v) < 0 <=> LexLess(u, v)
    /\ compare(u, v) > 0 <=> LexLess(v, u)
    /\ Less(u, v) <=> LexLess(u, v)
    /\ Equal(u, v) <=> u = v

LEMMA MinLenFacts ==
  ASSUME NEW S, NEW u \in Seq(S), NEW v \in Seq(S)
  PROVE  /\ MinLen(u, v) \in Nat /\ MinLen(u, v) = MinLen(v, u)
         /\ MinLen(u, v) <= Len(u) /\ MinLen(u, v) <= Len(v)
         /\ MinLen(u, v) = Len(u) \/ MinLen(u, v) = Len(v)
<1>1. Len(u) \in Nat /\ Len(v) \in Nat
  OBVIOUS
<1> QED
  BY <1>1 DEF MinLen

\* Without a difference in the common part the shorter sequence is the smaller one.
LEMMA LexAlike ==
  ASSUME NEW u \in Seq(Byte), NEW v \in Seq(Byte), Alike(u, v, MinLen(u, v))
  PROVE  LexLess(u, v) <=> Len(u) < Len(v)
<1>1. Len(u) \in Nat /\ Len(v) \in Nat
  OBVIOUS
<1>2. ASSUME NEW i \in 1..MinLen(u, v) PROVE ~(u[i] < v[i])
  <2>1. u[i] = v[i]
    BY DEF Alike
  <2>2. i \in 1..Len(u)
    BY <1>1, MinLenFacts
  <2>3. u[i] \in Int
    BY <2>2, BytesAreInts
  <2> QED
    BY <2>1, <2>3
<1>3. LexLess(u, v) <=> IsPrefix(u, v) /\ u # v
  BY <1>2 DEF LexLess, IsStrictPrefix
<1>4. CASE Len(u) < Len(v)
  <2>1. MinLen(u, v) = Len(u)
    BY <1>4 DEF MinLen
  <2>2. IsPrefix(u, v)
    BY <1>1, <1>4, <2>1, PrefixAlike
  <2> QED
    BY <1>1, <1>3, <1>4, <2>2
<1>5. CASE ~(Len(u) < Len(v))
  <2>1. SUFFICES ASSUME IsPrefix(u, v) PROVE u = v
    BY <1>3, <1>5
  <2>2. Len(u) <= Len(v) /\ Alike(u, v, Len(u))
    BY <2>1, PrefixAlike
  <2>3. Len(u) = Len(v)
    BY <1>1, <1>5, <2>2
  <2> QED
    BY <2>2, <2>3, AlikeEqual
<1> QED
  BY <1>4, <1>5

\* With one, the first difference decides.
LEMMA LexDiffers ==
  ASSUME NEW u \in Seq(Byte), NEW v \in Seq(Byte), NEW i, DiffersAt(u, v, MinLen(u, v), i)
  PROVE  LexLess(u, v) <=> u[i] < v[i]
<1>1. Len(u) \in Nat /\ Len(v) \in Nat /\ i \in 1..MinLen(u, v) /\ MinLen(u, v) \in Nat
  BY MinLenFacts DEF DiffersAt
<1>2. i \in 1..Len(u) /\ i \in 1..Len(v)
  BY <1>1, MinLenFacts
<1>3. ~IsPrefix(u, v)
  BY <1>2, PrefixAlike DEF Alike, DiffersAt
<1>4. ASSUME NEW k \in 1..MinLen(u, v), u[k] < v[k], \A j \in 1..(k - 1) : u[j] = v[j]
      PROVE  k = i
  <2>0. k \in Int /\ i \in Int
    BY <1>1
  <2>1. k \in 1..Len(u)
    BY <1>1, MinLenFacts
  <2>2. u[k] # v[k]
    <3>1. u[k] \in Int
      BY <2>1, BytesAreInts
    <3> QED
      BY <1>4, <3>1
  <2>3. ~(k < i)
    <3> SUFFICES ASSUME k < i PROVE FALSE
      OBVIOUS
    <3>1. k \in 1..(i - 1)
      BY <2>0
    <3> QED
      BY <2>2, <3>1 DEF DiffersAt
  <2>4. ~(i < k)
    <3> SUFFICES ASSUME i < k PROVE FALSE
      OBVIOUS
    <3>1. i \in 1..(k - 1)
      BY <2>0, <1>1
    <3> QED
      BY <1>4, <3>1 DEF DiffersAt
  <2> QED
    BY <2>0, <2>3, <2>4
<1>5. LexLess(u, v) <=>
        \E k \in 1..MinLen(u, v) : u[k] < v[k] /\ \A j \in 1..(k - 1) : u[j] = v[j]
  BY <1>3 DEF LexLess, IsStrictPrefix
<1>6. u[i] < v[i] => LexLess(u, v)
  BY <1>1, <1>5 DEF DiffersAt
<1>7. LexLess(u, v) => u[i] < v[i]
  BY <1>4, <1>5
<1> QED
  BY <1>6, <1>7

\* memcmp on the common part, the lengths after it: one order in compare, < and ==
\* (slice.h:92-136).
LEMMA OneOrderOfBytes ==
  ASSUME NEW u \in Seq(Byte), NEW v \in Seq(Byte)
  PROVE  OrderAgrees(u, v)
<1> DEFINE m == MinLen(u, v)
<1>1. Len(u) \in Nat /\ Len(v) \in Nat /\ m \in Nat /\ MinLen(v, u) = m
  BY MinLenFacts
<1>2. CASE Alike(u, v, m)
  <2>1. memcmp(u, v, m) = 0
    BY <1>1, <1>2, MemcmpAlike
  <2>2. Alike(v, u, MinLen(v, u))
    BY <1>1, <1>2 DEF Alike
  <2>3. (LexLess(u, v) <=> Len(u) < Len(v)) /\ (LexLess(v, u) <=> Len(v) < Len(u))
    BY <1>2, <2>2, LexAlike
  <2>4. compare(u, v) = IF Len(u) < Len(v) THEN -1 ELSE IF Len(u) > Len(v) THEN 1 ELSE 0
    BY <2>1 DEF compare
  <2>5. (compare(u, v) < 0 <=> Len(u) < Len(v)) /\ (compare(u, v) > 0 <=> Len(v) < Len(u))
    BY <1>1, <2>4
  <2>6. Less(u, v) <=> Len(u) < Len(v)
    BY <2>1 DEF Less
  <2>7. Equal(u, v) <=> u = v
    <3>1. ASSUME Len(u) = Len(v) PROVE Equal(u, v) /\ u = v
      <4>1. m = Len(u)
        BY <1>1, <3>1 DEF MinLen
      <4> QED
        BY <1>2, <2>1, <3>1, <4>1, AlikeEqual DEF Equal
    <3>2. ASSUME Len(u) # Len(v) PROVE ~Equal(u, v) /\ u # v
      BY <3>2 DEF Equal
    <3> QED
      BY <3>1, <3>2
  <2> QED
    BY <2>3, <2>5, <2>6, <2>7 DEF OrderAgrees
<1>3. CASE \E i : DiffersAt(u, v, m, i)
  <2>1. PICK i : DiffersAt(u, v, m, i)
    BY <1>3
  <2>2. memcmp(u, v, m) = u[i] - v[i]
    BY <1>1, <2>1, MemcmpDiffers
  <2>3. DiffersAt(v, u, MinLen(v, u), i)
    BY <1>1, <2>1 DEF DiffersAt
  <2>4. (LexLess(u, v) <=> u[i] < v[i]) /\ (LexLess(v, u) <=> v[i] < u[i])
    BY <2>1, <2>3, LexDiffers
  <2>5. i \in 1..m /\ i \in 1..Len(u) /\ i \in 1..Len(v)
    BY <1>1, <2>1, MinLenFacts DEF DiffersAt
  <2>6. u[i] \in Int /\ v[i] \in Int /\ u[i] # v[i]
    BY <2>1, <2>5, BytesAreInts DEF DiffersAt
  <2>7. memcmp(u, v, m) \in Int /\ memcmp(u, v, m) # 0
    BY <2>2, <2>6
  <2>8. compare(u, v) = u[i] - v[i]
    BY <2>2, <2>7 DEF compare
  <2>9. Less(u, v) <=> u[i] - v[i] < 0
    BY <2>2, <2>7 DEF Less
  <2>10. (compare(u, v) < 0 <=> u[i] < v[i]) /\ (compare(u, v) > 0 <=> v[i] < u[i])
    BY <2>6, <2>8
  <2>11. Less(u, v) <=> u[i] < v[i]
    BY <2>6, <2>9
  <2>12. ~Equal(u, v) /\ u # v
    <3>1. u # v
      BY <2>6
    <3>2. ASSUME Len(u) = Len(v) PROVE memcmp(u, v, Len(u)) # 0
      <4>1. m = Len(u)
        BY <1>1, <3>2 DEF MinLen
      <4> QED
        BY <2>7, <4>1
    <3> QED
      BY <3>1, <3>2 DEF Equal
  <2> QED
    BY <2>4, <2>10, <2>11, <2>12 DEF OrderAgrees
<1> QED
  BY <1>1, <1>2, <1>3, AlikeOrNot

-----------------------------------------------------------------------------
(* Prefixes and suffixes.                                                  *)

\* What PrefixesAgree says, of any two sequences.
DifferenceAgrees(u, v) ==
    LET n == difference_offset(u, v)
    IN  /\ SubSeq(u, 1, n) = SubSeq(v, 1, n)
        /\ n < MinLen(u, v) => u[n + 1] # v[n + 1]
        /\ starts_with(u, v) <=> n = Len(v)

LEMMA MemcmpZero ==
  ASSUME NEW u \in Seq(Byte), NEW v \in Seq(Byte), NEW n \in Nat, n <= Len(u), n <= Len(v)
  PROVE  memcmp(u, v, n) = 0 <=> Alike(u, v, n)
<1>1. ASSUME NEW i, DiffersAt(u, v, n, i) PROVE memcmp(u, v, n) # 0 /\ ~Alike(u, v, n)
  <2>1. i \in 1..n /\ u[i] # v[i]
    BY <1>1 DEF DiffersAt
  <2>2. i \in 1..Len(u) /\ i \in 1..Len(v)
    BY <2>1
  <2>3. u[i] \in Int /\ v[i] \in Int
    BY <2>2, BytesAreInts
  <2>4. memcmp(u, v, n) = u[i] - v[i]
    BY <1>1, MemcmpDiffers
  <2> QED
    BY <2>1, <2>3, <2>4 DEF Alike
<1> QED
  BY <1>1, AlikeOrNot, MemcmpAlike

LEMMA StartsWithIsPrefix ==
  ASSUME NEW u \in Seq(Byte), NEW v \in Seq(Byte)
  PROVE  starts_with(u, v) <=> IsPrefix(v, u)
<1>1. Len(u) \in Nat /\ Len(v) \in Nat
  OBVIOUS
<1>2. Alike(v, u, Len(v)) <=> Alike(u, v, Len(v))
  BY DEF Alike
<1>3. IsPrefix(v, u) <=> Len(v) <= Len(u) /\ Alike(v, u, Len(v))
  BY PrefixAlike
<1>4. Len(v) <= Len(u) => (memcmp(u, v, Len(v)) = 0 <=> Alike(u, v, Len(v)))
  BY <1>1, MemcmpZero
<1> QED
  BY <1>1, <1>2, <1>3, <1>4 DEF starts_with

LEMMA ReverseFacts ==
  ASSUME NEW S, NEW u \in Seq(S)
  PROVE  /\ Reverse(u) \in Seq(S) /\ Len(Reverse(u)) = Len(u)
         /\ \A i \in 1..Len(u) : Reverse(u)[i] = u[(Len(u) - i) + 1]
<1>1. Len(u) \in Nat /\ \A i \in 1..Len(u) : (Len(u) - i) + 1 \in 1..Len(u)
  OBVIOUS
<1>2. \A i \in 1..Len(u) : u[(Len(u) - i) + 1] \in S
  BY <1>1
<1> QED
  BY <1>1, <1>2 DEF Reverse

\* The last bytes, which ends_with compares, are the first ones in reverse.
LEMMA EndsWithIsSuffix ==
  ASSUME NEW u \in Seq(Byte), NEW v \in Seq(Byte)
  PROVE  ends_with(u, v) <=> IsSuffix(v, u)
<1> DEFINE p == Len(u)
           q == Len(v)
           w == SubSeq(u, p - q + 1, p)
<1>1. p \in Nat /\ q \in Nat
  OBVIOUS
<1>2. IsSuffix(v, u) <=> q <= p /\ Alike(Reverse(v), Reverse(u), q)
  BY ReverseFacts, PrefixAlike DEF IsSuffix
<1> SUFFICES ASSUME q <= p
             PROVE  memcmp(w, v, q) = 0 <=> Alike(Reverse(v), Reverse(u), q)
  BY <1>1, <1>2 DEF ends_with
<1>3. w \in Seq(Byte) /\ Len(w) = q
  BY <1>1
<1>4. \A i \in 1..q : w[i] = u[p - q + i]
  <2> SUFFICES ASSUME NEW i \in 1..q PROVE w[i] = u[p - q + i]
    OBVIOUS
  <2>1. w[i] = u[(p - q + 1) + i - 1]
    BY <1>1
  <2>2. (p - q + 1) + i - 1 = p - q + i
    BY <1>1
  <2> QED
    BY <2>1, <2>2
<1>5. memcmp(w, v, q) = 0 <=> Alike(w, v, q)
  <2> HIDE DEF w
  <2> QED
    BY <1>1, <1>3, MemcmpZero
<1>6. \A i \in 1..q : /\ Reverse(v)[i] = v[(q - i) + 1]
                      /\ Reverse(u)[i] = u[(p - i) + 1]
  BY <1>1, ReverseFacts
<1>7. ASSUME Alike(w, v, q) PROVE Alike(Reverse(v), Reverse(u), q)
  <2> SUFFICES ASSUME NEW i \in 1..q PROVE Reverse(v)[i] = Reverse(u)[i]
    BY DEF Alike
  <2>1. (q - i) + 1 \in 1..q /\ p - q + ((q - i) + 1) = (p - i) + 1
    BY <1>1
  <2>2. w[(q - i) + 1] = v[(q - i) + 1]
    BY <1>7, <2>1 DEF Alike
  <2>3. w[(q - i) + 1] = u[p - q + ((q - i) + 1)]
    BY <1>4, <2>1
  <2> HIDE DEF w, p, q
  <2> QED
    BY <1>6, <2>1, <2>2, <2>3
<1>8. ASSUME Alike(Reverse(v), Reverse(u), q) PROVE Alike(w, v, q)
  <2> SUFFICES ASSUME NEW i \in 1..q PROVE w[i] = v[i]
    BY DEF Alike
  <2> DEFINE k == (q - i) + 1
  <2>1. k \in 1..q /\ (q - k) + 1 = i /\ (p - k) + 1 = p - q + i
    BY <1>1
  <2> HIDE DEF k
  <2>2. Reverse(v)[k] = Reverse(u)[k]
    BY <1>8, <2>1 DEF Alike
  <2>3. Reverse(v)[k] = v[(q - k) + 1] /\ Reverse(u)[k] = u[(p - k) + 1]
    BY <1>6, <2>1
  <2> HIDE DEF w, p, q
  <2> QED
    BY <1>4, <2>1, <2>2, <2>3
<1> QED
  BY <1>5, <1>7, <1>8

\* The constructor of parts with two parts and an empty buffer.
LEMMA JoinedPair ==
  ASSUME NEW u \in Seq(Byte), NEW v \in Seq(Byte)
  PROVE  Joined(<<u, v>>, <<>>) = u \o v
<1> DEFINE s == <<u, v>>
           F(f) == [i \in 1..Len(s) |-> IF i = 1 THEN s[i] ELSE f[i - 1] \o s[i]]
           h == CHOOSE f : f = F(f)
           g == [i \in 1..2 |-> IF i = 1 THEN u ELSE u \o v]
<1>1. Len(s) = 2 /\ s[1] = u /\ s[2] = v
  OBVIOUS
<1>2. g = F(g)
  <2>1. \A i \in 1..2 : (IF i = 1 THEN u ELSE u \o v) = (IF i = 1 THEN s[i] ELSE g[i - 1] \o s[i])
    BY <1>1
  <2> QED
    BY <1>1, <2>1
<1>3. h = F(h)
  <2> HIDE DEF F, g
  <2> QED
    BY <1>2
<1>4. h[1] = u
  <2> HIDE DEF h
  <2> QED
    BY <1>1, <1>3
<1>5. h[2] = h[1] \o v
  <2> HIDE DEF h
  <2>1. 2 \in 1..Len(s) /\ 2 # 1 /\ 2 - 1 = 1
    BY <1>1
  <2>2. F(h)[2] = h[2 - 1] \o s[2]
    <3> HIDE DEF s
    <3> QED
      BY <2>1
  <2>3. h[2] = F(h)[2]
    <3> HIDE DEF F
    <3> QED
      BY <1>3
  <2> HIDE DEF F, s
  <2> QED
    BY <1>1, <2>1, <2>2, <2>3
<1>6. FlattenSeq(s) = h[2]
  BY <1>1 DEF FlattenSeq
<1>7. u \o v \in Seq(Byte) /\ <<>> \o (u \o v) = u \o v
  OBVIOUS
<1> HIDE DEF h
<1> QED
  BY <1>4, <1>5, <1>6, <1>7 DEF Joined

LEMMA PartsOfJoined ==
  ASSUME NEW u \in Seq(Byte), NEW v \in Seq(Byte)
  PROVE  ends_with(u \o v, v) /\ starts_with(u \o v, u)
<1> DEFINE w == u \o v
           p == Len(u)
           q == Len(v)
           e == SubSeq(w, Len(w) - q + 1, Len(w))
<1>1. /\ w \in Seq(Byte) /\ p \in Nat /\ q \in Nat /\ Len(w) = p + q
      /\ \A i \in 1..p : w[i] = u[i]
      /\ \A i \in 1..q : w[p + i] = v[i]
  OBVIOUS
<1>2. starts_with(w, u)
  <2>1. Alike(w, u, p)
    BY <1>1 DEF Alike
  <2> HIDE DEF w
  <2> QED
    BY <1>1, <2>1, MemcmpAlike DEF starts_with
<1>3. ends_with(w, v)
  <2> HIDE DEF w, p, q
  <2>1. Len(w) - q + 1 = p + 1 /\ Len(w) = p + q
    BY <1>1
  <2>2. \A i \in 1..q : SubSeq(w, p + 1, p + q)[i] = w[(p + 1) + i - 1]
    BY <1>1
  <2>3. \A i \in 1..q : (p + 1) + i - 1 = p + i
    BY <1>1
  <2>4. Alike(e, v, q)
    BY <1>1, <2>1, <2>2, <2>3 DEF Alike
  <2>5. memcmp(e, v, q) = 0
    <3> HIDE DEF e
    <3> QED
      BY <1>1, <2>4, MemcmpAlike
  <2>6. Len(w) >= q
    BY <1>1
  <2> QED
    BY <2>5, <2>6 DEF ends_with, q
<1> QED
  BY <1>2, <1>3

LEMMA OffsetAlike ==
  ASSUME NEW u, NEW v, Alike(u, v, MinLen(u, v))
  PROVE  difference_offset(u, v) = MinLen(u, v)
<1>1. {i \in 1..MinLen(u, v) : u[i] # v[i]} = {}
  BY DEF Alike
<1> QED
  BY <1>1 DEF difference_offset

LEMMA OffsetDiffers ==
  ASSUME NEW u, NEW v, MinLen(u, v) \in Nat, NEW i, DiffersAt(u, v, MinLen(u, v), i)
  PROVE  difference_offset(u, v) = i - 1
<1> DEFINE D == {k \in 1..MinLen(u, v) : u[k] # v[k]}
<1>1. i \in D /\ \A j \in D : i <= j
  BY DEF DiffersAt
<1>2. D \subseteq Nat
  OBVIOUS
<1>3. difference_offset(u, v) =
        IF D = {} THEN MinLen(u, v) ELSE (CHOOSE k \in D : \A j \in D : k <= j) - 1
  BY DEF difference_offset
<1> HIDE DEF D
<1>4. \A k \in D : (\A j \in D : k <= j) => k = i
  BY <1>1, <1>2
<1>5. (CHOOSE k \in D : \A j \in D : k <= j) = i
  BY <1>1, <1>4
<1> QED
  BY <1>1, <1>3, <1>5

\* Prefixes of the same length that are alike are equal.
LEMMA SubSeqAlike ==
  ASSUME NEW S, NEW u \in Seq(S), NEW v \in Seq(S), NEW n \in Nat,
         n <= Len(u), n <= Len(v), Alike(u, v, n)
  PROVE  SubSeq(u, 1, n) = SubSeq(v, 1, n)
<1> DEFINE p == SubSeq(u, 1, n)
           q == SubSeq(v, 1, n)
<1>1. p \in Seq(S) /\ Len(p) = n /\ \A i \in 1..n : p[i] = u[i]
  OBVIOUS
<1>2. q \in Seq(S) /\ Len(q) = n /\ \A i \in 1..n : q[i] = v[i]
  OBVIOUS
<1>3. Alike(p, q, n)
  <2> HIDE DEF p, q
  <2> QED
    BY <1>1, <1>2 DEF Alike
<1> HIDE DEF p, q
<1>4. p = q
  BY <1>1, <1>2, <1>3, AlikeEqual
<1> QED
  BY <1>4 DEF p, q

\* difference_offset stops at the first difference or at the end of the shorter one
\* (slice.h:105-113).
LEMMA DifferenceOffset ==
  ASSUME NEW u \in Seq(Byte), NEW v \in Seq(Byte)
  PROVE  DifferenceAgrees(u, v)
<1> DEFINE m == MinLen(u, v)
           n == difference_offset(u, v)
<1>1. Len(u) \in Nat /\ Len(v) \in Nat /\ m \in Nat /\ m <= Len(u) /\ m <= Len(v)
      /\ (m = Len(u) \/ m = Len(v))
  BY MinLenFacts
<1>2. starts_with(u, v) <=> Len(v) <= Len(u) /\ Alike(u, v, Len(v))
  <2>1. Alike(v, u, Len(v)) <=> Alike(u, v, Len(v))
    BY DEF Alike
  <2> QED
    BY <2>1, StartsWithIsPrefix, PrefixAlike
<1>3. CASE Alike(u, v, m)
  <2>1. n = m
    BY <1>3, OffsetAlike
  <2>2. SubSeq(u, 1, m) = SubSeq(v, 1, m)
    BY <1>1, <1>3, SubSeqAlike
  <2>3. starts_with(u, v) <=> m = Len(v)
    <3>1. ASSUME m = Len(v) PROVE starts_with(u, v)
      BY <1>1, <1>2, <1>3, <3>1
    <3>2. ASSUME starts_with(u, v) PROVE m = Len(v)
      BY <1>1, <1>2, <3>2
    <3> QED
      BY <3>1, <3>2
  <2>4. ~(m < m)
    BY <1>1
  <2> HIDE DEF m
  <2> QED
    BY <2>1, <2>2, <2>3, <2>4 DEF DifferenceAgrees, m
<1>4. CASE \E i : DiffersAt(u, v, m, i)
  <2>1. PICK i : DiffersAt(u, v, m, i)
    BY <1>4
  <2>2. n = i - 1
    BY <1>1, <2>1, OffsetDiffers
  <2>3. i \in 1..m /\ u[i] # v[i] /\ Alike(u, v, i - 1)
    BY <2>1 DEF DiffersAt, Alike
  <2> HIDE DEF m, n
  <2>4. i - 1 \in Nat /\ i - 1 <= Len(u) /\ i - 1 <= Len(v) /\ (i - 1) + 1 = i /\ i - 1 < Len(v)
    BY <1>1, <2>3
  <2>5. SubSeq(u, 1, i - 1) = SubSeq(v, 1, i - 1)
    BY <2>3, <2>4, SubSeqAlike
  <2>6. ~starts_with(u, v)
    <3>1. i \in 1..Len(v)
      BY <1>1, <2>3
    <3> QED
      BY <1>2, <2>3, <3>1 DEF Alike
  <2>7. i - 1 # Len(v)
    BY <1>1, <2>4
  <2> QED
    BY <2>2, <2>3, <2>4, <2>5, <2>6, <2>7 DEF DifferenceAgrees, n
<1> QED
  BY <1>1, <1>3, <1>4, AlikeOrNot

-----------------------------------------------------------------------------
(* The hex form.                                                           *)

\* toHex and fromHex on single digits.
LEMMA DigitThere == \A d \in 0..15 : toHex(d) \in Byte /\ fromHex(toHex(d)) = d
BY DEF toHex, fromHex, Byte

LEMMA DigitValid == \A c \in Byte : fromHex(c) >= 0 <=> IsHex(c)
BY DEF fromHex, IsHex, Byte

LEMMA DigitBack ==
  \A c \in Byte : IsHex(c) => fromHex(c) \in 0..15 /\ toHex(fromHex(c)) = Upper(c)
BY DEF fromHex, toHex, IsHex, Upper, Byte

\* A byte is its two digits.
LEMMA TwoDigits ==
  ASSUME NEW c \in Byte
  PROVE  c \div 16 \in 0..15 /\ c % 16 \in 0..15 /\ 16 * (c \div 16) + (c % 16) = c
BY DEF Byte

LEMMA DigitsOfTwo ==
  ASSUME NEW d \in 0..15, NEW e \in 0..15
  PROVE  /\ 16 * d + e \in Byte
         /\ (16 * d + e) \div 16 = d /\ (16 * d + e) % 16 = e
BY DEF Byte

\* The places of the digits of byte i.
LEMMA Halves ==
  ASSUME NEW n \in Nat, NEW i \in 1..n
  PROVE  /\ 2 * i - 1 \in 1..(2 * n) /\ 2 * i \in 1..(2 * n)
         /\ (2 * i - 1) % 2 = 1 /\ (2 * i) % 2 = 0
         /\ ((2 * i - 1) + 1) \div 2 = i /\ (2 * i) \div 2 = i
OBVIOUS

LEMMA EveryPlace ==
  ASSUME NEW n \in Nat, NEW k \in 1..(2 * n)
  PROVE  \E i \in 1..n : k = 2 * i - 1 \/ k = 2 * i
<1>1. CASE k % 2 = 1
  <2>1. (k + 1) \div 2 \in 1..n /\ k = 2 * ((k + 1) \div 2) - 1
    BY <1>1
  <2> QED
    BY <2>1
<1>2. CASE k % 2 = 0
  <2>1. k \div 2 \in 1..n /\ k = 2 * (k \div 2)
    BY <1>2
  <2> QED
    BY <2>1
<1> QED
  BY <1>1, <1>2

LEMMA ToHexFacts ==
  ASSUME NEW u \in Seq(Byte)
  PROVE  /\ ToHex(u) \in Seq(Byte) /\ Len(ToHex(u)) = 2 * Len(u)
         /\ \A i \in 1..Len(u) : /\ ToHex(u)[2 * i - 1] = toHex(u[i] \div 16)
                                 /\ ToHex(u)[2 * i] = toHex(u[i] % 16)
<1> DEFINE n == Len(u)
           E(k) == IF k % 2 = 1 THEN toHex(u[(k + 1) \div 2] \div 16) ELSE toHex(u[k \div 2] % 16)
<1>1. n \in Nat /\ \A i \in 1..n : u[i] \in Byte
  OBVIOUS
<1>2. ToHex(u) = [k \in 1..(2 * n) |-> E(k)]
  BY DEF ToHex
<1>3. ASSUME NEW i \in 1..n
      PROVE  E(2 * i - 1) = toHex(u[i] \div 16) /\ E(2 * i) = toHex(u[i] % 16)
  <2> HIDE DEF n
  <2>1. /\ (2 * i - 1) % 2 = 1 /\ (2 * i) % 2 = 0
        /\ ((2 * i - 1) + 1) \div 2 = i /\ (2 * i) \div 2 = i
    BY <1>1, Halves
  <2>2. E(2 * i - 1) = toHex(u[((2 * i - 1) + 1) \div 2] \div 16)
    BY <2>1
  <2>3. E(2 * i) = toHex(u[(2 * i) \div 2] % 16)
    BY <2>1
  <2> HIDE DEF E
  <2> QED
    BY <2>1, <2>2, <2>3
<1> HIDE DEF n, E
<1>4. \A i \in 1..n : E(2 * i - 1) \in Byte /\ E(2 * i) \in Byte
  BY <1>1, <1>3, TwoDigits, DigitThere
<1>5. \A k \in 1..(2 * n) : E(k) \in Byte
  BY <1>1, <1>4, EveryPlace
<1>6. 2 * n \in Nat
  BY <1>1
<1>7. ToHex(u) \in Seq(Byte) /\ Len(ToHex(u)) = 2 * n
  BY <1>2, <1>5, <1>6
<1>8. \A i \in 1..n : ToHex(u)[2 * i - 1] = E(2 * i - 1) /\ ToHex(u)[2 * i] = E(2 * i)
  BY <1>1, <1>2, Halves
<1> QED
  BY <1>3, <1>7, <1>8 DEF n

\* What DecodeHex makes of a string of an even number of hex digits.
Decoded(u) == [i \in 1..(Len(u) \div 2) |-> 16 * fromHex(u[2 * i - 1]) + fromHex(u[2 * i])]

ValidHex(u) == Len(u) % 2 = 0 /\ \A i \in 1..Len(u) : IsHex(u[i])

LEMMA DecodeHexFacts ==
  ASSUME NEW u \in Seq(Byte)
  PROVE  DecodeHex(u) = IF ValidHex(u) THEN <<Decoded(u), TRUE>> ELSE <<<<>>, FALSE>>
<1>1. \A i \in 1..Len(u) : fromHex(u[i]) >= 0 <=> IsHex(u[i])
  BY DigitValid
<1> QED
  BY <1>1 DEF DecodeHex, Decoded, ValidHex

\* Encoding and then decoding gives the bytes back (slice.h:60-69).
LEMMA EncodeDecode ==
  ASSUME NEW u \in Seq(Byte)
  PROVE  DecodeHex(ToHex(u)) = <<u, TRUE>>
<1> DEFINE n == Len(u)
           h == ToHex(u)
<1>1. n \in Nat /\ \A i \in 1..n : u[i] \in Byte
  OBVIOUS
<1>2. h \in Seq(Byte) /\ Len(h) = 2 * n
  BY ToHexFacts
<1>3. \A i \in 1..n : h[2 * i - 1] = toHex(u[i] \div 16) /\ h[2 * i] = toHex(u[i] % 16)
  BY ToHexFacts
<1> HIDE DEF n, h
<1>4. (2 * n) % 2 = 0 /\ (2 * n) \div 2 = n
  BY <1>1
<1>5. \A i \in 1..n : /\ fromHex(h[2 * i - 1]) = u[i] \div 16
                      /\ fromHex(h[2 * i]) = u[i] % 16
  BY <1>1, <1>3, TwoDigits, DigitThere
<1>6. \A k \in 1..(2 * n) : IsHex(h[k])
  <2>1. ASSUME NEW i \in 1..n PROVE IsHex(h[2 * i - 1]) /\ IsHex(h[2 * i])
    <3>1. fromHex(h[2 * i - 1]) >= 0 /\ fromHex(h[2 * i]) >= 0
      <4>1. u[i] \div 16 \in 0..15 /\ u[i] % 16 \in 0..15
        BY <1>1, TwoDigits
      <4>2. fromHex(h[2 * i - 1]) \in 0..15 /\ fromHex(h[2 * i]) \in 0..15
        BY <1>5, <4>1
      <4> QED
        BY <4>2
    <3>2. h[2 * i - 1] \in Byte /\ h[2 * i] \in Byte
      <4>1. u[i] \div 16 \in 0..15 /\ u[i] % 16 \in 0..15
        BY <1>1, TwoDigits
      <4>2. toHex(u[i] \div 16) \in Byte /\ toHex(u[i] % 16) \in Byte
        BY <4>1, DigitThere
      <4> QED
        BY <1>3, <4>2
    <3> QED
      BY <3>1, <3>2, DigitValid
  <2> QED
    BY <1>1, <2>1, EveryPlace
<1>7. ValidHex(h)
  BY <1>2, <1>4, <1>6 DEF ValidHex
<1>8. Decoded(h) = [i \in 1..n |-> u[i]]
  <2>1. \A i \in 1..n : 16 * fromHex(h[2 * i - 1]) + fromHex(h[2 * i]) = u[i]
    BY <1>1, <1>5, TwoDigits
  <2> QED
    BY <1>2, <1>4, <2>1 DEF Decoded
<1>9. u = [i \in 1..n |-> u[i]]
  BY DEF n
<1> QED
  BY <1>2, <1>7, <1>8, <1>9, DecodeHexFacts DEF h

\* Decoding accepts the strings of hex digits of even length, and encoding what it
\* makes of one gives the digits back in upper case.
LEMMA DecodeEncode ==
  ASSUME NEW u \in Seq(Byte), ValidHex(u)
  PROVE  ToHex(Decoded(u)) = [i \in 1..Len(u) |-> Upper(u[i])]
<1> DEFINE n == Len(u) \div 2
           d == Decoded(u)
           h == ToHex(d)
<1>1. n \in Nat /\ Len(u) = 2 * n
  <2>1. Len(u) \in Nat /\ Len(u) % 2 = 0
    BY DEF ValidHex
  <2> QED
    BY <2>1
<1>2. d = [i \in 1..n |-> 16 * fromHex(u[2 * i - 1]) + fromHex(u[2 * i])]
  BY DEF Decoded
<1> HIDE DEF n, d
<1>3. \A k \in 1..(2 * n) : u[k] \in Byte /\ IsHex(u[k])
  BY <1>1 DEF ValidHex
<1>4. \A i \in 1..n : /\ fromHex(u[2 * i - 1]) \in 0..15 /\ fromHex(u[2 * i]) \in 0..15
                      /\ toHex(fromHex(u[2 * i - 1])) = Upper(u[2 * i - 1])
                      /\ toHex(fromHex(u[2 * i])) = Upper(u[2 * i])
  BY <1>1, <1>3, Halves, DigitBack
<1>5. \A i \in 1..n : /\ d[i] \in Byte
                      /\ d[i] \div 16 = fromHex(u[2 * i - 1])
                      /\ d[i] % 16 = fromHex(u[2 * i])
  <2> SUFFICES ASSUME NEW i \in 1..n
               PROVE  /\ d[i] \in Byte
                      /\ d[i] \div 16 = fromHex(u[2 * i - 1])
                      /\ d[i] % 16 = fromHex(u[2 * i])
    OBVIOUS
  <2>1. d[i] = 16 * fromHex(u[2 * i - 1]) + fromHex(u[2 * i])
    BY <1>2
  <2> DEFINE f == fromHex(u[2 * i - 1])
             g == fromHex(u[2 * i])
  <2>2. f \in 0..15 /\ g \in 0..15 /\ d[i] = 16 * f + g
    BY <1>4, <2>1
  <2> HIDE DEF f, g
  <2>3. 16 * f + g \in Byte /\ (16 * f + g) \div 16 = f /\ (16 * f + g) % 16 = g
    BY <2>2, DigitsOfTwo
  <2> QED
    BY <2>2, <2>3 DEF f, g
<1>6. d \in Seq(Byte) /\ Len(d) = n
  <2>1. d \in [1..n -> Byte]
    BY <1>2, <1>5
  <2> QED
    BY <1>1, <2>1
<1>7. h \in Seq(Byte) /\ Len(h) = 2 * n
  BY <1>6, ToHexFacts
<1>8. \A i \in 1..n : h[2 * i - 1] = Upper(u[2 * i - 1]) /\ h[2 * i] = Upper(u[2 * i])
  <2>1. \A i \in 1..n : h[2 * i - 1] = toHex(d[i] \div 16) /\ h[2 * i] = toHex(d[i] % 16)
    BY <1>6, ToHexFacts
  <2> HIDE DEF h
  <2> QED
    BY <1>4, <1>5, <2>1
<1> HIDE DEF h
<1>9. \A k \in 1..(2 * n) : h[k] = Upper(u[k])
  BY <1>1, <1>8, EveryPlace
<1>10. h = [k \in 1..(2 * n) |-> Upper(u[k])]
  <2>1. h = [k \in 1..(2 * n) |-> h[k]]
    BY <1>7
  <2> QED
    BY <1>9, <2>1
<1> QED
  BY <1>1, <1>10 DEF h, d

-----------------------------------------------------------------------------
(* The views.                                                              *)

\* A view is a record of its string, offset and size that stays inside the string.
ViewType ==
    /\ x \in [data : Strings, off : Nat, size : Nat] /\ x.off + x.size <= Len(x.data)
    /\ y \in [data : Strings, off : Nat, size : Nat] /\ y.off + y.size <= Len(y.data)
    /\ aborted \in BOOLEAN

LEMMA StringsAreBytes == \A s \in Strings : s \in Seq(Byte) /\ Len(s) \in Nat
<1> SUFFICES ASSUME NEW s \in Strings PROVE s \in Seq(Byte)
  OBVIOUS
<1>1. PICK n \in 0..LenMax : s \in [1..n -> Bytes]
  BY DEF Strings
<1>2. n \in Nat /\ Bytes \subseteq Byte
  BY SliceAssumption DEF Byte
<1> QED
  BY <1>1, <1>2

LEMMA EmptyString == <<>> \in Strings /\ Len(<<>>) = 0
<1>1. 0 \in 0..LenMax /\ <<>> \in [1..0 -> Bytes]
  BY SliceAssumption
<1> QED
  BY <1>1 DEF Strings

\* clear, remove_prefix and remove_suffix keep a view inside its string: the asserts
\* are just what that needs (slice.h:43-58).
LEMMA ViewStep == ViewType /\ [Next]_vars => ViewType'
<1> SUFFICES ASSUME ViewType, [Next]_vars PROVE ViewType'
  OBVIOUS
<1> DEFINE V == [data : Strings, off : Nat, size : Nat]
<1>1. CASE UNCHANGED vars
  BY <1>1 DEF vars, ViewType
<1>2. CASE Clear
  <2>1. x' = [data |-> <<>>, off |-> 0, size |-> Len(<<>>)] /\ y' = y /\ aborted' = aborted
    BY <1>2 DEF Clear, View
  <2>2. x' \in V /\ x'.off + x'.size <= Len(x'.data)
    BY <2>1, EmptyString
  <2> QED
    BY <2>1, <2>2 DEF ViewType
<1>3. ASSUME NEW n \in 0..LenMax, remove_prefix(n) PROVE ViewType'
  <2>1. n \in Nat /\ x.off \in Nat /\ x.size \in Nat /\ x.data \in Strings
        /\ n <= x.size /\ Len(x.data) \in Nat
    BY <1>3, SliceAssumption, StringsAreBytes DEF remove_prefix, ViewType
  <2>2. x' = [data |-> x.data, off |-> x.off + n, size |-> x.size - n]
    BY <1>3 DEF remove_prefix, ViewType
  <2>3. x.off + n \in Nat /\ x.size - n \in Nat
        /\ (x.off + n) + (x.size - n) <= Len(x.data)
    BY <2>1 DEF ViewType
  <2> QED
    BY <1>3, <2>1, <2>2, <2>3 DEF remove_prefix, ViewType
<1>4. ASSUME NEW n \in 0..LenMax, remove_suffix(n) PROVE ViewType'
  <2>1. n \in Nat /\ x.off \in Nat /\ x.size \in Nat /\ x.data \in Strings
        /\ n <= x.size /\ Len(x.data) \in Nat
    BY <1>4, SliceAssumption, StringsAreBytes DEF remove_suffix, ViewType
  <2>2. x' = [data |-> x.data, off |-> x.off, size |-> x.size - n]
    BY <1>4 DEF remove_suffix, ViewType
  <2>3. x.size - n \in Nat /\ x.off + (x.size - n) <= Len(x.data)
    BY <2>1 DEF ViewType
  <2> QED
    BY <1>4, <2>1, <2>2, <2>3 DEF remove_suffix, ViewType
<1>5. ASSUME NEW n \in 0..LenMax, RemoveAborts(n) PROVE ViewType'
  BY <1>5 DEF RemoveAborts, ViewType
<1> QED
  BY <1>1, <1>2, <1>3, <1>4, <1>5 DEF Next

\* A Slice stays inside the string it was made of, whatever is removed from it.
THEOREM ViewsStayInside == Spec => []ViewInside
<1>1. Init => ViewType
  <2> SUFFICES ASSUME Init PROVE ViewType
    OBVIOUS
  <2>1. PICK c \in Strings : x = View(c)
    BY DEF Init
  <2>2. PICK d \in Strings : y = View(d)
    BY DEF Init
  <2>3. ASSUME NEW s \in Strings
        PROVE  /\ View(s) \in [data : Strings, off : Nat, size : Nat]
               /\ View(s).off + View(s).size <= Len(View(s).data)
    <3>1. Len(s) \in Nat /\ 0 + Len(s) <= Len(s)
      BY StringsAreBytes
    <3> QED
      BY <3>1 DEF View
  <2> QED
    BY <2>1, <2>2, <2>3 DEF Init, ViewType
<1>2. ViewType => ViewInside
  BY DEF ViewType, ViewInside
<1> QED
  BY <1>1, <1>2, ViewStep, PTL DEF Spec

\* What a view inside its string refers to is a sequence of bytes.
LEMMA ViewsAreBytes == ViewInside => a \in Seq(Byte) /\ b \in Seq(Byte)
<1> SUFFICES ASSUME ViewInside PROVE a \in Seq(Byte) /\ b \in Seq(Byte)
  OBVIOUS
<1>1. x.data \in Strings /\ x.off \in Nat /\ x.size \in Nat /\ x.off + x.size <= Len(x.data)
  BY DEF ViewInside
<1>2. y.data \in Strings /\ y.off \in Nat /\ y.size \in Nat /\ y.off + y.size <= Len(y.data)
  BY DEF ViewInside
<1>3. ASSUME NEW s \in Seq(Byte), NEW o \in Nat, NEW k \in Nat, o + k <= Len(s)
      PROVE  SubSeq(s, o + 1, o + k) \in Seq(Byte)
  <2>1. \A i \in (o + 1)..(o + k) : i \in 1..Len(s)
    BY <1>3
  <2> QED
    BY <1>3, <2>1
<1> QED
  BY <1>1, <1>2, <1>3, StringsAreBytes DEF a, b, Bytes_

\* compare, == and < agree on the lexicographic order in every view a call can reach.
THEOREM ComparisonsAgree == Spec => []OneOrder
<1>1. ViewInside => OneOrder
  BY ViewsAreBytes, OneOrderOfBytes DEF OneOrder, OrderAgrees
<1> QED
  BY <1>1, ViewsStayInside, PTL

\* starts_with, ends_with and difference_offset are the prefix and suffix orders and
\* the length of the longest common prefix.
THEOREM PrefixTestsAgree == Spec => []PrefixesAgree
<1>1. ViewInside => PrefixesAgree
  <2> SUFFICES ASSUME a \in Seq(Byte), b \in Seq(Byte) PROVE PrefixesAgree
    BY ViewsAreBytes
  <2> HIDE DEF a, b
  <2>1. (starts_with(a, b) <=> IsPrefix(b, a)) /\ (ends_with(a, b) <=> IsSuffix(b, a))
    BY StartsWithIsPrefix, EndsWithIsSuffix
  <2>2. /\ ends_with(Joined(<<a, b>>, <<>>), b) /\ starts_with(Joined(<<a, b>>, <<>>), a)
    BY JoinedPair, PartsOfJoined
  <2>3. DifferenceAgrees(a, b)
    BY DifferenceOffset
  <2> QED
    BY <2>1, <2>2, <2>3 DEF PrefixesAgree, DifferenceAgrees
<1> QED
  BY <1>1, ViewsStayInside, PTL

\* DecodeHex inverts ToString(true), accepts exactly the hex strings and loses only
\* the case of their letters.
THEOREM HexInverse == Spec => []HexRoundTrip
<1>1. ViewInside => HexRoundTrip
  <2> SUFFICES ASSUME a \in Seq(Byte) PROVE HexRoundTrip
    BY ViewsAreBytes
  <2> HIDE DEF a
  <2>1. DecodeHex(ToHex(a)) = <<a, TRUE>>
    BY EncodeDecode
  <2>2. CASE ValidHex(a)
    <3>1. DecodeHex(a) = <<Decoded(a), TRUE>>
      BY <2>2, DecodeHexFacts
    <3>2. DecodeHex(a)[1] = Decoded(a) /\ DecodeHex(a)[2] = TRUE
      BY <3>1
    <3> QED
      BY <2>1, <2>2, <3>2, DecodeEncode DEF HexRoundTrip, ValidHex
  <2>3. CASE ~ValidHex(a)
    <3>1. DecodeHex(a) = <<<<>>, FALSE>>
      BY <2>3, DecodeHexFacts
    <3>2. DecodeHex(a)[2] = FALSE
      BY <3>1
    <3> QED
      BY <2>1, <2>3, <3>2 DEF HexRoundTrip, ValidHex
  <2> QED
    BY <2>2, <2>3
<1> QED
  BY <1>1, ViewsStayInside, PTL
=============================================================================
