------------------------------- MODULE Slice --------------------------------
(***************************************************************************)
(* Slice (slice.h, slice.cpp): a view of bytes that belong to someone else, *)
(* the orders that nodes, pages and cursors search with, and the hex form.  *)
(* The operators are the code's; the properties compare them with reference *)
(* definitions for every view that a sequence of calls can reach.           *)
(***************************************************************************)
EXTENDS Integers, SequencesExt

CONSTANTS Bytes,   \* the bytes (0..255) strings are made of
          LenMax   \* bounds the strings

ASSUME SliceAssumption == Bytes \subseteq 0..255 /\ LenMax \in Nat

VARIABLES
    x,        \* a Slice: data_ points at offset off of the string data
    y,        \* another one
    aborted   \* an assert has failed

vars == <<x, y, aborted>>

Strings == UNION {[1..n -> Bytes] : n \in 0..LenMax}
View(d) == [data |-> d, off |-> 0, size |-> Len(d)]
Bytes_(s) == SubSeq(s.data, s.off + 1, s.off + s.size)

Init ==
    /\ x \in {View(d) : d \in Strings}
    /\ y \in {View(d) : d \in Strings}
    /\ aborted = FALSE

-----------------------------------------------------------------------------
(* Seeded faults: each replaces the definition it is named after in one run. *)

remove_prefix_KeepsSize(n) ==
    /\ ~aborted /\ n <= x.size
    /\ x' = [x EXCEPT !.off = @ + n]
    /\ UNCHANGED <<y, aborted>>

-----------------------------------------------------------------------------
(* Calls that change a Slice.                                              *)

Clear ==
    /\ ~aborted
    /\ x' = View(<<>>)
    /\ UNCHANGED <<y, aborted>>

remove_prefix(n) ==
    /\ ~aborted /\ n <= x.size
    /\ x' = [x EXCEPT !.off = @ + n, !.size = @ - n]
    /\ UNCHANGED <<y, aborted>>

remove_suffix(n) ==
    /\ ~aborted /\ n <= x.size
    /\ x' = [x EXCEPT !.size = @ - n]
    /\ UNCHANGED <<y, aborted>>

\* The assert of both: more bytes than there are.
RemoveAborts(n) ==
    /\ ~aborted /\ n > x.size
    /\ aborted' = TRUE
    /\ UNCHANGED <<x, y>>

Next ==
    \/ Clear
    \/ \E n \in 0..LenMax : remove_prefix(n) \/ remove_suffix(n) \/ RemoveAborts(n)

Spec == Init /\ [][Next]_vars

-----------------------------------------------------------------------------
(* Calls that do not, on the bytes of their Slices.                        *)

\* memcmp takes bytes as unsigned.
memcmp(u, v, n) ==
    LET D == {i \in 1..n : u[i] # v[i]}
    IN  IF D = {} THEN 0
        ELSE LET i == CHOOSE i \in D : \A j \in D : i <= j IN u[i] - v[i]

MinLen(u, v) == IF Len(u) < Len(v) THEN Len(u) ELSE Len(v)

compare(u, v) ==
    LET r == memcmp(u, v, MinLen(u, v))
    IN  IF r # 0 THEN r
        ELSE IF Len(u) < Len(v) THEN -1
        ELSE IF Len(u) > Len(v) THEN 1 ELSE 0

Equal(u, v) == Len(u) = Len(v) /\ memcmp(u, v, Len(u)) = 0

Less_NoLength(u, v) == memcmp(u, v, MinLen(u, v)) < 0

Less(u, v) ==
    LET r == memcmp(u, v, MinLen(u, v)) IN r < 0 \/ (r = 0 /\ Len(u) < Len(v))

starts_with(u, v) == Len(u) >= Len(v) /\ memcmp(u, v, Len(v)) = 0

ends_with(u, v) ==
    /\ Len(u) >= Len(v)
    /\ memcmp(SubSeq(u, Len(u) - Len(v) + 1, Len(u)), v, Len(v)) = 0

difference_offset_OneTooFar(u, v) ==
    LET D == {i \in 1..MinLen(u, v) : u[i] # v[i]}
    IN  IF D = {} THEN MinLen(u, v) ELSE CHOOSE i \in D : \A j \in D : i <= j

difference_offset(u, v) ==
    LET D == {i \in 1..MinLen(u, v) : u[i] # v[i]}
    IN  IF D = {} THEN MinLen(u, v) ELSE (CHOOSE i \in D : \A j \in D : i <= j) - 1

\* Slice(parts, buf) appends the parts to what buf holds and refers to all of it.
Joined(parts, buf) == buf \o FlattenSeq(parts)

-----------------------------------------------------------------------------
(* The hex form: '0' is 48, 'A' is 65 and 'a' is 97.                       *)

toHex(v) == IF v <= 9 THEN 48 + v ELSE 65 + v - 10

fromHex_NoUpper(c) ==
    IF c < 48 \/ (c > 57 /\ (c < 65 \/ c > 70)) THEN -1
    ELSE IF c <= 57 THEN c - 48 ELSE c - 65 + 10

\* The argument is a char, which is signed.
fromHex(c) ==
    LET s == IF c > 127 THEN c - 256 ELSE c
        u == IF 97 <= s /\ s <= 102 THEN s - 32 ELSE s
    IN  IF u < 48 \/ (u > 57 /\ (u < 65 \/ u > 70)) THEN -1
        ELSE IF u <= 57 THEN u - 48 ELSE u - 65 + 10

ToHex(u) ==
    [i \in 1..(2 * Len(u)) |-> IF i % 2 = 1 THEN toHex(u[(i + 1) \div 2] \div 16)
                                            ELSE toHex(u[i \div 2] % 16)]

\* The string and whether it is valid.
DecodeHex(u) ==
    IF Len(u) % 2 = 0 /\ \A i \in 1..Len(u) : fromHex(u[i]) >= 0
      THEN <<[i \in 1..(Len(u) \div 2) |-> 16 * fromHex(u[2 * i - 1]) + fromHex(u[2 * i])], TRUE>>
      ELSE <<<<>>, FALSE>>

-----------------------------------------------------------------------------
(* Properties.                                                             *)

a == Bytes_(x)
b == Bytes_(y)

\* After any calls a Slice refers to bytes of its string only: no size has gone
\* below zero and no end past the string (slice.h:43-58).
ViewInside ==
    /\ {x.data, y.data} \subseteq Strings
    /\ {x.off, x.size, y.off, y.size} \subseteq Nat
    /\ x.off + x.size <= Len(x.data) /\ y.off + y.size <= Len(y.data)
    /\ aborted \in BOOLEAN

LexLess(u, v) ==
    \/ IsStrictPrefix(u, v)
    \/ \E i \in 1..MinLen(u, v) : u[i] < v[i] /\ \A j \in 1..(i - 1) : u[j] = v[j]

\* compare, == and < agree on the lexicographic order of unsigned bytes, in which
\* a prefix is smaller: the searches of nodes and of the cursor go by < and then
\* test with == (slice.h:92-136).
OneOrder ==
    /\ compare(a, b) < 0 <=> LexLess(a, b)
    /\ compare(a, b) > 0 <=> LexLess(b, a)
    /\ Less(a, b) <=> LexLess(a, b)
    /\ Equal(a, b) <=> a = b

\* starts_with and ends_with are the prefix and suffix orders, also for empty and
\* for longer arguments, where ends_with computes data_ + size_ - x.size_, and
\* difference_offset is the length of the longest common prefix (slice.h:78-113).
PrefixesAgree ==
    /\ starts_with(a, b) <=> IsPrefix(b, a)
    /\ ends_with(a, b) <=> IsSuffix(b, a)
    /\ ends_with(Joined(<<a, b>>, <<>>), b) /\ starts_with(Joined(<<a, b>>, <<>>), a)
    /\ LET n == difference_offset(a, b)
       IN  /\ SubSeq(a, 1, n) = SubSeq(b, 1, n)
           /\ n < MinLen(a, b) => a[n + 1] # b[n + 1]
           /\ starts_with(a, b) <=> n = Len(b)

IsHex(c) == c \in 48..57 \cup 65..70 \cup 97..102
Upper(c) == IF c \in 97..102 THEN c - 32 ELSE c

\* DecodeHex inverts ToString(true) for all bytes; it accepts exactly the strings of
\* an even number of hex digits in either case, and encoding what it makes of one
\* gives the string back in upper case (slice.h:61-69).
HexRoundTrip ==
    /\ DecodeHex(ToHex(a)) = <<a, TRUE>>
    /\ LET d == DecodeHex(a)
       IN  /\ d[2] <=> Len(a) % 2 = 0 /\ \A i \in 1..Len(a) : IsHex(a[i])
           /\ d[2] => ToHex(d[1]) = [i \in 1..Len(a) |-> Upper(a[i])]
=============================================================================
