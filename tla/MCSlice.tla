------------------------------ MODULE MCSlice -------------------------------
(* Model-checking instance of Slice. *)
EXTENDS Slice

\* The bytes on both sides of every boundary of the hex digits, with the smallest
\* and the largest one.
MCBytes == {0, 47, 48, 57, 58, 65, 70, 71, 97, 102, 103, 255}
=============================================================================
