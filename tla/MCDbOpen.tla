------------------------------ MODULE MCDbOpen ------------------------------
(* Model-checking instances of DbOpen. *)
EXTENDS DbOpen

CONSTANTS d1, d2, d3,  \* DB objects
          p1, p2       \* processes

\* d1 and d2 belong to one process, d3 to another.
MCProcess == [o \in Objects |-> IF o = d3 THEN p2 ELSE p1]

\* One object waits indefinitely, the others have timeouts.
MCTimeout == [o \in Objects |-> CASE o = d1 -> 0 [] o = d2 -> 1 [] o = d3 -> 2]
=============================================================================
