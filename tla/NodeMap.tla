------------------------------ MODULE NodeMap -------------------------------
(***************************************************************************)
(* What a Node (node.h) is to its users: a finite map from keys to values   *)
(* that can be saved to pages and loaded from them.                         *)
(***************************************************************************)
EXTENDS Naturals, Functions

CONSTANTS Keys, Entries, PageIds, NotFound

VARIABLES map,     \* the current contents
          onPage,  \* onPage[p]: the contents last written to page p
          answer   \* what the last call returned: of a get, its key and the entry

vars == <<map, onPage, answer>>

Without(f, k) == Restrict(f, DOMAIN f \ {k})

With(f, k, e) == [x \in DOMAIN f \cup {k} |-> IF x = k THEN e ELSE f[x]]

Empty == [k \in {} |-> NotFound]

NoAnswer == [key |-> 0, entry |-> NotFound]

Init ==
    /\ map = Empty
    /\ onPage = [p \in PageIds |-> Empty]
    /\ answer = NoAnswer

Get(k) ==
    /\ answer' = [key |-> k, entry |-> IF k \in DOMAIN map THEN map[k] ELSE NotFound]
    /\ UNCHANGED <<map, onPage>>

\* The entry of one key is replaced by an entry, possibly under a new key.
Put(old, new, e) ==
    /\ new \notin DOMAIN map \ {old}
    /\ map' = With(Without(map, old), new, e)
    /\ answer' = NoAnswer
    /\ UNCHANGED onPage

Del(k) ==
    /\ map' = Without(map, k)
    /\ answer' = NoAnswer
    /\ UNCHANGED onPage

Write(p) ==
    /\ onPage' = [onPage EXCEPT ![p] = map]
    /\ answer' = NoAnswer
    /\ UNCHANGED map

Read(p) ==
    /\ map' = onPage[p]
    /\ answer' = NoAnswer
    /\ UNCHANGED onPage

Next ==
    \/ \E k \in Keys : Get(k) \/ Del(k)
    \/ \E old, new \in Keys, e \in Entries : Put(old, new, e)
    \/ \E p \in PageIds : Write(p) \/ Read(p)

Spec == Init /\ [][Next]_vars
=============================================================================
