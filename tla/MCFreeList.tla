---------------------------- MODULE MCFreeList ------------------------------
(* Model-checking instance of FreeList. *)
EXTENDS FreeList, FiniteSets

\* A count of 3 stands for 0xFFFF: shorter lists are stored without a size.
MCCountMax == 3
MCPages ==
    {[count |-> 0, words |-> <<>>],
     [count |-> 2, words |-> <<4, 2>>],
     [count |-> 3, words |-> <<3, 4, 3, 2>>]}

\* Up to three transactions have freed the pages 5 to 7, alone or out of order.
Lists == {<<>>, <<5>>, <<7>>, <<6, 5>>}
MCTxids == 0..3
MCPendings ==
    {d \in UNION {[D -> Lists] : D \in SUBSET {0, 1, 3}} :
        \A s, t \in DOMAIN d : s # t => Range(d[s]) \cap Range(d[t]) = {}}
=============================================================================
