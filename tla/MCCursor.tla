------------------------------ MODULE MCCursor ------------------------------
(* Model-checking instance of Cursor. *)
EXTENDS Cursor

Leaf(keys, node) == [leaf |-> TRUE, keys |-> keys, kids |-> <<>>, node |-> node]
Branch(keys, kids, node) == [leaf |-> FALSE, keys |-> keys, kids |-> kids, node |-> node]

\* What the j-th leaf may hold: nothing, one key or two.
LeafKeys(j) == {<<>>, <<2 * j>>, <<2 * j, 2 * j + 1>>}

\* The root is a leaf.
Single == {<<Leaf(k, n)>> : k \in LeafKeys(1), n \in BOOLEAN}

\* A root over three leaves, some of them nodes and some pages.
TwoLevels ==
    {<<Branch(<<2, 4, 6>>, <<2, 3, 4>>, n), Leaf(a, n), Leaf(b, m), Leaf(c, n)>>
       : a \in LeafKeys(1), b \in LeafKeys(2), c \in LeafKeys(3), n, m \in BOOLEAN}

\* A root over two branches of two leaves each.
ThreeLevels ==
    {<<Branch(<<2, 6>>, <<2, 3>>, n), Branch(<<2, 4>>, <<4, 5>>, n), Branch(<<6, 8>>, <<6, 7>>, n),
       Leaf(a, n), Leaf(b, n), Leaf(c, n), Leaf(d, n)>>
       : a \in {<<>>, <<2>>}, b \in {<<>>, <<4, 5>>}, c \in {<<>>, <<6>>}, d \in {<<>>, <<8>>},
         n \in BOOLEAN}

\* Nine branches in a chain, the last with two leaves: the first depth at which a
\* key can be deleted.
TenLevels ==
    {[i \in 1..11 |-> CASE i < 9 -> Branch(<<2>>, <<i + 1>>, n)
                         [] i = 9 -> Branch(<<2, 6>>, <<10, 11>>, n)
                         [] i = 10 -> Leaf(a, n)
                         [] OTHER -> Leaf(b, m)]
       : a \in {<<2, 4>>, <<2, 3, 4>>}, b \in {<<6>>, <<6, 7, 8>>}, n, m \in BOOLEAN}

MCTrees == Single \cup TwoLevels \cup ThreeLevels \cup TenLevels
=============================================================================
