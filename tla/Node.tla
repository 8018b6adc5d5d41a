-------------------------------- MODULE Node --------------------------------
(***************************************************************************)
(* Node (node.cpp) and the page layout it reads and writes (page.cpp): the  *)
(* sorted vector of inodes, put, del and get on it, and its serialisation.  *)
(*                                                                          *)
(* A slice is its rank among the slices of the model, in the order of       *)
(* Slice::compare; rank 0 is the empty slice, and the rank serves as its    *)
(* length.  Where the code writes a message and calls exit, exited becomes  *)
(* true and nothing happens any more.                                       *)
(***************************************************************************)
EXTENDS Integers, Sequences, FiniteSets, Functions, SequencesExt

CONSTANTS Keys,        \* the non-empty keys
          Values,      \* the values
          Flags,       \* INode::flags
          Ids,         \* page ids for INode::id, some not below the high water mark
          HighWater,   \* Meta::pgid
          PageIds,     \* the pages a node is written to and read from
          CountMax,    \* 0xffff
          HeaderSize, LeafSize, BranchSize,  \* pageHeaderSize and the element sizes
          NotFound

ASSUME NodeAssumption ==
    /\ Keys \subseteq Nat \ {0} /\ Values \subseteq Nat
    /\ HighWater \in Nat /\ CountMax \in Nat
    /\ HeaderSize \in Nat /\ LeafSize \in Nat /\ BranchSize \in Nat

VARIABLES inodes,      \* Node::inodes
          isLeaf,      \* Node::isLeaf_
          unbalanced,  \* Node::unbalanced_, not initialised by the constructor
          key_,        \* Node::key_
          backing,     \* the pages whose memory the inodes' slices point into
          pages,       \* pages[p]: the Page with id p
          answer,      \* what the last call returned: of a get, its key and the entry
          exited,      \* the process has exited
          onPage,      \* onPage[p]: the contents of the node last written to p
          sizeOnPage   \* sizeOnPage[p]: what size() was at that time

vars == <<inodes, isLeaf, unbalanced, key_, backing, pages, answer, exited, onPage, sizeOnPage>>

INode == [flags : Flags, id : Ids, key : Keys, value : Values]

\* elems are the page elements, data the key and value bytes by their offset.
PageType == [flags : SUBSET {"leaf", "branch"}, count : Nat, elems : Seq([pos : Int,
             ksize : Nat, vsize : Nat, flags : Flags, id : Ids]), data : SUBSET
             [at : Nat, key : Nat, value : Nat]]

TypeOK ==
    /\ inodes \in Seq(INode)
    /\ isLeaf \in BOOLEAN /\ unbalanced \in BOOLEAN
    /\ key_ \in Keys \cup {0}
    /\ backing \subseteq PageIds
    /\ pages \in [PageIds -> PageType]
    /\ answer \in [key : Keys \cup {0}, entry : [value : Values, flags : Flags] \cup {NotFound}]
    /\ exited \in BOOLEAN
    /\ sizeOnPage \in [PageIds -> Nat]

-----------------------------------------------------------------------------
(* Lookups.                                                                *)

\* Seeded fault (a definition with a suffix replaces the one it is named after).
lower_bound_Upper(k) == Cardinality({i \in DOMAIN inodes : inodes[i].key <= k})

\* std::lower_bound on the sorted inodes: how many keys are below k.
lower_bound(k) == Cardinality({i \in DOMAIN inodes : inodes[i].key < k})

\* Position of the inode that lower_bound finds, and whether its key is k.
Index(k) == lower_bound(k) + 1

Exact(k) == Index(k) <= Len(inodes) /\ inodes[Index(k)].key = k

\* The node as a map from its keys.
Contents ==
    [k \in {inodes[i].key : i \in DOMAIN inodes} |->
        LET i == CHOOSE j \in DOMAIN inodes : inodes[j].key = k
        IN  [value |-> inodes[i].value, flags |-> inodes[i].flags]]

pageElementSize == IF isLeaf THEN LeafSize ELSE BranchSize

\* Bytes of the keys and values of the first n inodes.
DataBefore[n \in 0..Len(inodes)] ==
    IF n = 0 THEN 0 ELSE DataBefore[n - 1] + (inodes[n].key + inodes[n].value)

size == HeaderSize + Len(inodes) * pageElementSize + DataBefore[Len(inodes)]

Exit ==
    /\ exited' = TRUE
    /\ UNCHANGED <<inodes, isLeaf, unbalanced, key_, backing, pages, answer, onPage, sizeOnPage>>

\* Node::put exits for an id above the high water mark and for empty keys.
Rejected(old, new, id) == id >= HighWater \/ old = 0 \/ new = 0

-----------------------------------------------------------------------------
(* The page.                                                               *)

\* put, del, write and read return nothing.
NoAnswer == [key |-> 0, entry |-> NotFound]

EmptyPage == [flags |-> {}, count |-> 0, elems |-> <<>>, data |-> {}]

\* Seeded fault: the data start on the last element.
Offset_NoElements(i) == (Len(inodes) - 1) * pageElementSize + DataBefore[i - 1]

\* Offset of the data of the i-th inode from the start of the elements.
Offset(i) == Len(inodes) * pageElementSize + DataBefore[i - 1]

ElementAt(i) ==
    [pos |-> Offset(i) - (i - 1) * pageElementSize,
     ksize |-> inodes[i].key, vsize |-> inodes[i].value,
     flags |-> inodes[i].flags, id |-> inodes[i].id]

\* Where the i-th element of a leaf page says its key is: relative to itself.
LeafData(pg, i) == (i - 1) * LeafSize + pg.elems[i].pos

\* The bytes at an offset; nothing is known of bytes that write() did not write.
Chunk(pg, off) ==
    IF \E d \in pg.data : d.at = off THEN CHOOSE d \in pg.data : d.at = off
                                     ELSE [at |-> off, key |-> 0, value |-> 0]

\* The key that read() stores in the i-th inode.  On a branch page the key goes
\* to an inner variable that shadows the inode, whose own key stays empty.
KeyRead(pg, i) == IF "leaf" \in pg.flags THEN Chunk(pg, LeafData(pg, i)).key ELSE 0

\* Seeded fault: the test is missing.
ZeroKey_Unchecked(pg) == FALSE

\* read() exits on an empty key.
ZeroKey(pg) == \E i \in 1..pg.count : KeyRead(pg, i) = 0

\* Seeded fault: an inode with the old key is kept.
Put_NoExactTest(old, new, value, id, flags) ==
    LET inode == [flags |-> flags, id |-> id, key |-> new, value |-> value]
    IN  /\ ~exited
        /\ ~Rejected(old, new, id)
        /\ inodes' = InsertAt(inodes, Index(old), inode)
        /\ answer' = NoAnswer
        /\ UNCHANGED <<isLeaf, unbalanced, key_, backing, pages, exited, onPage, sizeOnPage>>

-----------------------------------------------------------------------------
(* The operations.                                                         *)

Init ==
    /\ inodes = <<>> /\ isLeaf \in BOOLEAN /\ unbalanced \in BOOLEAN
    /\ key_ = 0 /\ backing = {}
    /\ pages = [p \in PageIds |-> EmptyPage]
    /\ answer = NoAnswer /\ exited = FALSE
    /\ onPage = [p \in PageIds |-> Contents]
    /\ sizeOnPage = [p \in PageIds |-> HeaderSize]

Get(k) ==
    /\ ~exited
    /\ answer' = [key |-> k, entry |->
         IF Exact(k) THEN [value |-> inodes[Index(k)].value, flags |-> inodes[Index(k)].flags]
                     ELSE NotFound]
    /\ UNCHANGED <<inodes, isLeaf, unbalanced, key_, backing, pages, exited, onPage, sizeOnPage>>

\* An inode that has the old key is overwritten, else one is inserted before the
\* first larger key; either way it gets the new key.
Put(old, new, value, id, flags) ==
    LET inode == [flags |-> flags, id |-> id, key |-> new, value |-> value]
    IN  /\ ~exited
        /\ ~Rejected(old, new, id)
        /\ inodes' = IF Exact(old) THEN ReplaceAt(inodes, Index(old), inode)
                                   ELSE InsertAt(inodes, Index(old), inode)
        /\ answer' = NoAnswer
        /\ UNCHANGED <<isLeaf, unbalanced, key_, backing, pages, exited, onPage, sizeOnPage>>

\* All rejected calls have the same effect.
PutExits ==
    /\ ~exited
    /\ {a \in (Keys \cup {0}) \X (Keys \cup {0}) \X Ids : Rejected(a[1], a[2], a[3])} # {}
    /\ Exit

Del(k) ==
    /\ ~exited
    /\ IF Exact(k) THEN inodes' = RemoveAt(inodes, Index(k)) /\ unbalanced' = TRUE
                   ELSE UNCHANGED <<inodes, unbalanced>>
    /\ answer' = NoAnswer
    /\ UNCHANGED <<isLeaf, key_, backing, pages, exited, onPage, sizeOnPage>>

DelExits ==
    /\ ~exited
    /\ Exit

\* setFlags adds to the flags the page has.  An empty node leaves the old
\* elements where they are.
Write(p) ==
    /\ ~exited
    /\ Len(inodes) <= CountMax
    /\ isLeaf \/ \A i \in DOMAIN inodes : inodes[i].id = p
    /\ pages' = [pages EXCEPT ![p] =
         [flags |-> @.flags \cup {IF isLeaf THEN "leaf" ELSE "branch"},
          count |-> Len(inodes),
          elems |-> IF inodes = <<>> THEN @.elems ELSE [i \in DOMAIN inodes |-> ElementAt(i)],
          data |-> IF inodes = <<>> THEN @.data
                   ELSE {[at |-> Offset(i), key |-> inodes[i].key, value |-> inodes[i].value]
                         : i \in DOMAIN inodes}]]
    /\ onPage' = [onPage EXCEPT ![p] = Contents]
    /\ sizeOnPage' = [sizeOnPage EXCEPT ![p] = size]
    /\ answer' = NoAnswer
    /\ UNCHANGED <<inodes, isLeaf, unbalanced, key_, backing, exited>>

WriteOverflow(p) ==
    /\ ~exited
    /\ Len(inodes) > CountMax
    /\ Exit

WriteCircular(p) ==
    /\ ~exited
    /\ Len(inodes) <= CountMax
    /\ ~isLeaf /\ \E i \in DOMAIN inodes : inodes[i].id # p
    /\ Exit

\* The id of an inode read from a leaf page is not initialised.  The slices
\* refer to the memory of the page.
Read(p) ==
    LET pg == pages[p]
        inode(i, id) == [flags |-> pg.elems[i].flags, id |-> id, key |-> KeyRead(pg, i),
                         value |-> Chunk(pg, LeafData(pg, i)).value]
    IN  /\ ~exited
        /\ ~ZeroKey(pg)
        /\ \E garbage \in [1..pg.count -> Ids] :
             inodes' = [i \in 1..pg.count |-> inode(i, garbage[i])]
        /\ isLeaf' = ("leaf" \in pg.flags)
        /\ key_' = IF pg.count > 0 THEN inodes'[1].key ELSE key_
        /\ backing' = IF pg.count > 0 THEN {p} ELSE {}
        /\ answer' = NoAnswer
        /\ UNCHANGED <<unbalanced, pages, exited, onPage, sizeOnPage>>

ReadExits(p) ==
    /\ ~exited
    /\ ZeroKey(pages[p])
    /\ Exit

-----------------------------------------------------------------------------
\* What put asks of its caller: the new key takes the place of the old one in
\* the order of the keys.
Fits(old, new) ==
    LET after == IF Exact(old) THEN Index(old) + 1 ELSE Index(old)
    IN  /\ \A i \in 1..(Index(old) - 1) : inodes[i].key < new
        /\ \A i \in after..Len(inodes) : new < inodes[i].key

\* What write asks of its caller: a page the slices of the node do not point
\* into (a transaction writes to newly allocated pages).  What read asks: a page
\* that a node has been written to.
Next ==
    \/ \E k \in Keys : Get(k) \/ Del(k)
    \/ \E old, new \in Keys, v \in Values, id \in Ids, f \in Flags :
         Fits(old, new) /\ Put(old, new, v, id, f)
    \/ PutExits \/ DelExits
    \/ \E p \in PageIds \ backing : Write(p) \/ WriteOverflow(p) \/ WriteCircular(p)
    \/ \E p \in {q \in PageIds : pages[q].flags # {}} : Read(p) \/ ReadExits(p)

Spec == Init /\ [][Next]_vars

-----------------------------------------------------------------------------
(* Properties.                                                             *)

\* The inodes are strictly sorted after any sequence of put, del and read, so
\* every lower_bound in node.cpp and cursor.cpp is applied to a range on which
\* it is defined, and a key is found where it was put.
KeysSorted ==
    \A i, j \in DOMAIN inodes : i < j => inodes[i].key < inodes[j].key

\* The data of the elements of a written leaf page lie one after the other behind
\* the elements, and end where size() said the node would end (node.h:50).
LayoutTight ==
    \A p \in PageIds :
        LET pg == pages[p]
            end(i) == LeafData(pg, i) + pg.elems[i].ksize + pg.elems[i].vsize
        IN  "leaf" \in pg.flags /\ pg.count > 0 =>
                /\ LeafData(pg, 1) = pg.count * LeafSize
                /\ \A i \in 1..(pg.count - 1) : LeafData(pg, i + 1) = end(i)
                /\ HeaderSize + end(pg.count) = sizeOnPage[p]

\* The node as a map.
Map == INSTANCE NodeMap WITH
    map <- Contents, Entries <- [value : Values, flags : Flags]

\* get, put, del, write and read on the sorted vector implement a map that is
\* saved and restored, wherever lower_bound lands and however the page is laid
\* out (node.cpp:77-228).
ImplementsMap == Map!Spec
=============================================================================
