------------------------------- MODULE Cursor -------------------------------
(***************************************************************************)
(* Cursor (cursor.cpp): iteration over the tree of a bucket, which only the *)
(* deletes of the cursor change meanwhile.  The loops of first_, last_,     *)
(* next_ and the recursion of search are steps; a call runs from            *)
(* pc = "idle" to pc = "idle".                                              *)
(*                                                                          *)
(* tree[id] is what Bucket::page_node returns for a page id: a Node of the  *)
(* bucket's cache or else the Page itself, a leaf with its keys or a branch *)
(* with the first key and the id of each child.  A branch has children, a   *)
(* leaf may be empty.  Values and the bucket flag follow the key and are    *)
(* left out.                                                                *)
(***************************************************************************)
EXTENDS Integers, Sequences, FiniteSets, SequencesExt, FiniteSetsExt

CONSTANTS Trees,     \* the trees of the model
          Root,      \* the page id of every root
          SeekKeys,  \* the arguments of seek
          Nil        \* no key

\* A page or node: the keys are sorted, and a branch has a child for every key.
PageOK(t, id) ==
    LET page == t[id]
    IN  /\ page \in [leaf : BOOLEAN, node : BOOLEAN, keys : Seq(Nat), kids : Seq(DOMAIN t)]
        /\ \A i, j \in DOMAIN page.keys : i < j => page.keys[i] < page.keys[j]
        /\ ~page.leaf => page.kids # <<>> /\ Len(page.kids) = Len(page.keys)

LeafKeysOf(t) == UNION {ToSet(t[id].keys) : id \in {i \in DOMAIN t : t[i].leaf}}

\* The keys in the leaves under each page.
Under(t) ==
    LET under[id \in DOMAIN t] ==
          IF t[id].leaf THEN ToSet(t[id].keys)
          ELSE UNION {under[t[id].kids[i]] : i \in DOMAIN t[id].kids}
    IN  under

\* The keys of a branch separate the keys under its children; the first one
\* need not be a lower bound.  Every key is in one leaf, and every leaf under the root.
SearchTree(t, under) ==
    /\ under[Root] = LeafKeysOf(t)
    /\ \A id \in DOMAIN t :
         LET page == t[id]
         IN  IF page.leaf THEN under[id] = ToSet(page.keys)
             ELSE /\ under[id] = UNION {under[page.kids[i]] : i \in DOMAIN page.kids}
                  /\ \A i \in DOMAIN page.kids : \A k \in under[page.kids[i]] :
                       /\ i > 1 => page.keys[i] <= k
                       /\ i < Len(page.kids) => k < page.keys[i + 1]
    /\ \A a, b \in {id \in DOMAIN t : t[id].leaf} : a # b => under[a] \cap under[b] = {}

ASSUME CursorAssumption ==
    /\ SeekKeys \subseteq Nat /\ Nil \notin Nat
    /\ \A t \in Trees :
         /\ t = [id \in DOMAIN t |-> t[id]] /\ Root \in DOMAIN t
         /\ \A id \in DOMAIN t : PageOK(t, id)
         /\ SearchTree(t, Under(t))

VARIABLES tree,     \* the tree under the cursor
          stack,    \* Cursor::stack_: page id and (zero-based) index
          pc, op,   \* where the code is, and which call it is in
          arg,      \* the argument of seek
          ret,      \* the key the last call returned
          reached,  \* the key the cursor is at, or End
          aborted   \* an assert has failed

vars == <<tree, stack, pc, op, arg, ret, reached, aborted>>

PCs == {"idle", "first_", "next_", "next_first_", "last_", "search"}
Ops == {"first", "next", "prev", "last", "seek"}

-----------------------------------------------------------------------------
(* elemRef.                                                                *)

isLeaf(ref) == tree[ref.id].leaf

count(ref) == Len(tree[ref.id].keys)

\* The child of a branch that the ref points at.
Child(ref) == tree[ref.id].kids[ref.index + 1]

\* Cursor::keyValue on a stack st.
keyValue(st) ==
    LET ref == Last(st)
    IN  IF count(ref) = 0 \/ ref.index >= count(ref) THEN Nil
        ELSE tree[ref.id].keys[ref.index + 1]

\* The keys in the leaves of the tree.
AllKeys == LeafKeysOf(tree)

\* The keys that the trees start with.
Keys == UNION {UNION {ToSet(t[id].keys) : id \in DOMAIN t} : t \in Trees}

TypeOK ==
    /\ \A id \in DOMAIN tree :
         /\ \A i, j \in DOMAIN tree[id].keys : i < j => tree[id].keys[i] < tree[id].keys[j]
         /\ ~tree[id].leaf => Len(tree[id].kids) = Len(tree[id].keys)
    /\ \A i \in DOMAIN stack : stack[i].id \in DOMAIN tree /\ stack[i].index \in -1..count(stack[i])
    /\ pc \in PCs /\ op \in Ops
    /\ arg \in SeekKeys
    /\ ret \in Keys \cup {Nil} /\ reached \in Keys \cup {Nil}
    /\ aborted \in BOOLEAN

Init ==
    /\ tree \in Trees
    /\ stack = <<>> /\ pc = "idle" /\ op = "first" /\ arg \in SeekKeys
    /\ ret = Nil /\ reached = Nil /\ aborted = FALSE

-----------------------------------------------------------------------------
(* Building blocks.                                                        *)

Call(name, to) ==
    /\ ~aborted /\ pc = "idle"
    /\ op' = name /\ pc' = to
    /\ UNCHANGED <<tree, ret, reached, aborted>>

Goto(to) == pc' = to /\ UNCHANGED <<tree, op, arg, ret, reached, aborted>>

\* The call returns key k with the cursor on key r.
Return(k, r) ==
    /\ pc' = "idle" /\ ret' = k /\ reached' = r
    /\ UNCHANGED <<tree, op, arg, aborted>>

\* next_ has ended with key k: next returns it, first looks at the stack again,
\* and seek returns nothing when there is a key.
NextEnds(k, st) ==
    CASE op = "next"  -> Return(k, k)
      [] op = "first" -> Return(keyValue(st), keyValue(st))
      [] op = "seek"  -> Return(IF k # Nil THEN Nil ELSE k, k)

Abort ==
    /\ aborted' = TRUE
    /\ UNCHANGED <<tree, stack, pc, op, arg, ret, reached>>

\* std::lower_bound over the keys of a node.  On a page the elements are
\* copied first and their keys are read relative to the copies: the outcome is
\* arbitrary.
lower_bound(id, k) ==
    LET keys == tree[id].keys
    IN  IF tree[id].node THEN {Cardinality({i \in DOMAIN keys : keys[i] < k})}
                         ELSE 0..Len(keys)

\* searchNode and searchPage: the child that may contain the key.
BranchIndex(id, k) ==
    LET keys == tree[id].keys
        child(i) == IF i < Len(keys) /\ keys[i + 1] = k THEN i ELSE Max({i - 1, 0})
    IN  IF tree[id].node THEN {child(i) : i \in lower_bound(id, k)} ELSE 0..(Len(keys) - 1)

Push(id, index) == stack' = Append(stack, [id |-> id, index |-> index])

-----------------------------------------------------------------------------
(* Seeded faults: each replaces the definition it is named after in one run. *)

NextStep_KeepsStack ==
    /\ ~aborted /\ pc = "next_"
    /\ LET movable == {i \in DOMAIN stack : stack[i].index < count(stack[i]) - 1}
       IN  IF movable = {} THEN NextEnds(Nil, stack) /\ UNCHANGED stack
           ELSE /\ stack' = [stack EXCEPT ![Max(movable)].index = @ + 1]
                /\ Goto("next_first_")

NextLands_RestartsAtLeaf ==
    /\ ~aborted /\ pc = "next_first_"
    /\ isLeaf(Last(stack))
    /\ IF count(Last(stack)) = 0 THEN Goto("next_first_") ELSE NextEnds(keyValue(stack), stack)
    /\ UNCHANGED stack

NextLands_OnEmptyLeaf ==
    /\ ~aborted /\ pc = "next_first_"
    /\ isLeaf(Last(stack))
    /\ NextEnds(keyValue(stack), stack)
    /\ UNCHANGED stack

SearchBranch_NoStepBack ==
    /\ ~aborted /\ pc = "search"
    /\ LET id == IF stack = <<>> THEN Root ELSE Child(Last(stack))
       IN  /\ ~tree[id].leaf
           /\ \E i \in lower_bound(id, arg) : Push(id, IF i < Len(tree[id].keys) THEN i ELSE i - 1)
    /\ Goto("search")

LastLands_Stays ==
    /\ ~aborted /\ pc = "last_"
    /\ isLeaf(Last(stack))
    /\ stack' = [stack EXCEPT ![Len(stack)].index = @ + 2]
    /\ Return(keyValue(stack), keyValue(stack))

-----------------------------------------------------------------------------
(* first, next and their loops.                                            *)

First ==
    /\ Call("first", "first_")
    /\ stack' = <<[id |-> Root, index |-> 0]>>
    /\ UNCHANGED arg

\* One turn of the loop of first_, called from first or from next_.
FirstStep ==
    /\ ~aborted /\ pc \in {"first_", "next_first_"}
    /\ ~isLeaf(Last(stack))
    /\ Push(Child(Last(stack)), 0)
    /\ Goto(pc)

\* first has reached a leaf; from an empty one it moves on.
FirstLands ==
    /\ ~aborted /\ pc = "first_"
    /\ isLeaf(Last(stack))
    /\ IF count(Last(stack)) = 0 THEN Goto("next_") ELSE Return(keyValue(stack), keyValue(stack))
    /\ UNCHANGED stack

\* next asserts that the stack is not empty.
Next_ ==
    /\ stack # <<>>
    /\ Call("next", "next_")
    /\ UNCHANGED <<stack, arg>>

NextAborts ==
    /\ ~aborted /\ pc = "idle"
    /\ stack = <<>>
    /\ Abort

\* One turn of the loop of next_: the deepest ref that is not at its end moves
\* on, and what is below it is dropped.  If there is none the stack stays.
NextStep ==
    /\ ~aborted /\ pc = "next_"
    /\ LET movable == {i \in DOMAIN stack : stack[i].index < count(stack[i]) - 1}
       IN  IF movable = {} THEN NextEnds(Nil, stack) /\ UNCHANGED stack
           ELSE /\ stack' = [SubSeq(stack, 1, Max(movable)) EXCEPT ![Max(movable)].index = @ + 1]
                /\ Goto("next_first_")

\* next_ has reached a leaf; from an empty one it starts over.
NextLands ==
    /\ ~aborted /\ pc = "next_first_"
    /\ isLeaf(Last(stack))
    /\ IF count(Last(stack)) = 0 THEN Goto("next_") ELSE NextEnds(keyValue(stack), stack)
    /\ UNCHANGED stack

-----------------------------------------------------------------------------
(* last and prev.                                                          *)

LastRoot == <<[id |-> Root, index |-> count([id |-> Root]) - 1]>>

Last_ ==
    /\ Call("last", "last_")
    /\ stack' = LastRoot
    /\ UNCHANGED arg

LastStep ==
    /\ ~aborted /\ pc = "last_"
    /\ ~isLeaf(Last(stack))
    /\ LET id == Child(Last(stack)) IN Push(id, count([id |-> id]) - 1)
    /\ Goto("last_")

LastLands ==
    /\ ~aborted /\ pc = "last_"
    /\ isLeaf(Last(stack))
    /\ Return(keyValue(stack), keyValue(stack))
    /\ UNCHANGED stack

\* The refs that can move back decide whether the stack empties; if it does not,
\* prev calls last, which clears it.
Prev ==
    /\ \E i \in DOMAIN stack : stack[i].index > 0
    /\ Call("prev", "last_")
    /\ stack' = LastRoot
    /\ UNCHANGED arg

PrevAtBeginning ==
    /\ ~aborted /\ pc = "idle"
    /\ \A i \in DOMAIN stack : stack[i].index <= 0
    /\ stack' = <<>> /\ op' = "prev" /\ ret' = Nil /\ reached' = Nil
    /\ UNCHANGED <<tree, pc, arg, aborted>>

-----------------------------------------------------------------------------
(* seek.                                                                   *)

Seek(k) ==
    /\ Call("seek", "search")
    /\ stack' = <<>> /\ arg' = k

SearchId == IF stack = <<>> THEN Root ELSE Child(Last(stack))

\* search on a branch, then searchNode or searchPage.
SearchBranch ==
    /\ ~aborted /\ pc = "search"
    /\ ~tree[SearchId].leaf
    /\ \E i \in BranchIndex(SearchId, arg) : Push(SearchId, i)
    /\ Goto("search")

\* search on a leaf and nsearch; past the end of the leaf seek calls next_.
SearchLeaf ==
    /\ ~aborted /\ pc = "search"
    /\ tree[SearchId].leaf
    /\ \E i \in lower_bound(SearchId, arg) :
         /\ Push(SearchId, i)
         /\ IF i >= Len(tree[SearchId].keys) THEN Goto("next_")
            ELSE NextEnds(keyValue(stack'), stack')

-----------------------------------------------------------------------------
(* deleteCurrent, in a writable transaction and on a key that is no bucket. *)

\* node() asserts that the stack has more than nine refs.  If the top one is a
\* page it goes down from the root, through a null Node or a null Page.
DeleteAborts ==
    /\ ~aborted /\ pc = "idle"
    /\ stack # <<>>
    /\ Len(stack) <= 9 \/ ~tree[Last(stack).id].node
    /\ Abort

\* Node::del on the leaf at the top, of the key that keyValue has returned; with
\* no key value() throws.  The refs stay: the cursor is then at the key that
\* followed in the leaf, or where it was if there is none.
Delete ==
    /\ ~aborted /\ pc = "idle"
    /\ Len(stack) > 9 /\ tree[Last(stack).id].node
    /\ keyValue(stack) # Nil
    /\ LET ref  == Last(stack)
           rest == RemoveAt(tree[ref.id].keys, ref.index + 1)
       IN  /\ tree' = [tree EXCEPT ![ref.id].keys = rest]
           /\ reached' = IF reached # Nil /\ ref.index < Len(rest) THEN rest[ref.index + 1] ELSE reached
    /\ UNCHANGED <<stack, pc, op, arg, ret, aborted>>

Step ==
    \/ FirstStep \/ FirstLands \/ NextStep \/ NextLands
    \/ LastStep \/ LastLands \/ SearchBranch \/ SearchLeaf

Next ==
    \/ Step
    \/ First \/ Next_ \/ NextAborts \/ Last_ \/ Prev \/ PrevAtBeginning
    \/ \E k \in SeekKeys : Seek(k)
    \/ DeleteAborts \/ Delete

Spec == Init /\ [][Next]_vars

\* A call that has started keeps running.
FairSpec == Spec /\ WF_vars(Step)

-----------------------------------------------------------------------------
(* Properties.                                                             *)

Returns(name) == pc # "idle" /\ pc' = "idle" /\ op = name

\* The least key from k on, or above k.
From(k) == LET s == {x \in AllKeys : x >= k} IN IF s = {} THEN Nil ELSE Min(s)
Above(k) == LET s == {x \in AllKeys : x > k} IN IF s = {} THEN Nil ELSE Min(s)

\* "ref0 -> ref1 -> ... refJ is in the refJ-1.inodes[refJ-1.index]" (cursor.h:102-104),
\* during every call too, and between calls the top of the stack is a leaf.
StackIsPath ==
    /\ stack # <<>> => stack[1].id = Root
    /\ \A j \in 1..(Len(stack) - 1) : ~isLeaf(stack[j]) /\ stack[j + 1].id = Child(stack[j])
    /\ pc = "idle" /\ stack # <<>> => isLeaf(Last(stack))

\* A scan visits "all key/value pairs in a bucket in sorted order" (cursor.h:15-16):
\* first returns the least key and next the successor of the key the cursor is
\* at, wherever the tree has empty leaves (cursor.cpp:37-41, 190-194).
ScanIsSorted ==
    [][/\ Returns("first") => ret' = From(0)
       /\ Returns("next") => ret' = IF reached = Nil THEN Nil ELSE Above(reached)]_vars

\* On a tree of nodes seek leaves the cursor on the first key that is not below
\* its argument, also when that key is in a later leaf (cursor.cpp:201-314).
SeekPositions ==
    [][Returns("seek") /\ (\A id \in DOMAIN tree : tree[id].node)
         => reached' = From(arg)]_vars

\* Every call returns: next_ gets over any number of empty leaves.
CallsReturn == (pc # "idle") ~> (pc = "idle")
=============================================================================
