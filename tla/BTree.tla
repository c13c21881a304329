-------------------------------- MODULE BTree --------------------------------
(***************************************************************************)
(* The B+ tree of src/BTree.cpp over a pager.  A tree t is a record of     *)
(*                                                                         *)
(*   pager    the pager, which all trees of a file share                   *)
(*   root     root_page_id_                                                *)
(*   log      the bag of the entries that put accepted; no code reads it   *)
(*   threw    whether the last operation left by an exception              *)
(*                                                                         *)
(* A node is a leaf, with entries of [key, seq, txn, tombstone] and a right*)
(* sibling, or internal, with entries of [key, child].  The tree has never *)
(* more than two levels: only a leaf root gets a root above it.            *)
(***************************************************************************)
EXTENDS Pager, BagsExt

CONSTANTS
    MAX_LEAF_ENTRIES,
    MAX_INTERNAL_ENTRIES,
    SPLIT_BYTES,                \* DATA_PAGE_PAYLOAD_SIZE - 64
    DATA_PAGE_PAYLOAD_SIZE,
    Wide,                       \* the transactions that write wide rows
    WIDE_BYTES                  \* the size of those; others have size 1

ASSUME LimitsAssumption ==
    /\ {MAX_LEAF_ENTRIES, MAX_INTERNAL_ENTRIES, DATA_PAGE_PAYLOAD_SIZE, WIDE_BYTES} \subseteq Nat
    /\ MAX_LEAF_ENTRIES >= 1 /\ MAX_INTERNAL_ENTRIES >= 2
    /\ SPLIT_BYTES \in 1..DATA_PAGE_PAYLOAD_SIZE

NullKey == 0    \* less than every other key

Leaf(entries, right) == [leaf |-> TRUE, entries |-> entries, right |-> right]
Internal(entries) == [leaf |-> FALSE, entries |-> entries, right |-> 0]

Node(t, id) == t.pager.page[id]

EntryBytes(e) == IF e.txn \in Wide /\ ~e.tombstone THEN WIDE_BYTES ELSE 1
Bytes(es) == FoldLeft(LAMBDA n, e : n + EntryBytes(e), 0, es)

-----------------------------------------------------------------------------
(* Lookups.                                                                *)

\* Mutant: a key equal to a separator goes to its left.
BugChildFor(es, key) ==
    LET left == {i \in DOMAIN es : \A j \in 1..i : key > es[j].key}
    IN  es[Max(left \cup {1})].child

\* The last entry before the first separator that is greater than key.
ChildFor(es, key) ==
    LET left == {i \in DOMAIN es : \A j \in 1..i : key >= es[j].key}
    IN  es[Max(left \cup {1})].child

findLeaf(t, key) ==
    LET down[id \in DOMAIN t.pager.page] ==
            IF Node(t, id).leaf THEN id ELSE down[ChildFor(Node(t, id).entries, key)]
    IN  down[t.root]

LeftmostLeaf(t) ==
    LET down[id \in DOMAIN t.pager.page] ==
            IF Node(t, id).leaf THEN id ELSE down[Head(Node(t, id).entries).child]
    IN  down[t.root]

\* The leaves that scan and scanAll go through.
LeafChain(t) ==
    LET from[id \in DOMAIN t.pager.page \cup {0}] ==
            IF id = 0 THEN <<>> ELSE <<id>> \o from[Node(t, id).right]
    IN  from[LeftmostLeaf(t)]

scanAll(t) == FlattenSeq([i \in DOMAIN LeafChain(t) |-> Node(t, LeafChain(t)[i]).entries])

\* The first entry of key in a leaf that x sees at sequence s, as a set.
Shown(es, key, x, s) ==
    LET seen == {i \in DOMAIN es : /\ es[i].key = key
                                   /\ IF es[i].seq = 0 THEN es[i].txn = x ELSE es[i].seq <= s}
    IN  IF seen = {} THEN {} ELSE {es[Min(seen)]}

get(t, key, x, s) == Shown(Node(t, findLeaf(t, key)).entries, key, x, s)

-----------------------------------------------------------------------------
(* put.                                                                    *)

\* newPage, which saves an empty node, and the page it returns.
newPage(t, node) == [t EXCEPT !.pager = writePage(allocatePage(@), AllocatedPage(@), node)]
saveNode(t, id, node) == [t EXCEPT !.pager = writePage(@, id, node)]
Throw(t) == [t EXCEPT !.threw = TRUE]

\* e goes before d in a leaf.
Precedes(e, d) ==
    \/ e.key < d.key
    \/ e.key = d.key /\ e.seq > d.seq
    \/ e.key = d.key /\ e.seq = d.seq /\ e.txn < d.txn

Placed(es, e) ==
    InsertAt(es, Min({i \in DOMAIN es : Precedes(e, es[i])} \cup {Len(es) + 1}), e)

Mid(es) == Len(es) \div 2
LeftHalf(es) == SubSeq(es, 1, Mid(es))
RightHalf(es) == SubSeq(es, Mid(es) + 1, Len(es))

\* Mutant: the new leaf does not inherit the sibling.
BugSplitLeaf(t, id, es) ==
    LET right == AllocatedPage(t.pager)
        new == newPage(t, Leaf(<<>>, 0))
        cut == saveNode(new, id, Leaf(LeftHalf(es), right))
    IN  saveNode(cut, right, Leaf(RightHalf(es), 0))

\* The entries es of leaf id in two: the new page first, then the left half, then
\* the right one.  saveNode throws for a half that is larger than a page, and
\* what was written before stays.
splitLeaf(t, id, es) ==
    LET right == AllocatedPage(t.pager)
        new == newPage(t, Leaf(<<>>, 0))
        cut == saveNode(new, id, Leaf(LeftHalf(es), right))
    IN  IF Bytes(LeftHalf(es)) > DATA_PAGE_PAYLOAD_SIZE THEN Throw(new)
        ELSE IF Bytes(RightHalf(es)) > DATA_PAGE_PAYLOAD_SIZE THEN Throw(cut)
        ELSE saveNode(cut, right, Leaf(RightHalf(es), Node(t, id).right))

splitInternal(t, id, es) ==
    saveNode(newPage(t, Internal(RightHalf(es))), id, Internal(LeftHalf(es)))

WithChild(es, key, child) ==
    InsertAt(es, Min({i \in DOMAIN es : \E j \in 1..i : key < es[j].key} \cup {Len(es) + 1}),
             [key |-> key, child |-> child])

\* The parent of a leaf below an internal root is the root.  A full root is split,
\* and then the loop looks for a parent of the root and throws.
insertIntoParent(t, left, key, right) ==
    LET root == Node(t, t.root)
        es == WithChild(root.entries, key, right)
    IN  IF root.leaf
        THEN [newPage(t, Internal(<<[key |-> NullKey, child |-> t.root],
                                    [key |-> key, child |-> right]>>))
              EXCEPT !.root = AllocatedPage(t.pager)]
        ELSE IF \A i \in DOMAIN root.entries : root.entries[i].child # left THEN Throw(t)
        ELSE IF Len(es) <= MAX_INTERNAL_ENTRIES THEN saveNode(t, t.root, Internal(es))
        ELSE Throw(splitInternal(t, t.root, es))

SameVersion(d, e) == d.key = e.key /\ d.seq = e.seq /\ d.txn = e.txn

\* An entry that the leaf has already is dropped.  The entry is in the tree, and in
\* the log, unless splitLeaf throws.
put(t, e) ==
    LET id == findLeaf(t, e.key)
        node == Node(t, id)
        es == Placed(node.entries, e)
        right == AllocatedPage(t.pager)
        split == splitLeaf(t, id, es)
        Logged(u) == [u EXCEPT !.log = BagAdd(@, e)]
    IN  IF \E d \in Range(node.entries) : SameVersion(d, e) THEN t
        ELSE IF Len(es) <= MAX_LEAF_ENTRIES /\ Bytes(es) <= SPLIT_BYTES
        THEN Logged(saveNode(t, id, [node EXCEPT !.entries = es]))
        ELSE IF split.threw THEN split
        ELSE Logged(insertIntoParent(split, id, es[Mid(es) + 1].key, right))

-----------------------------------------------------------------------------
createNew(p) ==
    newPage([pager |-> p, root |-> AllocatedPage(p), log |-> EmptyBag, threw |-> FALSE],
            Leaf(<<>>, 0))

Children(t, id) ==
    IF Node(t, id).leaf THEN <<>>
    ELSE [i \in DOMAIN Node(t, id).entries |-> Node(t, id).entries[i].child]

\* freeAllPages goes through the pages from a stack: the root, then its children
\* from the last to the first.
freeAllPages(t) ==
    FoldLeft(freePage, t.pager, <<t.root>> \o Reverse(Children(t, t.root)))

=============================================================================
