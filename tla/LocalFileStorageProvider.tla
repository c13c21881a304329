---------------------- MODULE LocalFileStorageProvider ----------------------
(***************************************************************************)
(* The file provider of includes/opendb/storage/LocalFileStorageProvider   *)
(* .hpp.  What lives in the file is apart from what lives in memory:       *)
(*                                                                         *)
(*   file     page1, the metadata page, and tree, the B+ tree of each      *)
(*            table; a tree writes its pages through, entry by entry       *)
(*   memory   opened, catalog, auto_id and visible_seq, read from page1 by *)
(*            open and lost when the process dies                          *)
(*                                                                         *)
(* A tree is its leaves, each the set of its entries, and the separators   *)
(* that route a key to one of them; leaf 1 is the first, which was the     *)
(* root before the first split.  Inside a leaf entries go by key           *)
(* ascending, commitSeq descending, txnId ascending (Precedes).  The pages *)
(* and the chain of the leaves are in PagedTables; scan and scanAll meet   *)
(* each leaf once.  by names the transaction that wrote an entry across    *)
(* restarts; the code does not have it, only properties read it.           *)
(***************************************************************************)
EXTENDS OpenDB, Naturals, Sequences, FiniteSetsExt

CONSTANTS
    MaxKey,               \* bound: keys are 1..MaxKey
    MAX_LEAF_ENTRIES,     \* 64 in BTree.cpp
    MAX_INTERNAL_ENTRIES  \* 128 in BTree.cpp; the separators stay below it

ASSUME KeyAssumption == MaxKey \in Nat
ASSUME LeafAssumption == MAX_LEAF_ENTRIES \in Nat \ {0} /\ MAX_INTERNAL_ENTRIES \in Nat

VARIABLES
    page1,         \* the metadata page as it is in the file
    tree,          \* table -> its B+ tree, as it is in the file
    opened,        \* opened_
    catalog,       \* the tables in tables_ and btrees_
    auto_id,       \* tables_[t].autoId
    visible_seq    \* visible_seq_

fileVars == <<page1, tree>>
memoryVars == <<opened, catalog, auto_id, visible_seq>>
providerVars == <<fileVars, memoryVars>>

Key == 1..MaxKey

EmptyTree == [leaves |-> <<{}>>, index |-> <<>>]

InTree(t) == UNION {t.leaves[i] : i \in DOMAIN t.leaves}
Entries(tb) == InTree(tree[tb])

\* What saveMetadata writes and loadMetadata reads; of a table's root page, whether
\* it is still the first leaf or the node of separators above the leaves.
Metadata == [visible_seq |-> visible_seq, catalog |-> catalog, auto_id |-> auto_id,
             rooted |-> {tb \in Table : tree[tb].index # <<>>}]

\* A new file that open has just given its metadata page.
ProviderInit ==
    /\ opened = TRUE
    /\ catalog = {}
    /\ auto_id = [tb \in Table |-> 0]
    /\ visible_seq = 0
    /\ tree = [tb \in Table |-> EmptyTree]
    /\ page1 = Metadata

-----------------------------------------------------------------------------
(* Reading.                                                                *)

\* Which entries get and scan of BTree.cpp show to x.
Visible(x, e) == IF e.seq = 0 THEN e.txn = x ELSE e.seq <= visible_seq

\* e comes before d in a leaf.
Precedes(e, d) ==
    \/ e.key < d.key
    \/ e.key = d.key /\ e.seq > d.seq
    \/ e.key = d.key /\ e.seq = d.seq /\ e.txn < d.txn

\* Mutant: the newest version is looked for from the wrong end.
BugNewest(x, leaf, k) ==
    LET seen == {e \in leaf : e.key = k /\ Visible(x, e)}
    IN  {e \in seen : \A d \in seen \ {e} : Precedes(d, e)}

\* The first visible entry of a key in a leaf, if there is one.
Newest(x, leaf, k) ==
    LET seen == {e \in leaf : e.key = k /\ Visible(x, e)}
    IN  {e \in seen : \A d \in seen \ {e} : Precedes(e, d)}

\* The entries a scan by x emits: it groups the versions of a key leaf by leaf.
\* An unknown table has none.
scan(x, tb) ==
    IF tb \in catalog
    THEN LET leaves == tree[tb].leaves
         IN  {e \in UNION {Newest(x, leaves[i], k) : i \in DOMAIN leaves, k \in Key} : ~e.tombstone}
    ELSE {}

-----------------------------------------------------------------------------
(* Writing.  Every method that changes an entry writes its page at once.   *)

\* How many separators, which are in order, are not above k.
UpTo(index, k) == Cardinality({i \in DOMAIN index : index[i].low <= k})

\* findLeaf: the leaf of the last of them; left of all of them is leaf 1.
Routed(index, k) == IF UpTo(index, k) = 0 THEN 1 ELSE index[UpTo(index, k)].leaf

\* splitLeaf moves the entries from the middle on to a new leaf.
RightHalf(leaf) ==
    {e \in leaf : Cardinality({d \in leaf : Precedes(d, e)}) >= Cardinality(leaf) \div 2}

\* insertIntoParent: behind the separators that are not above the new one.
WithSeparator(index, low, leaf) ==
    SubSeq(index, 1, UpTo(index, low)) \o <<[low |-> low, leaf |-> leaf]>>
        \o SubSeq(index, UpTo(index, low) + 1, Len(index))

\* BTree::put: a second entry with the same key, commitSeq and txnId is dropped
\* without a word, if it is in the leaf that the key is routed to.
Inserted(t, e) ==
    LET i == Routed(t.index, e.key)
        leaf == t.leaves[i] \cup {e}
        right == RightHalf(leaf)
    IN  IF \E d \in t.leaves[i] : d.key = e.key /\ d.seq = e.seq /\ d.txn = e.txn THEN t
        ELSE IF Cardinality(leaf) <= MAX_LEAF_ENTRIES
        THEN [leaves |-> [t.leaves EXCEPT ![i] = leaf], index |-> t.index]
        ELSE [leaves |-> Append([t.leaves EXCEPT ![i] = leaf \ right], right),
              index |-> WithSeparator(t.index, Min({d.key : d \in right}), Len(t.leaves) + 1)]

AddEntry(tb, e) ==
    /\ Len(tree[tb].index) + 1 < MAX_INTERNAL_ENTRIES
    /\ tree' = [tree EXCEPT ![tb] = Inserted(@, e)]

Entry(x, k, dead, by) ==
    [key |-> k, seq |-> 0, txn |-> x, tombstone |-> dead, by |-> by]

put(x, tb, k, by) ==
    /\ AddEntry(tb, Entry(x, k, FALSE, by))
    /\ UNCHANGED <<page1, memoryVars>>

\* put with a null key: the key is the table's next number.
putAuto(x, tb, by) ==
    /\ auto_id[tb] < MaxKey
    /\ auto_id' = [auto_id EXCEPT ![tb] = @ + 1]
    /\ AddEntry(tb, Entry(x, auto_id[tb] + 1, FALSE, by))
    /\ UNCHANGED <<page1, opened, catalog, visible_seq>>

remove(x, tb, k, by) ==
    /\ AddEntry(tb, Entry(x, k, TRUE, by))
    /\ UNCHANGED <<page1, memoryVars>>

saveMetadata ==
    /\ page1' = Metadata
    /\ UNCHANGED <<tree, memoryVars>>

(* commit(txn, seq) is Staged, then one Stamp for each of its entries, then *)
(* saveMetadata, then Advance: four kinds of step, and the process can die  *)
(* between any two of them.                                                 *)

\* What scanAll finds of x in the trees of the catalogue.
Staged(x) == {p \in catalog \X UNION {Entries(tb) : tb \in catalog} :
                 p[2] \in Entries(p[1]) /\ p[2].seq = 0 /\ p[2].txn = x}

\* The staged entry stays; the committed one is put ahead of it.
Stamp(tb, e, seq) ==
    /\ AddEntry(tb, [e EXCEPT !.seq = seq])
    /\ UNCHANGED <<page1, memoryVars>>

Advance(seq) ==
    /\ visible_seq' = Max({visible_seq, seq})
    /\ UNCHANGED <<fileVars, opened, catalog, auto_id>>

-----------------------------------------------------------------------------
(* Tables, open and close.  Each writes the metadata page as its last      *)
(* write, and what it wrote before is reachable only through that page.    *)

createTable(tb) ==
    /\ opened /\ tb \notin catalog
    /\ catalog' = catalog \cup {tb}
    /\ auto_id' = [auto_id EXCEPT ![tb] = 0]
    /\ tree' = [tree EXCEPT ![tb] = EmptyTree]
    /\ UNCHANGED <<opened, visible_seq>>
    /\ page1' = Metadata'

dropTable(tb) ==
    /\ opened /\ tb \in catalog
    /\ catalog' = catalog \ {tb}
    /\ auto_id' = [auto_id EXCEPT ![tb] = 0]
    /\ tree' = [tree EXCEPT ![tb] = EmptyTree]
    /\ UNCHANGED <<opened, visible_seq>>
    /\ page1' = Metadata'

\* alterTable, RenameTable.
renameTable(tb, new) ==
    /\ opened /\ tb \in catalog /\ new \notin catalog
    /\ catalog' = (catalog \ {tb}) \cup {new}
    /\ auto_id' = [auto_id EXCEPT ![new] = auto_id[tb], ![tb] = 0]
    /\ tree' = [tree EXCEPT ![new] = tree[tb], ![tb] = EmptyTree]
    /\ UNCHANGED <<opened, visible_seq>>
    /\ page1' = Metadata'

\* alterTable, AddColumn and DropColumn; backupTo: of what is modelled here
\* they change the metadata page only.
refreshMetadata == opened /\ saveMetadata

\* Mutant: the metadata page is left as the last commit wrote it.
BugClose ==
    /\ opened
    /\ opened' = FALSE
    /\ UNCHANGED <<fileVars, catalog, auto_id, visible_seq>>

close ==
    /\ opened
    /\ opened' = FALSE
    /\ page1' = Metadata
    /\ UNCHANGED <<tree, catalog, auto_id, visible_seq>>

loadMetadata ==
    /\ visible_seq' = page1.visible_seq
    /\ catalog' = page1.catalog
    /\ auto_id' = page1.auto_id

\* open of an existing file, by a new process.  A tree whose first split came after
\* the last saveMetadata is entered at its first leaf: the separators are lost, the
\* other leaves are still behind it in the chain.
open ==
    /\ ~opened
    /\ opened' = TRUE
    /\ loadMetadata
    /\ tree' = [tb \in Table |->
                  IF tb \in page1.rooted THEN tree[tb] ELSE [tree[tb] EXCEPT !.index = <<>>]]
    /\ UNCHANGED page1

=============================================================================
