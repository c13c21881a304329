--------------------------- MODULE EngineLoopProofs ---------------------------
(***************************************************************************)
(* What the file shows to the process that wrote it and to the one that    *)
(* opens it next, after a close or a kill between two writes, for any      *)
(* tables, keys, leaf capacity and number of commands.                     *)
(*                                                                         *)
(* The first process only adds entries that are staged or stamped beyond   *)
(* what visible_seq and page1 let a reader see, so what they show changes  *)
(* in one step: Advance for this process, the metadata page for the next.  *)
(* Both steps find every entry of the command stamped.                     *)
(*                                                                         *)
(* The argument is about the entries of a tree, Contents, whatever leaves  *)
(* they are in; Shape and InsertedIsTree say that a put adds its entry to  *)
(* them, and ViewOfRows what a scan, which goes leaf by leaf, makes of     *)
(* them: the newest version of each row, and versions before it where a    *)
(* split has cut a key.                                                    *)
(***************************************************************************)
EXTENDS EngineLoop, FiniteSetTheorems, SequenceTheorems, TLAPS

-----------------------------------------------------------------------------
(* The inductive invariant.                                                *)

\* What the invariant says of the trees it says of the entries in them.
Contents == [tb \in Table |-> Entries(tb)]

Stored == [key : Key, seq : Nat, txn : Nat \ {0}, tombstone : BOOLEAN, by : Nat \X Nat]

\* What a tree shows to readers that have reached sequence v.
Shown(T, v, e) ==
    /\ e.seq > 0 /\ e.seq <= v /\ ~e.tombstone
    /\ \A d \in T : d.key = e.key /\ d.seq <= v => d.seq <= e.seq
RowsAt(T, v) == {Row(e.key, e.by) : e \in {d \in T : Shown(T, v, d)}}

ShowsAt(v, tbs, rows) == \A tb \in tbs : RowsAt(Contents[tb], v) = rows[tb]
FileShows(rows) == ShowsAt(page1.visible_seq, page1.catalog, rows)

\* No two versions of a row are stamped alike.
OneEach(T) == \A e, d \in T : e.key = d.key /\ e.seq = d.seq /\ e.seq > 0 => e = d

Trees == Contents \in [Table -> SUBSET Stored] /\ \A tb \in Table : OneEach(Contents[tb])

\* The separators of a tree name leaves of it.
IsTree(t) ==
    /\ t = [leaves |-> t.leaves, index |-> t.index]
    /\ t.leaves \in Seq(SUBSET InTree(t)) /\ Len(t.leaves) > 0
    /\ t.index \in Seq({t.index[i] : i \in DOMAIN t.index})
    /\ \A i \in DOMAIN t.index : t.index[i].leaf \in 1..Len(t.leaves)

Shape == tree = [tb \in Table |-> tree[tb]] /\ \A tb \in Table : IsTree(tree[tb])

LoopTypes ==
    /\ life \in Nat \ {0} /\ next_id \in Nat /\ commit_seq \in Nat
    /\ ~opened => cmd.at = "idle"

FileInv ==
    /\ Trees
    /\ page1.catalog \subseteq Table /\ page1.visible_seq \in Nat
    /\ FileShows(ref) \/ FileShows(prev)
    /\ cmd.at = "advance" \/ (~opened /\ ended = "closed") => FileShows(ref)

MemoryInv ==
    /\ catalog \subseteq Table /\ visible_seq \in Nat /\ auto_id \in [Table -> Nat]
    /\ page1.catalog = catalog /\ page1.visible_seq <= visible_seq
    /\ ref = [tb \in Table |-> ref[tb]]
    /\ ShowsAt(visible_seq, catalog, ref)
    /\ \A tb \in Table \ catalog : ref[tb] = {}

Busy == cmd.at \in {"write", "stamp", "advance"}
Committing == cmd.at \in {"stamp", "advance"}

\* An entry that is the command's.
Own(e) == e.txn = cmd.txn
Proper(tb, e) ==
    /\ tb = cmd.table /\ e.key \in cmd.keys
    /\ e.by = cmd.by /\ (e.tombstone <=> cmd.op = "delete")

IsCommand(c) ==
    c = [at |-> c.at, op |-> c.op, table |-> c.table, txn |-> c.txn,
         todo |-> c.todo, keys |-> c.keys, seq |-> c.seq, by |-> c.by]

\* Only the command that is committing has entries beyond visible_seq.
Numbered ==
    /\ \A tb \in Table : \A e \in Contents[tb] :
          e.txn <= next_id /\ (e.seq > visible_seq => Committing /\ Own(e))
    /\ commit_seq = IF Committing THEN visible_seq + 1 ELSE visible_seq
    /\ Committing => cmd.seq = commit_seq

Running ==
    /\ IsCommand(cmd)
    /\ cmd.txn = next_id /\ next_id \in 1..MaxTxn
    /\ cmd.table \in Table /\ cmd.keys \subseteq Key /\ cmd.by \in Nat \X Nat
    /\ cmd.op \in {"select", "insert", "update", "delete"}
    /\ cmd.op = "select" => cmd.keys = {}
    /\ cmd.keys # {} => cmd.table \in catalog
    /\ \A tb \in Table : \A e \in Contents[tb] : Own(e) => Proper(tb, e)

\* What is not left to write has been written.
Writing ==
    /\ states[cmd.txn] = "Active"
    /\ cmd.todo \subseteq cmd.keys
    /\ \A e \in Contents[cmd.table] : Own(e) => e.seq = 0 /\ e.key \notin cmd.todo
    /\ \A k \in cmd.keys \ cmd.todo : \E e \in Contents[cmd.table] : Own(e) /\ e.key = k

\* What is not left to stamp has been stamped.
ToStamp(e) == cmd.at = "stamp" /\ e.seq = 0 /\ <<cmd.table, e>> \in cmd.todo
Stamping ==
    /\ \A e \in Contents[cmd.table] : Own(e) => e.seq \in {0, cmd.seq}
    /\ \A k \in cmd.keys :
          \E e \in Contents[cmd.table] : Own(e) /\ e.key = k /\ (e.seq = cmd.seq \/ ToStamp(e))
    /\ cmd.at = "stamp" =>
          \A p \in cmd.todo : /\ p = <<p[1], p[2]>> /\ p[1] \in Table
                              /\ p[2] \in Contents[p[1]] /\ Own(p[2]) /\ p[2].seq = 0

CmdInv ==
    /\ states \in [Txn -> TxnState]
    /\ cmd = Idle \/ Busy
    /\ Numbered
    /\ Busy => Running
    /\ cmd.at = "write" => Writing
    /\ Committing => Stamping

\* The next process, before its first call.
NextLife ==
    /\ cmd.at = "idle"
    /\ visible_seq = page1.visible_seq /\ catalog = page1.catalog
    /\ visible_seq \in Nat /\ catalog \subseteq Table
    /\ Trees
    /\ ShowsAt(visible_seq, catalog, ref) \/ ShowsAt(visible_seq, catalog, prev)
    /\ ended = "closed" => ShowsAt(visible_seq, catalog, ref)

LoopInv ==
    /\ LoopTypes
    /\ life = 1 => FileInv /\ (opened => MemoryInv /\ CmdInv)
    /\ life = 2 /\ Untouched => NextLife

-----------------------------------------------------------------------------
(* A tree holds what was put into it, whatever leaf a key is routed to.    *)

LEMMA UpToRange ==
    ASSUME NEW S, NEW index \in Seq(S), NEW k
    PROVE  UpTo(index, k) \in 0..Len(index)
<1> DEFINE U == {i \in DOMAIN index : index[i].low <= k}
<1>1. U \subseteq 1..Len(index) /\ Len(index) \in Nat
  OBVIOUS
<1>2. \A m \in Nat : IsFiniteSet(1..m) /\ Cardinality(1..m) = m
  <2>1. ASSUME NEW m \in Nat
        PROVE  IsFiniteSet(1..m) /\ Cardinality(1..m) = IF 1 > m THEN 0 ELSE m - 1 + 1
    BY FS_Interval
  <2>2. QED BY <2>1
<1>3. Cardinality(U) \in Nat /\ Cardinality(U) <= Len(index)
  BY <1>1, <1>2, FS_Subset, FS_CardinalityType
<1>4. QED BY <1>1, <1>3 DEF UpTo

LEMMA SeparatorAdded ==
    ASSUME NEW S, NEW index \in Seq(S), NEW low, NEW leaf
    PROVE  LET sep == [low |-> low, leaf |-> leaf]
               new == WithSeparator(index, low, leaf)
           IN  /\ new \in Seq(S \cup {sep})
               /\ \A i \in DOMAIN new : new[i] = sep \/ \E j \in DOMAIN index : new[i] = index[j]
<1> DEFINE sep == [low |-> low, leaf |-> leaf]
           u == UpTo(index, low)
           R == {index[j] : j \in DOMAIN index}
<1>1. u \in 0..Len(index) /\ Len(index) \in Nat
  BY UpToRange
<1>2. index \in Seq(R) /\ index \in Seq(S \cup {sep})
  OBVIOUS
<1> HIDE DEF u, sep, R
<1>3. SubSeq(index, 1, u) \in Seq(R) /\ SubSeq(index, u + 1, Len(index)) \in Seq(R)
  BY <1>1, <1>2
<1>4. SubSeq(index, 1, u) \in Seq(R \cup {sep}) /\ SubSeq(index, u + 1, Len(index)) \in Seq(R \cup {sep})
  BY <1>3
<1>5. WithSeparator(index, low, leaf) \in Seq(R \cup {sep})
  BY <1>4 DEF WithSeparator, u, sep
<1>6. R \subseteq S
  BY DEF R
<1>7. WithSeparator(index, low, leaf) \in Seq(S \cup {sep})
  BY <1>5, <1>6
<1>8. \A i \in DOMAIN WithSeparator(index, low, leaf) : WithSeparator(index, low, leaf)[i] \in R \cup {sep}
  BY <1>5
<1>9. QED BY <1>7, <1>8 DEF R, sep

LEMMA AppendLast ==
    ASSUME NEW S, NEW a \in Seq(S), NEW x \in S, NEW c, c = Append(a, x)
    PROVE  /\ c \in Seq(S) /\ Len(c) = Len(a) + 1 /\ DOMAIN c = 1..(Len(a) + 1)
           /\ \A j \in 1..Len(a) : c[j] = a[j]
           /\ c[Len(a) + 1] = x
OBVIOUS

\* A leaf replaced by one with more, or by its two halves, the second one last.
LEMMA LeafReplaced ==
    ASSUME NEW Y, NEW L \in Seq(SUBSET Y), Y = UNION {L[i] : i \in DOMAIN L},
           NEW n \in 1..Len(L), NEW e, NEW right \in SUBSET (L[n] \cup {e}),
           NEW kept, kept = [L EXCEPT ![n] = L[n] \cup {e}],
           NEW less, less = [L EXCEPT ![n] = (L[n] \cup {e}) \ right],
           NEW cut, Len(cut) = Len(L) + 1, DOMAIN cut = 1..(Len(L) + 1),
           \A j \in 1..Len(L) : cut[j] = less[j], cut[Len(L) + 1] = right
    PROVE  /\ UNION {kept[i] : i \in DOMAIN kept} = Y \cup {e}
           /\ kept \in Seq(SUBSET (Y \cup {e})) /\ Len(kept) = Len(L)
           /\ UNION {cut[i] : i \in DOMAIN cut} = Y \cup {e}
           /\ less \in Seq(SUBSET (Y \cup {e}))
<1> DEFINE X == Y \cup {e}
           leaf == L[n] \cup {e}
<1>1. /\ Len(L) \in Nat /\ DOMAIN L = 1..Len(L) /\ L \in Seq(SUBSET X) /\ leaf \in SUBSET X
      /\ right \in SUBSET leaf
  OBVIOUS
<1>2. kept \in Seq(SUBSET X) /\ Len(kept) = Len(L) /\ DOMAIN kept = 1..Len(L)
  BY <1>1
<1>3. UNION {kept[i] : i \in DOMAIN kept} = X
  BY <1>1, <1>2
<1>4. less \in Seq(SUBSET X) /\ Len(less) = Len(L) /\ DOMAIN less = 1..Len(L)
  BY <1>1
<1>5. /\ DOMAIN cut = 1..(Len(L) + 1) /\ cut[Len(L) + 1] = right
      /\ \A j \in 1..Len(L) : cut[j] = less[j] /\ cut[j] \subseteq X
  BY <1>1, <1>4
<1>6. UNION {cut[i] : i \in DOMAIN cut} = X
  <2>1. \A d \in X : \E j \in DOMAIN cut : d \in cut[j]
    <3>1. ASSUME NEW j \in 1..Len(L), NEW d \in L[j]
          PROVE  \E m \in DOMAIN cut : d \in cut[m]
      <4>1. CASE d \in right
        BY <1>1, <1>5, <4>1
      <4>2. CASE d \notin right
        <5>1. d \in less[j] /\ cut[j] = less[j] /\ j \in DOMAIN cut
          <6>1. CASE j = n
            BY <1>1, <1>5, <3>1, <4>2, <6>1
          <6>2. CASE j # n
            BY <1>1, <1>5, <3>1, <4>2, <6>2
          <6>3. QED BY <6>1, <6>2
        <5>2. QED BY <5>1
      <4>3. QED BY <4>1, <4>2
    <3>2. \E m \in DOMAIN cut : e \in cut[m]
      <4>1. CASE e \in right
        BY <1>1, <1>5, <4>1
      <4>2. CASE e \notin right
        <5>1. e \in less[n] /\ cut[n] = less[n] /\ n \in DOMAIN cut
          BY <1>1, <1>5, <4>2
        <5>2. QED BY <5>1
      <4>3. QED BY <4>1, <4>2
    <3>3. QED BY <1>1, <3>1, <3>2
  <2>2. \A j \in DOMAIN cut : cut[j] \subseteq X
    BY <1>1, <1>5
  <2> HIDE DEF X
  <2>3. QED BY <2>1, <2>2
<1>7. QED BY <1>2, <1>3, <1>4, <1>6

\* Without regard to splits, an entry is added or was there.
LEMMA InsertedIsTree ==
    ASSUME NEW t, IsTree(t), NEW e
    PROVE  /\ IsTree(Inserted(t, e))
           /\ \/ InTree(Inserted(t, e)) = InTree(t) \cup {e}
              \/ /\ InTree(Inserted(t, e)) = InTree(t)
                 /\ \E d \in InTree(t) : d.key = e.key /\ d.seq = e.seq /\ d.txn = e.txn
<1>l. PICK L : L = t.leaves
  OBVIOUS
<1>x. PICK I : I = t.index
  OBVIOUS
<1>i. PICK i : i = Routed(I, e.key)
  OBVIOUS
<1>r. PICK right : right = RightHalf(L[i] \cup {e})
  OBVIOUS
<1>w. PICK low : low = Min({d.key : d \in right})
  OBVIOUS
<1>1. /\ L \in Seq(SUBSET UNION {L[m] : m \in DOMAIN L}) /\ Len(L) > 0 /\ Len(L) \in Nat
      /\ I \in Seq({I[m] : m \in DOMAIN I}) /\ \A m \in DOMAIN I : I[m].leaf \in 1..Len(L)
      /\ InTree(t) = UNION {L[m] : m \in DOMAIN L} /\ t = [leaves |-> L, index |-> I]
  BY <1>l, <1>x DEF IsTree, InTree
<1>2. i \in 1..Len(L)
  <2>1. UpTo(I, e.key) \in 0..Len(I) /\ DOMAIN I = 1..Len(I)
    BY <1>1, UpToRange
  <2>2. QED BY <1>i, <1>1, <2>1 DEF Routed
<1>d. PICK dup \in BOOLEAN : dup = \E d \in L[i] : d.key = e.key /\ d.seq = e.seq /\ d.txn = e.txn
  OBVIOUS
<1>3. CASE dup
  <2>1. Inserted(t, e) = t
    BY <1>l, <1>x, <1>i, <1>d, <1>3 DEF Inserted
  <2>2. L[i] \subseteq InTree(t)
    BY <1>1, <1>2
  <2>3. QED BY <1>d, <1>3, <2>1, <2>2
<1> DEFINE kept == [L EXCEPT ![i] = L[i] \cup {e}]
           less == [L EXCEPT ![i] = (L[i] \cup {e}) \ right]
           cut == Append(less, right)
           new == WithSeparator(I, low, Len(L) + 1)
           sep == [low |-> low, leaf |-> Len(L) + 1]
<1>4. /\ UNION {kept[m] : m \in DOMAIN kept} = InTree(t) \cup {e}
      /\ kept \in Seq(SUBSET UNION {kept[m] : m \in DOMAIN kept}) /\ Len(kept) = Len(L)
      /\ UNION {cut[m] : m \in DOMAIN cut} = InTree(t) \cup {e}
      /\ cut \in Seq(SUBSET UNION {cut[m] : m \in DOMAIN cut}) /\ Len(cut) = Len(L) + 1
  <2>1. right \in SUBSET (L[i] \cup {e})
    BY <1>r DEF RightHalf
  <2>2. PICK X : X = UNION {L[m] : m \in DOMAIN L} /\ L \in Seq(SUBSET X)
    BY <1>1
  <2>3. less \in Seq(SUBSET (X \cup {e})) /\ Len(less) = Len(L) /\ right \in SUBSET (X \cup {e})
    BY <1>2, <2>1, <2>2
  <2>4. /\ kept = [L EXCEPT ![i] = L[i] \cup {e}]
        /\ less = [L EXCEPT ![i] = (L[i] \cup {e}) \ right]
    OBVIOUS
  <2> HIDE DEF kept, less
  <2>5. /\ cut \in Seq(SUBSET (X \cup {e})) /\ Len(cut) = Len(L) + 1
        /\ DOMAIN cut = 1..(Len(L) + 1)
        /\ \A j \in 1..Len(L) : cut[j] = less[j]
        /\ cut[Len(L) + 1] = right
    BY <2>3, AppendLast
  <2> HIDE DEF cut
  <2>6. /\ UNION {kept[m] : m \in DOMAIN kept} = X \cup {e}
        /\ kept \in Seq(SUBSET (X \cup {e})) /\ Len(kept) = Len(L)
        /\ UNION {cut[m] : m \in DOMAIN cut} = X \cup {e}
    BY <1>2, <2>1, <2>2, <2>4, <2>5, LeafReplaced
  <2>7. QED BY <1>1, <2>2, <2>5, <2>6
<1>5. Inserted(t, e) = IF dup THEN t
                       ELSE IF Cardinality(L[i] \cup {e}) <= MAX_LEAF_ENTRIES
                            THEN [leaves |-> kept, index |-> I]
                            ELSE [leaves |-> cut, index |-> new]
  BY <1>l, <1>x, <1>i, <1>r, <1>w, <1>d DEF Inserted
<1>6. /\ new \in Seq({new[m] : m \in DOMAIN new})
      /\ \A m \in DOMAIN new : new[m].leaf \in 1..(Len(L) + 1)
  <2>1. PICK S : S = {I[m] : m \in DOMAIN I}
    OBVIOUS
  <2>2. I \in Seq(S)
    BY <1>1, <2>1
  <2>3. /\ new \in Seq(S \cup {sep})
        /\ \A m \in DOMAIN new : new[m] = sep \/ \E j \in DOMAIN I : new[m] = I[j]
    BY <2>2, SeparatorAdded
  <2> HIDE DEF new
  <2>4. new \in Seq({new[m] : m \in DOMAIN new})
    BY <2>3
  <2>5. \A m \in DOMAIN new : new[m].leaf \in 1..(Len(L) + 1)
    BY <1>1, <2>3
  <2>6. QED BY <2>4, <2>5
<1> HIDE DEF kept, less, cut, new
<1>7. CASE Inserted(t, e) = [leaves |-> kept, index |-> I]
  <2>1. Inserted(t, e).leaves = kept /\ Inserted(t, e).index = I
    BY <1>7
  <2>2. InTree(Inserted(t, e)) = UNION {kept[m] : m \in DOMAIN kept}
    BY <2>1 DEF InTree
  <2>3. QED BY <1>1, <1>4, <1>7, <2>1, <2>2 DEF IsTree
<1>8. CASE Inserted(t, e) = [leaves |-> cut, index |-> new]
  <2>1. Inserted(t, e).leaves = cut /\ Inserted(t, e).index = new
    BY <1>8
  <2>2. InTree(Inserted(t, e)) = UNION {cut[m] : m \in DOMAIN cut}
    BY <2>1 DEF InTree
  <2>3. Len(cut) > 0
    BY <1>1, <1>4
  <2>4. IsTree(Inserted(t, e))
    BY <1>4, <1>6, <1>8, <2>1, <2>2, <2>3 DEF IsTree
  <2>5. QED BY <1>4, <2>2, <2>4
<1>9. QED BY <1>3, <1>5, <1>7, <1>8

-----------------------------------------------------------------------------
(* What a tree shows.                                                      *)

LEMMA StoredFields ==
    ASSUME NEW e \in Stored
    PROVE  /\ e.key \in Key /\ e.seq \in Nat /\ e.txn \in Nat /\ e.txn # 0
           /\ e.tombstone \in BOOLEAN /\ e.by \in Nat \X Nat
BY DEF Stored

\* A reader that has staged nothing gets the rows of its sequence, the newest
\* version of a row from whichever leaf it is in; an older one only from a leaf
\* that has committed versions of its key when another leaf has them too.
LEMMA ViewOfRows ==
    ASSUME Trees, Shape, visible_seq \in Nat, NEW tb \in Table, tb \in catalog
    PROVE  /\ RowsAt(Contents[tb], visible_seq) \subseteq View(tb)
           /\ \A r \in View(tb) \ RowsAt(Contents[tb], visible_seq) : Cut(tb, r.key)
<1>t. PICK T \in SUBSET Stored : T = Contents[tb] /\ OneEach(T)
  BY DEF Trees
<1>v. PICK v \in Nat : v = visible_seq
  OBVIOUS
<1>l. PICK L : L = tree[tb].leaves
  OBVIOUS
<1>0. T = UNION {L[i] : i \in DOMAIN L}
  BY <1>t, <1>l DEF Contents, Entries, InTree
<1>1. \A e \in T : e.key \in Key /\ e.seq \in Nat /\ e.txn \in Nat /\ e.txn # 0
  BY StoredFields
<1>2. \A e \in T : Visible(0, e) <=> e.seq > 0 /\ e.seq <= v
  BY <1>1, <1>v DEF Visible
<1>3. ASSUME NEW e \in T, NEW d \in T, e.key = d.key, e # d, e.seq > 0
      PROVE  Precedes(e, d) <=> d.seq < e.seq
  <2>1. e.key \in Nat /\ d.key \in Nat /\ e.seq \in Nat /\ d.seq \in Nat
    BY <1>1, KeyAssumption DEF Key
  <2>2. e.seq # d.seq
    BY <1>3, <1>t DEF OneEach
  <2>3. QED BY <1>3, <2>1, <2>2 DEF Precedes
<1>4. ASSUME NEW e
      PROVE  e \in scan(0, tb) <=>
                ~e.tombstone /\ \E i \in DOMAIN L : \E k \in Key : e \in Newest(0, L[i], k)
  BY <1>l DEF scan
<1>5. ASSUME NEW e \in T, Shown(T, v, e)
      PROVE  e \in scan(0, tb)
  <2>1. PICK i \in DOMAIN L : e \in L[i]
    BY <1>0
  <2>2. ASSUME NEW d \in L[i], d.key = e.key, Visible(0, d), d # e
        PROVE  Precedes(e, d)
    <3>1. d \in T /\ d.seq <= e.seq /\ d.seq \in Nat /\ e.seq \in Nat /\ e.seq > 0
      BY <1>0, <1>1, <1>2, <1>5, <2>2 DEF Shown
    <3>2. d.seq # e.seq
      BY <1>t, <2>2, <3>1 DEF OneEach
    <3>3. QED BY <1>3, <2>2, <3>1, <3>2
  <2>3. e \in Newest(0, L[i], e.key)
    BY <1>2, <1>5, <2>1, <2>2 DEF Newest, Shown
  <2>4. QED BY <1>1, <1>4, <1>5, <2>3 DEF Shown
<1>6. ASSUME NEW e \in scan(0, tb), ~Cut(tb, e.key)
      PROVE  e \in T /\ Shown(T, v, e)
  <2>1. PICK i \in DOMAIN L, k \in Key : e \in Newest(0, L[i], k)
    BY <1>4
  <2>2. /\ e \in L[i] /\ e.key = k /\ Visible(0, e)
        /\ \A d \in L[i] : d.key = k /\ Visible(0, d) /\ d # e => Precedes(e, d)
    BY <2>1 DEF Newest
  <2>3. e \in T /\ ~e.tombstone /\ e.seq > 0 /\ e.seq <= v /\ e.seq \in Nat
    BY <1>0, <1>1, <1>2, <1>4, <2>2
  <2>4. ASSUME NEW d \in T, d.key = e.key, d.seq <= v
        PROVE  d.seq <= e.seq
    <3>1. CASE d.seq = 0
      BY <2>3, <3>1
    <3>2. CASE d.seq # 0
      <4>1. PICK j \in DOMAIN L : d \in L[j]
        BY <1>0
      <4>2. i = j
        BY <1>l, <1>6, <2>2, <2>3, <2>4, <3>2, <4>1 DEF Cut
      <4>3. Visible(0, d) /\ d.seq \in Nat
        BY <1>1, <1>2, <2>4, <3>2
      <4>4. CASE d # e
        <5>1. Precedes(e, d)
          BY <2>2, <2>4, <4>1, <4>2, <4>3, <4>4
        <5>2. d.seq < e.seq
          BY <1>3, <2>3, <2>4, <4>4, <5>1
        <5>3. QED BY <2>3, <4>3, <5>2
      <4>5. QED BY <2>3, <4>4
    <3>3. QED BY <3>1, <3>2
  <2>5. QED BY <2>3, <2>4 DEF Shown
<1>7. RowsAt(T, v) \subseteq View(tb)
  BY <1>5 DEF RowsAt, View
<1>8. ASSUME NEW r \in View(tb), ~Cut(tb, r.key)
      PROVE  r \in RowsAt(T, v)
  <2>1. PICK e \in scan(0, tb) : r = Row(e.key, e.by)
    BY DEF View
  <2>2. r.key = e.key
    BY <2>1 DEF Row
  <2>3. QED BY <1>6, <1>8, <2>1, <2>2 DEF RowsAt
<1>9. QED BY <1>t, <1>v, <1>7, <1>8

\* An entry that is staged or stamped later is not seen.
LEMMA LaterEntry ==
    ASSUME NEW T \in SUBSET Stored, NEW n \in Stored, NEW v \in Nat, n.seq = 0 \/ n.seq > v
    PROVE  RowsAt(T \cup {n}, v) = RowsAt(T, v)
<1>1. n.seq \in Nat /\ \A e \in T : e.seq \in Nat
  BY StoredFields
<1>2. \A e \in T : Shown(T \cup {n}, v, e) <=> Shown(T, v, e)
  BY <1>1 DEF Shown
<1>3. ~Shown(T \cup {n}, v, n)
  BY <1>1 DEF Shown
<1>4. {d \in T \cup {n} : Shown(T \cup {n}, v, d)} = {d \in T : Shown(T, v, d)}
  BY <1>2, <1>3
<1>5. QED BY <1>4 DEF RowsAt

\* What a reader gains from the next sequence.
Gains(rows, K, by, op) ==
    {r \in rows : r.key \notin K} \cup (IF op = "delete" THEN {} ELSE {Row(k, by) : k \in K})

LEMMA NextSequence ==
    ASSUME NEW T \in SUBSET Stored, NEW v \in Nat, NEW K, NEW by, NEW op,
           \A e \in T : e.seq > v => /\ e.seq = v + 1 /\ e.key \in K /\ e.by = by
                                     /\ (e.tombstone <=> op = "delete"),
           \A k \in K : \E e \in T : e.key = k /\ e.seq = v + 1
    PROVE  RowsAt(T, v + 1) = Gains(RowsAt(T, v), K, by, op)
<1>0. \A e \in T : e.seq \in Nat
  BY StoredFields
<1>1. \A k, b : Row(k, b).key = k
  BY DEF Row
<1>2. ASSUME NEW e \in T, e.seq > v
      PROVE  Shown(T, v + 1, e) <=> op # "delete"
  BY <1>0, <1>2 DEF Shown
<1>3. ASSUME NEW e \in T, ~(e.seq > v)
      PROVE  Shown(T, v + 1, e) <=> Shown(T, v, e) /\ e.key \notin K
  <2>1. CASE e.key \in K
    BY <1>0, <1>3, <2>1 DEF Shown
  <2>2. CASE e.key \notin K
    <3>1. \A d \in T : d.key = e.key => d.seq <= v
      BY <1>0, <2>2
    <3>2. QED BY <1>0, <1>3, <2>2, <3>1 DEF Shown
  <2>3. QED BY <2>1, <2>2
<1>4. ASSUME NEW e \in T, e.seq > v
      PROVE  ~Shown(T, v, e)
  BY <1>0, <1>4 DEF Shown
<1>5. ASSUME NEW r
      PROVE  r \in RowsAt(T, v + 1) <=>
                \/ r \in RowsAt(T, v) /\ r.key \notin K
                \/ op # "delete" /\ \E k \in K : r = Row(k, by)
  <2>1. ASSUME r \in RowsAt(T, v + 1)
        PROVE  \/ r \in RowsAt(T, v) /\ r.key \notin K
               \/ op # "delete" /\ \E k \in K : r = Row(k, by)
    <3>1. PICK e \in T : Shown(T, v + 1, e) /\ r = Row(e.key, e.by)
      BY <2>1 DEF RowsAt
    <3>2. CASE e.seq > v
      BY <1>2, <3>1, <3>2
    <3>3. CASE ~(e.seq > v)
      BY <1>1, <1>3, <3>1, <3>3 DEF RowsAt
    <3>4. QED BY <3>2, <3>3
  <2>2. ASSUME r \in RowsAt(T, v), r.key \notin K
        PROVE  r \in RowsAt(T, v + 1)
    <3>1. PICK e \in T : Shown(T, v, e) /\ r = Row(e.key, e.by)
      BY <2>2 DEF RowsAt
    <3>2. ~(e.seq > v) /\ e.key \notin K
      BY <1>1, <1>4, <2>2, <3>1
    <3>3. QED BY <1>3, <3>1, <3>2 DEF RowsAt
  <2>3. ASSUME op # "delete", NEW k \in K, r = Row(k, by)
        PROVE  r \in RowsAt(T, v + 1)
    <3>1. PICK e \in T : e.key = k /\ e.seq = v + 1
      OBVIOUS
    <3>2. e.seq > v
      BY <3>1
    <3>3. Shown(T, v + 1, e) /\ e.by = by
      BY <1>2, <2>3, <3>2
    <3>4. QED BY <2>3, <3>1, <3>3 DEF RowsAt
  <2>4. QED BY <2>1, <2>2, <2>3
<1>6. QED BY <1>5 DEF Gains

-----------------------------------------------------------------------------
(* The steps.                                                              *)

\* One more entry, beyond what readers of sequence v see.
LEMMA EntryAdded ==
    ASSUME Trees, Shape, NEW tb \in Table, NEW n \in Stored, AddEntry(tb, n), NEW v \in Nat,
           n.seq = 0 \/ n.seq > v,
           \A d \in Contents[tb] :
              d.key = n.key /\ d.seq = n.seq /\ (d.txn = n.txn \/ n.seq > 0) => d = n
    PROVE  /\ Trees'
           /\ \A c \in Table : \A w \in Nat : w <= v => RowsAt(Contents'[c], w) = RowsAt(Contents[c], w)
           /\ \A c \in Table : Contents[c] \subseteq Contents'[c]
           /\ \A c \in Table : \A e \in Contents'[c] : e \in Contents[c] \/ (c = tb /\ e = n)
           /\ \E e \in Contents'[tb] : e.key = n.key /\ e.seq = n.seq /\ e.txn = n.txn
<1>t. PICK T \in SUBSET Stored : T = Contents[tb] /\ OneEach(T)
  BY DEF Trees
<1>n. n.seq \in Nat
  BY StoredFields
<1>1. /\ Contents'[tb] = InTree(Inserted(tree[tb], n)) /\ Contents[tb] = InTree(tree[tb])
      /\ \A c \in Table \ {tb} : Contents'[c] = Contents[c]
      /\ Contents' = [c \in Table |-> Contents'[c]]
  <2>1. tree'[tb] = Inserted(tree[tb], n) /\ \A c \in Table \ {tb} : tree'[c] = tree[c]
    BY DEF AddEntry, Shape
  <2>2. QED BY <2>1 DEF Contents, Entries
<1>2. Contents'[tb] = T \cup {n}
  <2>1. IsTree(tree[tb])
    BY DEF Shape
  <2>2. CASE InTree(Inserted(tree[tb], n)) = InTree(tree[tb]) \cup {n}
    BY <1>t, <1>1, <2>2
  <2>3. CASE /\ InTree(Inserted(tree[tb], n)) = InTree(tree[tb])
             /\ \E d \in InTree(tree[tb]) : d.key = n.key /\ d.seq = n.seq /\ d.txn = n.txn
    <3>1. n \in T
      BY <1>t, <1>1, <2>3
    <3>2. QED BY <1>t, <1>1, <2>3, <3>1
  <2>4. QED BY <2>1, <2>2, <2>3, InsertedIsTree
<1>3. OneEach(T \cup {n})
  BY <1>t DEF OneEach
<1>4. Trees'
  <2>1. \A c \in Table : Contents'[c] \in SUBSET Stored /\ OneEach(Contents'[c])
    BY <1>t, <1>1, <1>2, <1>3 DEF Trees
  <2>2. QED BY <1>1, <2>1 DEF Trees
<1>5. ASSUME NEW w \in Nat, w <= v
      PROVE  RowsAt(T \cup {n}, w) = RowsAt(T, w)
  <2>1. n.seq = 0 \/ n.seq > w
    BY <1>n, <1>5
  <2>2. QED BY <2>1, LaterEntry
<1>6. QED BY <1>t, <1>1, <1>2, <1>4, <1>5

LEMMA StepInLife ==
    ASSUME LoopInv, LoopTypes', life' = life, ~(life = 2 /\ Untouched'),
           life = 1 => FileInv' /\ (opened' => MemoryInv' /\ CmdInv')
    PROVE  LoopInv'
BY DEF LoopInv

\* A step of a command: the process is open, and not before its first call.
LEMMA CommandUnderWay ==
    ASSUME LoopInv, cmd.at # "idle"
    PROVE  opened /\ ~(life = 2 /\ Untouched)
BY DEF LoopInv, LoopTypes, NextLife, Untouched

\* A command begins; it has written what has been given as w.
LEMMA BeginKeeps ==
    ASSUME LoopInv, NEW op \in {"select", "insert", "update", "delete"}, NEW tb \in Table,
           NEW keys \in SUBSET Key, op = "select" => keys = {}, keys # {} => tb \in catalog,
           Begin(op, tb, "write", keys), UNCHANGED providerVars
    PROVE  LoopInv'
<1>u. UNCHANGED <<page1, Contents, opened, catalog, auto_id, visible_seq>>
  BY DEF providerVars, fileVars, memoryVars, Contents, Entries
<1>1. /\ opened /\ fresh' = FALSE /\ UNCHANGED <<life, ended, ref, prev>> /\ cmd.at = "idle"
      /\ next_id < MaxTxn /\ next_id' = next_id + 1 /\ commit_seq' = commit_seq
      /\ states' = [states EXCEPT ![next_id + 1] = "Active"]
  BY DEF Begin, Call, beginTxn, NewTxn
<1>b. life \in Nat /\ next_id \in Nat /\ commit_seq \in Nat
  BY DEF LoopInv, LoopTypes
<1>2. /\ cmd'.at = "write" /\ cmd'.op = op /\ cmd'.table = tb /\ cmd'.txn = next_id + 1
      /\ cmd'.todo = keys /\ cmd'.keys = keys /\ cmd'.by = <<life, next_id + 1>>
      /\ IsCommand(cmd)'
  BY DEF Begin, NewTxn, Origin, IsCommand
<1>3. LoopTypes' /\ ~Untouched'
  BY <1>b, <1>u, <1>1 DEF LoopInv, LoopTypes, Untouched
<1>4. ASSUME life = 1
      PROVE  FileInv' /\ MemoryInv' /\ CmdInv'
  <2>1. FileInv /\ MemoryInv /\ CmdInv
    BY <1>1, <1>4 DEF LoopInv
  <2>2. FileInv'
    BY <1>u, <1>1, <1>2, <2>1 DEF FileInv, FileShows, ShowsAt, Trees
  <2>3. MemoryInv'
    BY <1>u, <1>1, <2>1 DEF MemoryInv, ShowsAt
  <2>4. CmdInv'
    <3>t. \A c \in Table : \A e \in Contents[c] : e.txn \in Nat /\ e.seq \in Nat
      BY <2>1, StoredFields DEF FileInv, Trees
    <3>1. Busy' /\ ~Committing'
      BY <1>2 DEF Busy, Committing
    <3>2. next_id + 1 \in 1..MaxTxn /\ next_id + 1 \in Txn
      BY <1>b, <1>1, TxnAssumption
    <3>3. states' \in [Txn -> TxnState] /\ states'[next_id + 1] = "Active"
      BY <1>1, <2>1, <3>2 DEF CmdInv, TxnState
    <3>4. ~Committing
      BY <1>1 DEF Committing
    <3>5. commit_seq = visible_seq /\ visible_seq \in Nat
      BY <2>1, <3>4 DEF CmdInv, Numbered, MemoryInv
    <3>6. \A c \in Table : \A e \in Contents[c] : e.txn <= next_id /\ ~(e.seq > visible_seq)
      BY <2>1, <3>4 DEF CmdInv, Numbered
    <3>7. \A c \in Table : \A e \in Contents'[c] :
             e.txn # next_id + 1 /\ e.txn <= next_id' /\ ~(e.seq > visible_seq')
      BY <1>b, <1>u, <1>1, <3>t, <3>6
    <3>8. cmd'.by \in Nat \X Nat
      BY <1>b, <1>2
    <3>9. \A c \in Table : \A e \in Contents'[c] : ~Own(e)'
      BY <1>2, <3>7 DEF Own
    <3>10. Numbered'
      BY <1>u, <1>1, <3>1, <3>5, <3>7 DEF Numbered
    <3>11. Running'
      BY <1>u, <1>1, <1>2, <3>2, <3>8, <3>9 DEF Running
    <3>12. Writing'
      BY <1>2, <3>3, <3>9 DEF Writing
    <3>13. QED BY <3>1, <3>3, <3>10, <3>11, <3>12 DEF CmdInv
  <2>5. QED BY <2>2, <2>3, <2>4
<1>5. QED BY <1>1, <1>3, <1>4, StepInLife

LEMMA InsertAutoKeeps ==
    ASSUME LoopInv, Shape, NEW tb \in Table, InsertAuto(tb)
    PROVE  LoopInv'
<1>k. PICK k : k = auto_id[tb] + 1
  OBVIOUS
<1>n. PICK n : n = Entry(next_id + 1, k, FALSE, <<life, next_id + 1>>)
  OBVIOUS
<1>1. /\ opened /\ fresh' = FALSE /\ UNCHANGED <<life, ended, ref, prev>> /\ cmd.at = "idle"
      /\ next_id < MaxTxn /\ next_id' = next_id + 1 /\ commit_seq' = commit_seq
      /\ states' = [states EXCEPT ![next_id + 1] = "Active"]
      /\ tb \in catalog
  BY DEF InsertAuto, Call, beginTxn, NewTxn
<1>2. /\ auto_id[tb] < MaxKey /\ auto_id' = [auto_id EXCEPT ![tb] = @ + 1] /\ AddEntry(tb, n)
      /\ UNCHANGED <<page1, opened, catalog, visible_seq>>
  BY <1>k, <1>n DEF InsertAuto, putAuto, NewTxn, Origin
<1>b. life \in Nat /\ next_id \in Nat /\ commit_seq \in Nat
  BY DEF LoopInv, LoopTypes
<1>c. /\ cmd'.at = "write" /\ cmd'.op = "insert" /\ cmd'.table = tb /\ cmd'.txn = next_id + 1
      /\ cmd'.todo = {} /\ cmd'.keys = {k} /\ cmd'.by = <<life, next_id + 1>>
      /\ IsCommand(cmd)'
  BY <1>k DEF InsertAuto, NewTxn, Origin, IsCommand
<1>3. LoopTypes' /\ ~Untouched'
  BY <1>b, <1>1, <1>2 DEF LoopInv, LoopTypes, Untouched
<1>4. ASSUME life = 1
      PROVE  FileInv' /\ MemoryInv' /\ CmdInv'
  <2>1. FileInv /\ MemoryInv /\ CmdInv
    BY <1>1, <1>4 DEF LoopInv
  <2>2. k \in Key /\ visible_seq \in Nat /\ auto_id \in [Table -> Nat]
    BY <1>k, <1>2, <2>1, KeyAssumption DEF MemoryInv, Key
  <2>n. /\ n.key = k /\ n.seq = 0 /\ n.txn = next_id + 1 /\ n.tombstone = FALSE
        /\ n.by = <<life, next_id + 1>>
    BY <1>n DEF Entry
  <2>3. n \in Stored
    BY <1>b, <1>n, <2>2 DEF Entry, Stored
  <2>4. /\ Trees'
        /\ \A c \in Table : \A w \in Nat : w <= visible_seq => RowsAt(Contents'[c], w) = RowsAt(Contents[c], w)
        /\ \A c \in Table : \A e \in Contents'[c] : e \in Contents[c] \/ (c = tb /\ e = n)
        /\ \E e \in Contents'[tb] : e.key = n.key /\ e.seq = n.seq /\ e.txn = n.txn
    <3>1. \A d \in Contents[tb] : d.txn # n.txn
      <4>1. \A d \in Contents[tb] : d.txn \in Nat /\ d.txn <= next_id
        BY <1>1, <2>1, StoredFields DEF FileInv, Trees, CmdInv, Numbered
      <4>2. QED BY <1>b, <2>n, <4>1
    <3>2. QED BY <1>2, <2>1, <2>2, <2>3, <2>n, <3>1, EntryAdded DEF FileInv
  <2>5. FileInv'
    <3>1. \A c \in Table : RowsAt(Contents'[c], page1.visible_seq) = RowsAt(Contents[c], page1.visible_seq)
      BY <2>1, <2>4 DEF FileInv, MemoryInv
    <3>2. QED BY <1>1, <1>2, <1>c, <2>1, <2>4, <3>1 DEF FileInv, FileShows, ShowsAt
  <2>6. MemoryInv'
    <3>1. \A c \in Table : RowsAt(Contents'[c], visible_seq) = RowsAt(Contents[c], visible_seq)
      BY <2>2, <2>4
    <3>2. auto_id' \in [Table -> Nat]
      BY <1>2, <2>2
    <3>3. QED BY <1>1, <1>2, <2>1, <3>1, <3>2 DEF MemoryInv, ShowsAt
  <2>7. CmdInv'
    <3>t. \A c \in Table : \A e \in Contents[c] : e.txn \in Nat /\ e.seq \in Nat
      BY <2>1, StoredFields DEF FileInv, Trees
    <3>1. Busy' /\ ~Committing'
      BY <1>c DEF Busy, Committing
    <3>2. next_id + 1 \in 1..MaxTxn /\ next_id + 1 \in Txn
      BY <1>b, <1>1, TxnAssumption
    <3>3. states' \in [Txn -> TxnState] /\ states'[next_id + 1] = "Active"
      BY <1>1, <2>1, <3>2 DEF CmdInv, TxnState
    <3>4. ~Committing
      BY <1>1 DEF Committing
    <3>5. commit_seq = visible_seq
      BY <2>1, <3>4 DEF CmdInv, Numbered
    <3>6. \A c \in Table : \A e \in Contents[c] : e.txn <= next_id /\ ~(e.seq > visible_seq)
      BY <2>1, <3>4 DEF CmdInv, Numbered
    <3>7. \A c \in Table : \A e \in Contents'[c] : e.txn <= next_id' /\ ~(e.seq > visible_seq')
      BY <1>b, <1>1, <1>2, <2>2, <2>4, <2>n, <3>t, <3>6
    <3>8. cmd'.by \in Nat \X Nat
      BY <1>b, <1>c
    <3>9. \A c \in Table : \A e \in Contents'[c] : Own(e)' => c = tb /\ e = n
      BY <1>b, <1>c, <2>4, <3>t, <3>6 DEF Own
    <3>10. \A c \in Table : \A e \in Contents'[c] : Own(e)' => Proper(c, e)' /\ e.seq = 0
      BY <1>c, <2>n, <3>9 DEF Proper
    <3>11. \E e \in Contents'[tb] : Own(e)' /\ e.key = k
      BY <1>c, <2>4, <2>n DEF Own
    <3>12. Numbered'
      BY <1>1, <1>2, <3>1, <3>5, <3>7 DEF Numbered
    <3>13. Running'
      BY <1>1, <1>2, <1>c, <2>2, <3>2, <3>8, <3>10 DEF Running
    <3>14. Writing'
      BY <1>c, <3>3, <3>10, <3>11 DEF Writing
    <3>15. QED BY <3>1, <3>3, <3>12, <3>13, <3>14 DEF CmdInv
  <2>8. QED BY <2>5, <2>6, <2>7
<1>5. QED BY <1>1, <1>3, <1>4, StepInLife

LEMMA RefusedKeeps == ASSUME LoopInv, Refused PROVE LoopInv'
<1>u. UNCHANGED <<page1, Contents, opened, catalog, auto_id, visible_seq>>
  BY DEF Refused, providerVars, fileVars, memoryVars, Contents, Entries
<1>1. /\ opened /\ fresh' = FALSE /\ UNCHANGED <<life, ended, ref, prev, cmd>> /\ cmd.at = "idle"
      /\ next_id < MaxTxn /\ next_id' = next_id + 1 /\ commit_seq' = commit_seq
      /\ states' = [states EXCEPT ![next_id + 1] = "Aborted"]
  BY DEF Refused, Call, NewTxn
<1>b. life \in Nat /\ next_id \in Nat /\ commit_seq \in Nat
  BY DEF LoopInv, LoopTypes
<1>3. LoopTypes' /\ ~Untouched'
  BY <1>b, <1>u, <1>1 DEF LoopInv, LoopTypes, Untouched
<1>4. ASSUME life = 1
      PROVE  FileInv' /\ MemoryInv' /\ CmdInv'
  <2>1. FileInv /\ MemoryInv /\ CmdInv
    BY <1>1, <1>4 DEF LoopInv
  <2>2. FileInv' /\ MemoryInv'
    BY <1>u, <1>1, <2>1 DEF FileInv, FileShows, ShowsAt, Trees, MemoryInv
  <2>3. \A c \in Table : \A e \in Contents[c] : e.txn \in Nat
    BY <2>1, StoredFields DEF FileInv, Trees
  <2>4. ~Busy /\ ~Committing /\ ~Busy' /\ ~Committing'
    BY <1>1 DEF Busy, Committing
  <2>5. states' \in [Txn -> TxnState]
    BY <1>1, <2>1 DEF CmdInv, TxnState
  <2>6. \A c \in Table : \A e \in Contents'[c] : e.txn <= next_id' /\ ~(e.seq > visible_seq')
    BY <1>b, <1>u, <1>1, <2>1, <2>3, <2>4 DEF CmdInv, Numbered
  <2>7. Numbered'
    BY <1>u, <1>1, <2>1, <2>4, <2>6 DEF CmdInv, Numbered
  <2>8. CmdInv'
    BY <1>1, <2>1, <2>4, <2>5, <2>7 DEF CmdInv
  <2>9. QED BY <2>2, <2>8
<1>5. QED BY <1>1, <1>3, <1>4, StepInLife

LEMMA WriteKeeps == ASSUME LoopInv, Shape, Write PROVE LoopInv'
<1>k. PICK k \in cmd.todo :
        /\ cmd.at = "write" /\ cmd' = [cmd EXCEPT !.todo = @ \ {k}]
        /\ IF cmd.op = "delete" THEN remove(cmd.txn, cmd.table, k, cmd.by)
                                ELSE put(cmd.txn, cmd.table, k, cmd.by)
        /\ UNCHANGED <<txnVars, life, ended, callVars, ref, prev>>
  BY DEF Write
<1>n. PICK n : n = Entry(cmd.txn, k, cmd.op = "delete", cmd.by)
  OBVIOUS
<1>u. /\ UNCHANGED <<page1, opened, catalog, auto_id, visible_seq, states, next_id, commit_seq>>
      /\ UNCHANGED <<life, ended, fresh, ref, prev>>
  BY <1>k DEF put, remove, memoryVars, txnVars, callVars
<1>1. AddEntry(cmd.table, n)
  <2>1. CASE cmd.op = "delete"
    <3>1. n = Entry(cmd.txn, k, TRUE, cmd.by)
      BY <1>n, <2>1
    <3>2. QED BY <1>k, <2>1, <3>1 DEF remove
  <2>2. CASE cmd.op # "delete"
    <3>1. n = Entry(cmd.txn, k, FALSE, cmd.by)
      BY <1>n, <2>2
    <3>2. QED BY <1>k, <2>2, <3>1 DEF put
  <2>3. QED BY <2>1, <2>2
<1>2. opened /\ ~(life = 2 /\ Untouched)
  BY <1>k, CommandUnderWay
<1>3. LoopTypes' /\ ~(life = 2 /\ Untouched')
  BY <1>u, <1>2 DEF LoopInv, LoopTypes, Untouched
<1>4. ASSUME life = 1
      PROVE  FileInv' /\ MemoryInv' /\ CmdInv'
  <2>1. FileInv /\ MemoryInv /\ CmdInv /\ Busy /\ ~Committing
    BY <1>k, <1>2, <1>4 DEF LoopInv, Busy, Committing
  <2>r. Running
    BY <2>1 DEF CmdInv
  <2>b. /\ cmd.txn = next_id /\ next_id \in 1..MaxTxn
        /\ cmd.table \in Table /\ cmd.keys \subseteq Key /\ cmd.by \in Nat \X Nat
        /\ cmd.keys # {} => cmd.table \in catalog
        /\ \A tb \in Table : \A e \in Contents[tb] : Own(e) => Proper(tb, e)
    BY <2>r DEF Running
  <2>w. /\ states[cmd.txn] = "Active" /\ cmd.todo \subseteq cmd.keys
        /\ \A e \in Contents[cmd.table] : Own(e) => e.seq = 0 /\ e.key \notin cmd.todo
        /\ \A j \in cmd.keys \ cmd.todo : \E e \in Contents[cmd.table] : Own(e) /\ e.key = j
    BY <1>k, <2>1 DEF CmdInv, Writing
  <2>c. /\ cmd'.at = "write" /\ cmd'.op = cmd.op /\ cmd'.table = cmd.table /\ cmd'.txn = cmd.txn
        /\ cmd'.todo = cmd.todo \ {k} /\ cmd'.keys = cmd.keys /\ cmd'.by = cmd.by
        /\ IsCommand(cmd)'
    BY <1>k, <2>r DEF Running, IsCommand
  <2>n. /\ n.key = k /\ n.seq = 0 /\ n.txn = next_id /\ n.by = cmd.by
        /\ n.tombstone = (cmd.op = "delete") /\ n \in Stored
    BY <1>n, <2>b, <2>w DEF Entry, Stored
  <2>v. visible_seq \in Nat /\ page1.visible_seq \in Nat /\ page1.visible_seq <= visible_seq
    BY <2>1 DEF MemoryInv, FileInv
  <2>4. /\ Trees'
        /\ \A c \in Table : \A w \in Nat : w <= visible_seq => RowsAt(Contents'[c], w) = RowsAt(Contents[c], w)
        /\ \A c \in Table : Contents[c] \subseteq Contents'[c]
        /\ \A c \in Table : \A e \in Contents'[c] : e \in Contents[c] \/ (c = cmd.table /\ e = n)
        /\ \E e \in Contents'[cmd.table] : e.key = n.key /\ e.seq = n.seq /\ e.txn = n.txn
    <3>1. \A d \in Contents[cmd.table] : d.txn = n.txn => d.key # n.key
      BY <2>b, <2>n, <2>w DEF Own
    <3>2. QED BY <1>1, <2>1, <2>b, <2>n, <2>v, <3>1, EntryAdded DEF FileInv
  <2>5. FileInv'
    <3>1. \A c \in Table : RowsAt(Contents'[c], page1.visible_seq) = RowsAt(Contents[c], page1.visible_seq)
      BY <2>v, <2>4
    <3>2. QED BY <1>u, <1>2, <2>c, <2>1, <2>4, <3>1 DEF FileInv, FileShows, ShowsAt
  <2>6. MemoryInv'
    <3>1. \A c \in Table : RowsAt(Contents'[c], visible_seq) = RowsAt(Contents[c], visible_seq)
      BY <2>v, <2>4
    <3>2. QED BY <1>u, <2>1, <3>1 DEF MemoryInv, ShowsAt
  <2>7. CmdInv'
    <3>1. Busy' /\ ~Committing'
      BY <2>c DEF Busy, Committing
    <3>2. \A c \in Table : \A e \in Contents'[c] : e.txn <= next_id /\ ~(e.seq > visible_seq)
      BY <2>1, <2>b, <2>4, <2>n, <2>v DEF CmdInv, Numbered
    <3>3. \A e : Own(e)' <=> Own(e)
      BY <2>c DEF Own
    <3>4. \A c \in Table : \A e \in Contents'[c] : Own(e)' => Proper(c, e)'
      <4>1. Proper(cmd.table, n)
        BY <2>n, <2>w DEF Proper
      <4>2. \A c, e : Proper(c, e)' <=> Proper(c, e)
        BY <2>c DEF Proper
      <4>3. QED BY <2>b, <2>4, <3>3, <4>1, <4>2
    <3>5. \A e \in Contents'[cmd.table] : Own(e)' => e.seq = 0 /\ e.key \notin cmd'.todo
      BY <2>b, <2>c, <2>4, <2>n, <2>w, <3>3
    <3>6. ASSUME NEW j \in cmd'.keys \ cmd'.todo
          PROVE  \E e \in Contents'[cmd.table] : Own(e)' /\ e.key = j
      <4>1. CASE j = k
        BY <2>b, <2>4, <2>n, <3>3, <4>1 DEF Own
      <4>2. CASE j # k
        BY <2>b, <2>c, <2>4, <2>w, <3>3, <4>2
      <4>3. QED BY <4>1, <4>2
    <3>7. commit_seq = visible_seq /\ states \in [Txn -> TxnState]
      BY <2>1 DEF CmdInv, Numbered
    <3>8. Numbered'
      BY <1>u, <3>1, <3>2, <3>7 DEF Numbered
    <3>9. Running'
      BY <1>u, <2>r, <2>c, <3>4 DEF Running
    <3>10. Writing'
      BY <1>u, <2>c, <2>w, <3>5, <3>6 DEF Writing
    <3>11. QED BY <1>u, <2>c, <3>1, <3>7, <3>8, <3>9, <3>10 DEF CmdInv
  <2>8. QED BY <2>5, <2>6, <2>7
<1>5. QED BY <1>u, <1>2, <1>3, <1>4, StepInLife

LEMMA CommitTxnKeeps == ASSUME LoopInv, CommitTxn PROVE LoopInv'
<1>u. /\ UNCHANGED <<page1, Contents, opened, catalog, auto_id, visible_seq>>
      /\ UNCHANGED <<life, ended, fresh, ref, prev>>
  BY DEF CommitTxn, providerVars, fileVars, memoryVars, callVars, Contents, Entries
<1>1. /\ cmd.at = "write" /\ cmd.todo = {} /\ commitTxn(cmd.txn)
      /\ cmd' = [cmd EXCEPT !.at = "stamp", !.seq = commit_seq', !.todo = Staged(cmd.txn)]
  BY DEF CommitTxn
<1>2. opened /\ ~(life = 2 /\ Untouched)
  BY <1>1, CommandUnderWay
<1>3. LoopTypes' /\ ~(life = 2 /\ Untouched')
  <2>1. next_id' \in Nat /\ commit_seq' \in Nat
    BY <1>1 DEF LoopInv, LoopTypes, commitTxn, txnVars
  <2>2. QED BY <1>u, <1>2, <2>1 DEF LoopInv, LoopTypes, Untouched
<1>4. ASSUME life = 1
      PROVE  FileInv' /\ MemoryInv' /\ CmdInv'
  <2>1. FileInv /\ MemoryInv /\ CmdInv /\ Busy /\ ~Committing
    BY <1>1, <1>2, <1>4 DEF LoopInv, Busy, Committing
  <2>r. Running
    BY <2>1 DEF CmdInv
  <2>b. /\ cmd.txn = next_id /\ next_id \in 1..MaxTxn
        /\ cmd.table \in Table /\ cmd.keys \subseteq Key /\ cmd.by \in Nat \X Nat
        /\ cmd.keys # {} => cmd.table \in catalog
        /\ \A tb \in Table : \A e \in Contents[tb] : Own(e) => Proper(tb, e)
    BY <2>r DEF Running
  <2>w. /\ states[cmd.txn] = "Active" /\ states \in [Txn -> TxnState]
        /\ \A e \in Contents[cmd.table] : Own(e) => e.seq = 0
        /\ \A j \in cmd.keys : \E e \in Contents[cmd.table] : Own(e) /\ e.key = j
    BY <1>1, <2>1 DEF CmdInv, Writing
  <2>2. /\ states' = [states EXCEPT ![cmd.txn] = "Committed"] /\ commit_seq' = commit_seq + 1
        /\ next_id' = next_id
    BY <1>1, <2>w DEF commitTxn, Closable
  <2>c. /\ cmd'.at = "stamp" /\ cmd'.op = cmd.op /\ cmd'.table = cmd.table /\ cmd'.txn = cmd.txn
        /\ cmd'.todo = Staged(cmd.txn) /\ cmd'.keys = cmd.keys /\ cmd'.by = cmd.by
        /\ cmd'.seq = commit_seq + 1 /\ IsCommand(cmd)'
    BY <1>1, <2>2, <2>r DEF Running, IsCommand
  <2>3. FileInv' /\ MemoryInv'
    BY <1>u, <1>2, <2>c, <2>1 DEF FileInv, FileShows, ShowsAt, Trees, MemoryInv
  <2>4. CmdInv'
    <3>1. Busy' /\ Committing'
      BY <2>c DEF Busy, Committing
    <3>2. \A e : Own(e)' <=> Own(e)
      BY <2>c DEF Own
    <3>3. \A c, e : Proper(c, e)' <=> Proper(c, e)
      BY <2>c DEF Proper
    <3>4. \A c \in Table : \A e \in Contents[c] : e.txn <= next_id /\ ~(e.seq > visible_seq)
      BY <2>1 DEF CmdInv, Numbered
    <3>5. ASSUME NEW p \in Staged(cmd.txn)
          PROVE  /\ p = <<p[1], p[2]>> /\ p[1] \in Table
                 /\ p[2] \in Contents[p[1]] /\ Own(p[2]) /\ p[2].seq = 0
      BY <2>1 DEF Staged, Own, MemoryInv, Contents
    <3>6. ASSUME NEW j \in cmd.keys
          PROVE  \E e \in Contents[cmd.table] :
                    Own(e) /\ e.key = j /\ e.seq = 0 /\ <<cmd.table, e>> \in Staged(cmd.txn)
      <4>1. PICK e \in Contents[cmd.table] : Own(e) /\ e.key = j /\ e.seq = 0
        BY <2>w
      <4>2. cmd.table \in catalog
        BY <2>b
      <4>3. <<cmd.table, e>> \in Staged(cmd.txn)
        <5>1. Contents[cmd.table] = Entries(cmd.table)
          BY <2>b DEF Contents
        <5>2. QED BY <4>1, <4>2, <5>1 DEF Staged, Own
      <4>4. QED BY <4>1, <4>3
    <3>7. commit_seq = visible_seq /\ visible_seq \in Nat
      BY <2>1 DEF CmdInv, Numbered, MemoryInv
    <3>8. states' \in [Txn -> TxnState]
      BY <2>2, <2>w DEF TxnState
    <3>9. Numbered'
      BY <1>u, <2>2, <2>c, <3>1, <3>4, <3>7 DEF Numbered
    <3>10. Running'
      BY <1>u, <2>2, <2>r, <2>c, <3>2, <3>3 DEF Running
    <3>11. Stamping'
      <4>1. \A j \in cmd.keys : \E e \in Contents[cmd.table] : Own(e) /\ e.key = j /\ ToStamp(e)'
        BY <2>c, <3>6 DEF ToStamp
      <4>2. QED BY <1>u, <2>c, <2>w, <3>2, <3>5, <4>1 DEF Stamping
    <3>12. QED BY <2>c, <3>1, <3>8, <3>9, <3>10, <3>11 DEF CmdInv
  <2>5. QED BY <2>3, <2>4
<1>5. QED BY <1>u, <1>2, <1>3, <1>4, StepInLife

LEMMA StampKeeps == ASSUME LoopInv, Shape, StampEntry PROVE LoopInv'
<1>p. PICK p \in cmd.todo :
        /\ cmd.at = "stamp" /\ cmd' = [cmd EXCEPT !.todo = @ \ {p}] /\ Stamp(p[1], p[2], cmd.seq)
        /\ UNCHANGED <<txnVars, life, ended, callVars, ref, prev>>
  BY DEF StampEntry
<1>n. PICK n : n = [p[2] EXCEPT !.seq = cmd.seq]
  OBVIOUS
<1>u. /\ UNCHANGED <<page1, opened, catalog, auto_id, visible_seq, states, next_id, commit_seq>>
      /\ UNCHANGED <<life, ended, fresh, ref, prev>>
  BY <1>p DEF Stamp, memoryVars, txnVars, callVars
<1>1. AddEntry(p[1], n)
  BY <1>p, <1>n DEF Stamp
<1>2. opened /\ ~(life = 2 /\ Untouched)
  BY <1>p, CommandUnderWay
<1>3. LoopTypes' /\ ~(life = 2 /\ Untouched')
  BY <1>u, <1>2 DEF LoopInv, LoopTypes, Untouched
<1>4. ASSUME life = 1
      PROVE  FileInv' /\ MemoryInv' /\ CmdInv'
  <2>1. FileInv /\ MemoryInv /\ CmdInv /\ Busy /\ Committing
    BY <1>p, <1>2, <1>4 DEF LoopInv, Busy, Committing
  <2>r. Running
    BY <2>1 DEF CmdInv
  <2>b. /\ cmd.table \in Table
        /\ \A tb \in Table : \A e \in Contents[tb] : Own(e) => Proper(tb, e)
    BY <2>r DEF Running
  <2>s. /\ \A e \in Contents[cmd.table] : Own(e) => e.seq \in {0, cmd.seq}
        /\ \A k \in cmd.keys :
              \E e \in Contents[cmd.table] : Own(e) /\ e.key = k /\ (e.seq = cmd.seq \/ ToStamp(e))
        /\ \A q \in cmd.todo : /\ q = <<q[1], q[2]>> /\ q[1] \in Table
                               /\ q[2] \in Contents[q[1]] /\ Own(q[2]) /\ q[2].seq = 0
    BY <1>p, <2>1 DEF CmdInv, Stamping
  <2>c. /\ cmd'.at = "stamp" /\ cmd'.op = cmd.op /\ cmd'.table = cmd.table /\ cmd'.txn = cmd.txn
        /\ cmd'.todo = cmd.todo \ {p} /\ cmd'.keys = cmd.keys /\ cmd'.by = cmd.by
        /\ cmd'.seq = cmd.seq /\ IsCommand(cmd)'
    BY <1>p, <2>r DEF Running, IsCommand
  <2>v. /\ visible_seq \in Nat /\ page1.visible_seq \in Nat /\ page1.visible_seq <= visible_seq
        /\ cmd.seq = visible_seq + 1 /\ commit_seq = visible_seq + 1
    BY <2>1 DEF MemoryInv, FileInv, CmdInv, Numbered
  <2>e. PICK e0 \in Stored : /\ e0 = p[2] /\ p[1] = cmd.table /\ e0 \in Contents[cmd.table] /\ Own(e0)
                             /\ Proper(cmd.table, e0) /\ p = <<cmd.table, e0>>
    <3>1. p[1] = cmd.table /\ p[2] \in Contents[cmd.table] /\ Own(p[2]) /\ Proper(cmd.table, p[2])
      BY <2>b, <2>s DEF Proper
    <3>2. p[2] \in Stored
      BY <2>1, <2>b, <3>1 DEF FileInv, Trees
    <3>3. QED BY <2>s, <3>1, <3>2
  <2>n. /\ n.key = e0.key /\ n.seq = cmd.seq /\ n.txn = e0.txn /\ n.by = e0.by
        /\ n.tombstone = e0.tombstone /\ n \in Stored
    BY <1>n, <2>e, <2>v DEF Stored
  <2>o. Own(n) /\ Proper(cmd.table, n)
    BY <2>e, <2>n DEF Own, Proper
  <2>d. \A d \in Contents[cmd.table] : d.seq = cmd.seq => Own(d)
    BY <2>1, <2>b, <2>v DEF CmdInv, Numbered
  <2>4. /\ Trees'
        /\ \A c \in Table : \A w \in Nat : w <= visible_seq => RowsAt(Contents'[c], w) = RowsAt(Contents[c], w)
        /\ \A c \in Table : Contents[c] \subseteq Contents'[c]
        /\ \A c \in Table : \A e \in Contents'[c] : e \in Contents[c] \/ (c = cmd.table /\ e = n)
        /\ \E e \in Contents'[cmd.table] : e.key = n.key /\ e.seq = n.seq /\ e.txn = n.txn
    <3>1. AddEntry(cmd.table, n)
      BY <1>1, <2>e
    <3>2. n.seq > visible_seq
      BY <2>n, <2>v
    <3>3. ASSUME NEW d \in Contents[cmd.table], d.key = n.key, d.seq = n.seq
          PROVE  d = n
      <4>1. Own(d) /\ Proper(cmd.table, d) /\ d \in Stored
        BY <2>1, <2>b, <2>d, <2>n, <3>3 DEF FileInv, Trees
      <4>2. d.txn = n.txn /\ d.by = n.by /\ d.tombstone = n.tombstone
        <5>1. d.txn = n.txn /\ d.by = n.by /\ (d.tombstone <=> n.tombstone)
          BY <2>o, <4>1 DEF Own, Proper
        <5>2. d.tombstone \in BOOLEAN /\ n.tombstone \in BOOLEAN
          BY <2>n, <4>1, StoredFields
        <5>3. QED BY <5>1, <5>2
      <4>3. QED BY <2>n, <3>3, <4>1, <4>2 DEF Stored
    <3>4. Trees
      BY <2>1 DEF FileInv
    <3>5. QED BY <2>b, <2>n, <2>v, <3>1, <3>2, <3>3, <3>4, EntryAdded
  <2>5. FileInv'
    <3>1. \A c \in Table : RowsAt(Contents'[c], page1.visible_seq) = RowsAt(Contents[c], page1.visible_seq)
      BY <2>v, <2>4
    <3>2. QED BY <1>u, <1>2, <2>c, <2>1, <2>4, <3>1 DEF FileInv, FileShows, ShowsAt
  <2>6. MemoryInv'
    <3>1. \A c \in Table : RowsAt(Contents'[c], visible_seq) = RowsAt(Contents[c], visible_seq)
      BY <2>v, <2>4
    <3>2. QED BY <1>u, <2>1, <3>1 DEF MemoryInv, ShowsAt
  <2>7. CmdInv'
    <3>1. Busy' /\ Committing'
      BY <2>c DEF Busy, Committing
    <3>2. \A e : Own(e)' <=> Own(e)
      BY <2>c DEF Own
    <3>3. \A c, e : Proper(c, e)' <=> Proper(c, e)
      BY <2>c DEF Proper
    <3>4. Numbered'
      <4>1. \A c \in Table : \A e \in Contents[c] : e.txn <= next_id /\ (e.seq > visible_seq => Own(e))
        BY <2>1 DEF CmdInv, Numbered
      <4>2. n.txn <= next_id
        BY <2>b, <2>e, <2>n, <4>1
      <4>3. QED BY <1>u, <2>c, <2>o, <2>v, <2>4, <3>1, <3>2, <4>1, <4>2 DEF Numbered
    <3>5. Running'
      <4>1. \A c \in Table : \A e \in Contents'[c] : Own(e)' => Proper(c, e)'
        BY <2>b, <2>o, <2>4, <3>2, <3>3
      <4>2. QED BY <1>u, <2>r, <2>c, <4>1 DEF Running
    <3>6. Stamping'
      <4>1. \A e \in Contents'[cmd.table] : Own(e)' => e.seq \in {0, cmd.seq}
        BY <2>b, <2>n, <2>s, <2>4, <3>2
      <4>2. ASSUME NEW k \in cmd.keys
            PROVE  \E e \in Contents'[cmd.table] : Own(e) /\ e.key = k /\ (e.seq = cmd.seq \/ ToStamp(e)')
        <5>1. PICK e \in Contents[cmd.table] : Own(e) /\ e.key = k /\ (e.seq = cmd.seq \/ ToStamp(e))
          BY <2>s
        <5>2. CASE e.seq = cmd.seq
          BY <2>b, <2>4, <5>1, <5>2
        <5>3. CASE ToStamp(e) /\ <<cmd.table, e>> # p
          <6>1. ToStamp(e)'
            BY <2>c, <5>3 DEF ToStamp
          <6>2. QED BY <2>b, <2>4, <5>1, <6>1
        <5>4. CASE <<cmd.table, e>> = p
          <6>1. e = e0
            BY <2>e, <5>4
          <6>2. PICK d \in Contents'[cmd.table] : d.key = n.key /\ d.seq = n.seq /\ d.txn = n.txn
            BY <2>4
          <6>3. QED BY <2>n, <2>o, <5>1, <6>1, <6>2 DEF Own
        <5>5. QED BY <5>1, <5>2, <5>3, <5>4
      <4>3. ASSUME NEW q \in cmd'.todo
            PROVE  /\ q = <<q[1], q[2]>> /\ q[1] \in Table
                   /\ q[2] \in Contents'[q[1]] /\ Own(q[2]) /\ q[2].seq = 0
        BY <2>c, <2>s, <2>4
      <4>4. QED BY <2>c, <3>2, <4>1, <4>2, <4>3 DEF Stamping
    <3>7. QED BY <1>u, <2>1, <2>c, <3>1, <3>4, <3>5, <3>6 DEF CmdInv
  <2>8. QED BY <2>5, <2>6, <2>7
<1>5. QED BY <1>u, <1>2, <1>3, <1>4, StepInLife

\* The metadata page follows visible_seq, and the file shows what memory shows.
LEMMA SavedShows ==
    ASSUME MemoryInv, page1' = Metadata,
           UNCHANGED <<catalog, visible_seq, auto_id, Contents, ref>>
    PROVE  /\ page1'.catalog = catalog /\ page1'.visible_seq = visible_seq
           /\ FileShows(ref)' /\ MemoryInv'
<1>1. page1'.catalog = catalog /\ page1'.visible_seq = visible_seq
  BY DEF Metadata
<1>2. FileShows(ref)'
  BY <1>1 DEF MemoryInv, FileShows, ShowsAt
<1>3. page1'.visible_seq <= visible_seq'
  BY <1>1 DEF MemoryInv
<1>4. MemoryInv'
  BY <1>1, <1>3 DEF MemoryInv, ShowsAt
<1>5. QED BY <1>1, <1>2, <1>4

LEMMA SaveMetaKeeps == ASSUME LoopInv, SaveMeta PROVE LoopInv'
<1>u. /\ UNCHANGED <<Contents, opened, catalog, auto_id, visible_seq, states, next_id, commit_seq>>
      /\ UNCHANGED <<life, ended, fresh, ref, prev>>
  BY DEF SaveMeta, saveMetadata, memoryVars, txnVars, callVars, Contents, Entries
<1>1. /\ cmd.at = "stamp" /\ cmd.todo = {} /\ cmd' = [cmd EXCEPT !.at = "advance"]
      /\ page1' = Metadata
  BY DEF SaveMeta, saveMetadata
<1>2. opened /\ ~(life = 2 /\ Untouched)
  BY <1>1, CommandUnderWay
<1>3. LoopTypes' /\ ~(life = 2 /\ Untouched')
  BY <1>u, <1>2 DEF LoopInv, LoopTypes, Untouched
<1>4. ASSUME life = 1
      PROVE  FileInv' /\ MemoryInv' /\ CmdInv'
  <2>1. FileInv /\ MemoryInv /\ CmdInv /\ Busy /\ Committing
    BY <1>1, <1>2, <1>4 DEF LoopInv, Busy, Committing
  <2>r. Running /\ Stamping
    BY <2>1 DEF CmdInv
  <2>c. /\ cmd'.at = "advance" /\ cmd'.op = cmd.op /\ cmd'.table = cmd.table /\ cmd'.txn = cmd.txn
        /\ cmd'.keys = cmd.keys /\ cmd'.by = cmd.by /\ cmd'.seq = cmd.seq /\ IsCommand(cmd)'
    BY <1>1, <2>r DEF Running, IsCommand
  <2>2. /\ page1'.catalog = catalog /\ page1'.visible_seq = visible_seq
        /\ FileShows(ref)' /\ MemoryInv'
    BY <1>u, <1>1, <2>1, SavedShows
  <2>3. FileInv'
    BY <1>u, <2>1, <2>2 DEF FileInv, Trees, MemoryInv
  <2>4. CmdInv'
    <3>1. Busy' /\ Committing'
      BY <2>c DEF Busy, Committing
    <3>2. \A e : (Own(e)' <=> Own(e)) /\ ~ToStamp(e)
      BY <1>1, <2>c DEF Own, ToStamp
    <3>3. \A c, e : Proper(c, e)' <=> Proper(c, e)
      BY <2>c DEF Proper
    <3>4. Numbered'
      BY <1>u, <2>1, <2>c, <3>1, <3>2 DEF CmdInv, Numbered
    <3>5. Running'
      BY <1>u, <2>r, <2>c, <3>2, <3>3 DEF Running
    <3>6. Stamping'
      BY <1>u, <2>r, <2>c, <3>2 DEF Stamping
    <3>7. QED BY <1>u, <2>1, <2>c, <3>1, <3>4, <3>5, <3>6 DEF CmdInv
  <2>5. QED BY <2>2, <2>3, <2>4
<1>5. QED BY <1>u, <1>2, <1>3, <1>4, StepInLife

LEMMA MaxOfNext == ASSUME NEW v \in Nat PROVE Max({v, v + 1}) = v + 1
<1>1. \A x \in {v, v + 1} : (\A y \in {v, v + 1} : x >= y) <=> x = v + 1
  OBVIOUS
<1>2. QED BY <1>1 DEF Max

LEMMA FinishKeeps == ASSUME LoopInv, Finish PROVE LoopInv'
<1>u. /\ UNCHANGED <<page1, Contents, opened, catalog, auto_id, states, next_id, commit_seq>>
      /\ UNCHANGED <<life, ended, fresh>>
  BY DEF Finish, Advance, fileVars, txnVars, callVars, Contents, Entries
<1>1. /\ cmd.at = "advance" /\ cmd' = Idle /\ visible_seq' = Max({visible_seq, cmd.seq})
      /\ prev' = ref /\ ref' = [ref EXCEPT ![cmd.table] = Answered(ref[cmd.table])]
  BY DEF Finish, Advance
<1>i. cmd'.at = "idle"
  BY <1>1 DEF Idle
<1>2. opened /\ ~(life = 2 /\ Untouched)
  BY <1>1, CommandUnderWay
<1>3. LoopTypes' /\ ~(life = 2 /\ Untouched')
  BY <1>u, <1>1, <1>2 DEF LoopInv, LoopTypes, Untouched
<1>4. ASSUME life = 1
      PROVE  FileInv' /\ MemoryInv' /\ CmdInv'
  <2>1. FileInv /\ MemoryInv /\ CmdInv /\ Busy /\ Committing
    BY <1>1, <1>2, <1>4 DEF LoopInv, Busy, Committing
  <2>r. Running /\ Stamping /\ Numbered
    BY <2>1 DEF CmdInv
  <2>v. /\ visible_seq \in Nat /\ page1.visible_seq \in Nat /\ page1.visible_seq <= visible_seq
        /\ cmd.seq = visible_seq + 1 /\ commit_seq = visible_seq + 1
    BY <2>1 DEF MemoryInv, FileInv, CmdInv, Numbered
  <2>2. visible_seq' = visible_seq + 1
    BY <1>1, <2>v, MaxOfNext
  <2>t. \A tb \in Table : Contents[tb] \in SUBSET Stored
    BY <2>1 DEF FileInv, Trees
  <2>o. \A tb \in Table : \A e \in Contents[tb] :
           e.seq > visible_seq => /\ tb = cmd.table /\ e.seq = visible_seq + 1
                                  /\ e.key \in cmd.keys /\ e.by = cmd.by
                                  /\ (e.tombstone <=> cmd.op = "delete")
    <3> SUFFICES ASSUME NEW tb \in Table, NEW e \in Contents[tb], e.seq > visible_seq
                 PROVE  /\ tb = cmd.table /\ e.seq = visible_seq + 1
                        /\ e.key \in cmd.keys /\ e.by = cmd.by
                        /\ (e.tombstone <=> cmd.op = "delete")
      OBVIOUS
    <3>1. Own(e) /\ Proper(tb, e)
      BY <2>r DEF Numbered, Running
    <3>2. e.seq \in {0, cmd.seq}
      BY <2>r, <3>1 DEF Stamping, Proper
    <3>3. QED BY <2>v, <3>1, <3>2 DEF Proper
  <2>k. /\ cmd.table \in Table /\ (cmd.keys # {} => cmd.table \in catalog)
        /\ cmd.op \in {"select", "insert", "update", "delete"}
        /\ cmd.op = "select" => cmd.keys = {}
    BY <2>r DEF Running
  <2>s. \A k \in cmd.keys : \E e \in Contents[cmd.table] : e.key = k /\ e.seq = visible_seq + 1
    BY <1>1, <2>r, <2>v DEF Stamping, ToStamp
  <2>3. FileInv'
    <3>1. FileShows(ref)
      BY <1>1, <2>1 DEF FileInv
    <3>2. FileShows(prev)'
      BY <1>u, <1>1, <3>1 DEF FileShows, ShowsAt
    <3>3. QED BY <1>u, <1>i, <1>2, <2>1, <3>2 DEF FileInv, Trees
  <2>4. MemoryInv'
    <3>1. ASSUME NEW tb \in Table \ {cmd.table}
          PROVE  RowsAt(Contents[tb], visible_seq + 1) = RowsAt(Contents[tb], visible_seq)
      <4>1. \A e \in Contents[tb] : ~(e.seq > visible_seq)
        BY <2>o
      <4>2. PICK K : K = {}
        OBVIOUS
      <4>3. RowsAt(Contents[tb], visible_seq + 1) = Gains(RowsAt(Contents[tb], visible_seq), K, cmd.by, cmd.op)
        BY <2>v, <2>t, <4>1, <4>2, NextSequence
      <4>4. QED BY <4>2, <4>3 DEF Gains
    <3>2. RowsAt(Contents[cmd.table], visible_seq + 1)
             = Gains(RowsAt(Contents[cmd.table], visible_seq), cmd.keys, cmd.by, cmd.op)
      <4>1. \A e \in Contents[cmd.table] :
               e.seq > visible_seq => /\ e.seq = visible_seq + 1 /\ e.key \in cmd.keys
                                      /\ e.by = cmd.by /\ (e.tombstone <=> cmd.op = "delete")
        BY <2>k, <2>o
      <4>2. Contents[cmd.table] \in SUBSET Stored
        BY <2>k, <2>t
      <4>3. QED BY <2>v, <2>s, <4>1, <4>2, NextSequence
    <3>3. \A rows : Answered(rows) = Gains(rows, cmd.keys, cmd.by, cmd.op)
      <4>1. CASE cmd.op \in {"insert", "update"}
        BY <4>1 DEF Answered, Gains
      <4>2. CASE cmd.op = "select"
        BY <2>k, <4>2 DEF Answered, Gains
      <4>3. CASE cmd.op = "delete"
        BY <4>3 DEF Answered, Gains
      <4>4. QED BY <2>k, <4>1, <4>2, <4>3
    <3>4. /\ ref' = [tb \in Table |-> ref'[tb]] /\ ref'[cmd.table] = Answered(ref[cmd.table])
          /\ \A tb \in Table \ {cmd.table} : ref'[tb] = ref[tb]
      BY <1>1, <2>1, <2>k DEF MemoryInv
    <3>5. ASSUME NEW tb \in catalog
          PROVE  RowsAt(Contents'[tb], visible_seq') = ref'[tb]
      <4>1. RowsAt(Contents[tb], visible_seq) = ref[tb] /\ tb \in Table
        BY <2>1 DEF MemoryInv, ShowsAt
      <4>2. CASE tb = cmd.table
        BY <1>u, <2>2, <3>2, <3>3, <3>4, <4>1, <4>2
      <4>3. CASE tb # cmd.table
        BY <1>u, <2>2, <3>1, <3>4, <4>1, <4>3
      <4>4. QED BY <4>2, <4>3
    <3>6. ASSUME NEW tb \in Table \ catalog
          PROVE  ref'[tb] = {}
      <4>1. ref[tb] = {}
        BY <2>1 DEF MemoryInv
      <4>2. CASE tb = cmd.table
        BY <2>k, <3>3, <3>4, <4>1, <4>2 DEF Gains
      <4>3. QED BY <3>4, <4>1, <4>2
    <3>7. page1.visible_seq <= visible_seq + 1 /\ visible_seq + 1 \in Nat
      BY <2>v
    <3>8. QED BY <1>u, <2>1, <2>2, <3>4, <3>5, <3>6, <3>7 DEF MemoryInv, ShowsAt
  <2>5. CmdInv'
    <3>1. ~Busy' /\ ~Committing'
      BY <1>i DEF Busy, Committing
    <3>2. \A tb \in Table : \A e \in Contents[tb] : e.seq \in Nat /\ e.txn <= next_id
      BY <2>r, <2>t, StoredFields DEF Numbered
    <3>3. \A tb \in Table : \A e \in Contents[tb] : ~(e.seq > visible_seq + 1)
      BY <2>v, <2>o, <3>2
    <3>4. Numbered'
      BY <1>u, <2>2, <2>v, <3>1, <3>2, <3>3 DEF Numbered
    <3>5. QED BY <1>u, <1>1, <1>i, <2>1, <3>1, <3>4 DEF CmdInv
  <2>6. QED BY <2>3, <2>4, <2>5
<1>5. QED BY <1>u, <1>2, <1>3, <1>4, StepInLife

LEMMA EmptyHasNone == InTree(EmptyTree) = {} /\ IsTree(EmptyTree)
<1>1. EmptyTree.leaves = <<{}>> /\ EmptyTree.index = <<>>
  BY DEF EmptyTree
<1>2. InTree(EmptyTree) = {}
  BY <1>1 DEF InTree
<1>3. QED BY <1>1, <1>2 DEF IsTree, EmptyTree

LEMMA EmptyShowsNothing == \A v : RowsAt({}, v) = {}
BY DEF RowsAt

\* A call of the provider: it moves or empties whole trees and writes the
\* metadata page.
LEMMA DdlKeeps ==
    ASSUME LoopInv, DDL, UNCHANGED <<opened, visible_seq>>, page1' = Metadata', prev' = ref',
           FileInv /\ MemoryInv =>
              /\ catalog' \subseteq Table /\ auto_id' \in [Table -> Nat]
              /\ Contents' = [c \in Table |-> Contents'[c]] /\ ref' = [c \in Table |-> ref'[c]]
              /\ \A c \in Table : Contents'[c] = {} \/ \E d \in Table : Contents'[c] = Contents[d]
              /\ \A c \in catalog' : RowsAt(Contents'[c], visible_seq) = ref'[c]
              /\ \A c \in Table \ catalog' : ref'[c] = {}
    PROVE  LoopInv'
<1>1. /\ opened /\ fresh' = FALSE /\ UNCHANGED <<life, ended, cmd>> /\ cmd.at = "idle"
      /\ UNCHANGED <<states, next_id, commit_seq>>
  BY DEF DDL, Call, txnVars
<1>2. LoopTypes' /\ ~Untouched'
  BY <1>1 DEF LoopInv, LoopTypes, Untouched
<1>3. page1'.catalog = catalog' /\ page1'.visible_seq = visible_seq
  BY DEF Metadata
<1>4. ASSUME life = 1
      PROVE  FileInv' /\ MemoryInv' /\ CmdInv'
  <2>1. FileInv /\ MemoryInv /\ CmdInv /\ visible_seq \in Nat
    BY <1>1, <1>4 DEF LoopInv, MemoryInv
  <2>2. \A c \in Table : Contents'[c] = {} \/ \E d \in Table : Contents'[c] = Contents[d]
    BY <2>1
  <2>3. Trees'
    <3>1. \A c \in Table : Contents[c] \in SUBSET Stored /\ OneEach(Contents[c])
      BY <2>1 DEF FileInv, Trees
    <3>2. OneEach({}) /\ {} \in SUBSET Stored
      BY DEF OneEach
    <3>3. \A c \in Table : Contents'[c] \in SUBSET Stored /\ OneEach(Contents'[c])
      BY <2>2, <3>1, <3>2
    <3>4. Contents' \in [Table -> SUBSET Stored]
      BY <2>1, <3>3
    <3>5. QED BY <3>3, <3>4 DEF Trees
  <2>4. FileShows(ref)'
    BY <1>3, <2>1 DEF FileShows, ShowsAt
  <2>5. FileInv'
    BY <1>3, <2>1, <2>3, <2>4 DEF FileInv
  <2>6. MemoryInv'
    BY <1>3, <2>1 DEF MemoryInv, ShowsAt
  <2>7. ~Busy /\ ~Committing /\ ~Busy' /\ ~Committing'
    BY <1>1 DEF Busy, Committing
  <2>8. Numbered'
    <3>1. \A c \in Table : \A e \in Contents[c] : e.txn <= next_id /\ ~(e.seq > visible_seq)
      BY <2>1, <2>7 DEF CmdInv, Numbered
    <3>2. \A c \in Table : \A e \in Contents'[c] : e.txn <= next_id /\ ~(e.seq > visible_seq)
      BY <2>2, <3>1
    <3>3. commit_seq = visible_seq
      BY <2>1, <2>7 DEF CmdInv, Numbered
    <3>4. QED BY <1>1, <2>7, <3>2, <3>3 DEF Numbered
  <2>9. CmdInv'
    BY <1>1, <2>1, <2>7, <2>8 DEF CmdInv
  <2>10. QED BY <2>5, <2>6, <2>9
<1>5. QED BY <1>1, <1>2, <1>4, StepInLife

LEMMA CreateKeeps == ASSUME LoopInv, Shape, NEW tb \in Table, Create(tb) PROVE LoopInv'
<1>1. /\ DDL /\ tb \notin catalog /\ catalog' = catalog \cup {tb}
      /\ auto_id' = [auto_id EXCEPT ![tb] = 0] /\ tree' = [tree EXCEPT ![tb] = EmptyTree]
      /\ UNCHANGED <<opened, visible_seq>> /\ page1' = Metadata' /\ ref' = ref /\ prev' = ref
  BY DEF Create, createTable, Tables
<1>2. ASSUME FileInv, MemoryInv
      PROVE  /\ catalog' \subseteq Table /\ auto_id' \in [Table -> Nat]
             /\ Contents' = [c \in Table |-> Contents'[c]] /\ ref' = [c \in Table |-> ref'[c]]
             /\ \A c \in Table : Contents'[c] = {} \/ \E d \in Table : Contents'[c] = Contents[d]
             /\ \A c \in catalog' : RowsAt(Contents'[c], visible_seq) = ref'[c]
             /\ \A c \in Table \ catalog' : ref'[c] = {}
  <2>1. Contents'[tb] = {} /\ \A c \in Table \ {tb} : Contents'[c] = Contents[c]
    <3>1. tree'[tb] = EmptyTree /\ \A c \in Table \ {tb} : tree'[c] = tree[c]
      BY <1>1 DEF Shape
    <3>2. QED BY <3>1, EmptyHasNone DEF Contents, Entries
  <2>2. Contents' = [c \in Table |-> Contents'[c]]
    BY DEF Contents
  <2>3. ref[tb] = {} /\ \A c \in catalog : c \in Table /\ RowsAt(Contents[c], visible_seq) = ref[c]
    BY <1>1, <1>2 DEF MemoryInv, ShowsAt
  <2>4. QED BY <1>1, <1>2, <2>1, <2>2, <2>3, EmptyShowsNothing DEF MemoryInv
<1>3. QED BY <1>1, <1>2, DdlKeeps

LEMMA DropKeeps == ASSUME LoopInv, Shape, NEW tb \in Table, Drop(tb) PROVE LoopInv'
<1>1. /\ DDL /\ tb \in catalog /\ catalog' = catalog \ {tb}
      /\ auto_id' = [auto_id EXCEPT ![tb] = 0] /\ tree' = [tree EXCEPT ![tb] = EmptyTree]
      /\ UNCHANGED <<opened, visible_seq>> /\ page1' = Metadata'
      /\ ref' = [ref EXCEPT ![tb] = {}] /\ prev' = ref'
  BY DEF Drop, dropTable, Tables
<1>2. ASSUME FileInv, MemoryInv
      PROVE  /\ catalog' \subseteq Table /\ auto_id' \in [Table -> Nat]
             /\ Contents' = [c \in Table |-> Contents'[c]] /\ ref' = [c \in Table |-> ref'[c]]
             /\ \A c \in Table : Contents'[c] = {} \/ \E d \in Table : Contents'[c] = Contents[d]
             /\ \A c \in catalog' : RowsAt(Contents'[c], visible_seq) = ref'[c]
             /\ \A c \in Table \ catalog' : ref'[c] = {}
  <2>1. Contents'[tb] = {} /\ \A c \in Table \ {tb} : Contents'[c] = Contents[c]
    <3>1. tree'[tb] = EmptyTree /\ \A c \in Table \ {tb} : tree'[c] = tree[c]
      BY <1>1 DEF Shape
    <3>2. QED BY <3>1, EmptyHasNone DEF Contents, Entries
  <2>2. Contents' = [c \in Table |-> Contents'[c]] /\ ref' = [c \in Table |-> ref'[c]]
    BY <1>1, <1>2 DEF Contents, MemoryInv
  <2>3. ref'[tb] = {} /\ \A c \in Table \ {tb} : ref'[c] = ref[c]
    BY <1>1, <1>2 DEF MemoryInv
  <2>4. QED BY <1>1, <1>2, <2>1, <2>2, <2>3 DEF MemoryInv, ShowsAt
<1>3. QED BY <1>1, <1>2, DdlKeeps

LEMMA RenameKeeps ==
    ASSUME LoopInv, Shape, NEW tb \in Table, NEW new \in Table, Rename(tb, new)
    PROVE  LoopInv'
<1>1. /\ DDL /\ tb \in catalog /\ new \notin catalog /\ catalog' = (catalog \ {tb}) \cup {new}
      /\ auto_id' = [auto_id EXCEPT ![new] = auto_id[tb], ![tb] = 0]
      /\ tree' = [tree EXCEPT ![new] = tree[tb], ![tb] = EmptyTree]
      /\ UNCHANGED <<opened, visible_seq>> /\ page1' = Metadata'
      /\ ref' = [ref EXCEPT ![new] = ref[tb], ![tb] = {}] /\ prev' = ref'
  BY DEF Rename, renameTable, Tables
<1>2. ASSUME FileInv, MemoryInv
      PROVE  /\ catalog' \subseteq Table /\ auto_id' \in [Table -> Nat]
             /\ Contents' = [c \in Table |-> Contents'[c]] /\ ref' = [c \in Table |-> ref'[c]]
             /\ \A c \in Table : Contents'[c] = {} \/ \E d \in Table : Contents'[c] = Contents[d]
             /\ \A c \in catalog' : RowsAt(Contents'[c], visible_seq) = ref'[c]
             /\ \A c \in Table \ catalog' : ref'[c] = {}
  <2>0. new # tb
    BY <1>1
  <2>1. /\ Contents'[tb] = {} /\ Contents'[new] = Contents[tb]
        /\ \A c \in Table \ {tb, new} : Contents'[c] = Contents[c]
    <3>1. /\ tree'[tb] = EmptyTree /\ tree'[new] = tree[tb]
          /\ \A c \in Table \ {tb, new} : tree'[c] = tree[c]
      BY <1>1, <2>0 DEF Shape
    <3>2. QED BY <3>1, EmptyHasNone DEF Contents, Entries
  <2>2. Contents' = [c \in Table |-> Contents'[c]] /\ ref' = [c \in Table |-> ref'[c]]
    BY <1>1, <1>2 DEF Contents, MemoryInv
  <2>3. /\ ref'[tb] = {} /\ ref'[new] = ref[tb]
        /\ \A c \in Table \ {tb, new} : ref'[c] = ref[c]
    BY <1>1, <1>2, <2>0 DEF MemoryInv
  <2>4. auto_id' \in [Table -> Nat] /\ catalog' \subseteq Table
    BY <1>1, <1>2 DEF MemoryInv
  <2>5. /\ \A c \in catalog : c \in Table /\ RowsAt(Contents[c], visible_seq) = ref[c]
        /\ \A c \in Table \ catalog : ref[c] = {}
    BY <1>2 DEF MemoryInv, ShowsAt
  <2>6. \A c \in catalog' : RowsAt(Contents'[c], visible_seq) = ref'[c]
    BY <1>1, <2>0, <2>1, <2>3, <2>5
  <2>7. \A c \in Table \ catalog' : ref'[c] = {}
    BY <1>1, <2>0, <2>3, <2>5
  <2>8. \A c \in Table : Contents'[c] = {} \/ \E d \in Table : Contents'[c] = Contents[d]
    BY <2>1
  <2>9. QED BY <2>2, <2>4, <2>6, <2>7, <2>8
<1>3. QED BY <1>1, <1>2, DdlKeeps

LEMMA RefreshKeeps == ASSUME LoopInv, Refresh PROVE LoopInv'
<1>1. /\ DDL /\ UNCHANGED <<tree, Contents, opened, catalog, auto_id, visible_seq>> /\ page1' = Metadata
      /\ ref' = ref /\ prev' = ref
  BY DEF Refresh, refreshMetadata, saveMetadata, Tables, memoryVars, Contents, Entries
<1>2. page1' = Metadata'
  BY <1>1 DEF Metadata
<1>3. ASSUME FileInv, MemoryInv
      PROVE  /\ catalog' \subseteq Table /\ auto_id' \in [Table -> Nat]
             /\ Contents' = [c \in Table |-> Contents'[c]] /\ ref' = [c \in Table |-> ref'[c]]
             /\ \A c \in Table : Contents'[c] = {} \/ \E d \in Table : Contents'[c] = Contents[d]
             /\ \A c \in catalog' : RowsAt(Contents'[c], visible_seq) = ref'[c]
             /\ \A c \in Table \ catalog' : ref'[c] = {}
  BY <1>1, <1>3 DEF FileInv, MemoryInv, Trees, ShowsAt
<1>4. QED BY <1>1, <1>2, <1>3, DdlKeeps

-----------------------------------------------------------------------------
(* The end of a process and the next one.                                  *)

LEMMA CloseKeeps == ASSUME LoopInv, Close PROVE LoopInv'
<1>1. /\ cmd.at = "idle" /\ opened /\ opened' = FALSE /\ page1' = Metadata
      /\ UNCHANGED <<Contents, catalog, auto_id, visible_seq, states, next_id, commit_seq>>
      /\ ref' = ref /\ prev' = ref /\ ended' = "closed" /\ UNCHANGED <<cmd, life, fresh>>
  BY DEF Close, close, Tables, txnVars, callVars, Contents, Entries
<1>2. ~Untouched'
  BY <1>1 DEF Untouched
<1>3. ASSUME life = 1
      PROVE  FileInv'
  <2>1. FileInv /\ MemoryInv /\ CmdInv
    BY <1>1, <1>3 DEF LoopInv
  <2>2. page1'.catalog = catalog /\ page1'.visible_seq = visible_seq /\ FileShows(ref)'
    BY <1>1, <2>1, SavedShows
  <2>3. QED BY <1>1, <2>1, <2>2 DEF FileInv, MemoryInv, Trees
<1>4. QED BY <1>1, <1>2, <1>3 DEF LoopInv, LoopTypes

LEMMA CrashKeeps == ASSUME LoopInv, Crash PROVE LoopInv'
<1>1. /\ opened /\ opened' = FALSE /\ ended' # "closed" /\ cmd' = Idle
      /\ UNCHANGED <<next_id, commit_seq, page1, Contents, life, ref, prev>>
  BY DEF Crash, txnVars, fileVars, Contents, Entries
<1>2. cmd'.at = "idle" /\ ~Untouched'
  BY <1>1 DEF Idle, Untouched
<1>3. ASSUME FileInv
      PROVE  FileInv'
  BY <1>1, <1>2, <1>3 DEF FileInv, FileShows, ShowsAt, Trees
<1>4. QED BY <1>1, <1>2, <1>3 DEF LoopInv, LoopTypes

\* A tree that is entered at its first leaf has all its leaves.
LEMMA LeavesStay ==
    ASSUME Shape, open
    PROVE  \A tb \in Table : /\ tree'[tb].leaves = tree[tb].leaves /\ IsTree(tree'[tb])
<1> SUFFICES ASSUME NEW tb \in Table
             PROVE  tree'[tb].leaves = tree[tb].leaves /\ IsTree(tree'[tb])
  OBVIOUS
<1>1. IsTree(tree[tb])
  BY DEF Shape
<1>2. CASE tree'[tb] = tree[tb]
  BY <1>1, <1>2
<1>3. CASE tree'[tb] = [tree[tb] EXCEPT !.index = <<>>]
  <2>1. tree'[tb] = [leaves |-> tree[tb].leaves, index |-> <<>>]
    BY <1>1, <1>3 DEF IsTree
  <2>2. tree'[tb].leaves = tree[tb].leaves /\ tree'[tb].index = <<>>
    BY <2>1
  <2>3. InTree(tree'[tb]) = InTree(tree[tb])
    BY <2>2 DEF InTree
  <2>4. QED BY <1>1, <2>1, <2>2, <2>3 DEF IsTree
<1>4. QED BY <1>2, <1>3 DEF open

\* The page the last process left is all that the next one starts from.
LEMMA OpenKeeps == ASSUME LoopInv, Shape, Open PROVE LoopInv'
<1>1. /\ ~opened /\ opened' = TRUE /\ life' = life + 1 /\ next_id' = 0 /\ commit_seq' = 0
      /\ visible_seq' = page1.visible_seq /\ catalog' = page1.catalog
      /\ UNCHANGED <<page1, cmd, ended, ref, prev>>
  BY DEF Open, open, loadMetadata
<1>c. Contents' = Contents
  <2>1. \A tb \in Table : tree'[tb].leaves = tree[tb].leaves
    BY LeavesStay DEF Open
  <2>2. QED BY <2>1 DEF Contents, Entries, InTree
<1>2. life \in Nat \ {0} /\ cmd.at = "idle"
  BY <1>1 DEF LoopInv, LoopTypes
<1>3. LoopTypes' /\ life' # 1
  BY <1>1, <1>2 DEF LoopTypes
<1>4. ASSUME life' = 2
      PROVE  NextLife'
  <2>1. FileInv
    BY <1>1, <1>2, <1>4 DEF LoopInv
  <2>2. Trees'
    BY <1>c, <2>1 DEF FileInv, Trees
  <2>3. \A rows : FileShows(rows) <=> \A tb \in catalog' : RowsAt(Contents'[tb], visible_seq') = rows[tb]
    BY <1>1, <1>c DEF FileShows, ShowsAt
  <2>4. ShowsAt(visible_seq, catalog, ref)' \/ ShowsAt(visible_seq, catalog, prev)'
    BY <1>1, <2>1, <2>3 DEF FileInv, ShowsAt
  <2>5. ended' = "closed" => ShowsAt(visible_seq, catalog, ref)'
    BY <1>1, <2>1, <2>3 DEF FileInv, ShowsAt
  <2>6. QED BY <1>1, <1>2, <2>1, <2>2, <2>4, <2>5 DEF NextLife, FileInv
<1>5. QED BY <1>3, <1>4 DEF LoopInv

-----------------------------------------------------------------------------
(* The theorems.                                                           *)

LEMMA LoopInit == Init => LoopInv
<1> SUFFICES ASSUME Init PROVE LoopInv
  OBVIOUS
<1>1. /\ states = [x \in Txn |-> "NotFound"] /\ next_id = 0 /\ commit_seq = 0
      /\ opened = TRUE /\ catalog = {} /\ auto_id = [tb \in Table |-> 0] /\ visible_seq = 0
      /\ tree = [tb \in Table |-> EmptyTree] /\ page1.visible_seq = 0 /\ page1.catalog = {}
      /\ cmd = Idle /\ cmd.at = "idle" /\ life = 1 /\ ref = [tb \in Table |-> {}]
  BY DEF Init, TxnInit, ProviderInit, Metadata, Idle
<1>2. \A tb \in Table : Contents[tb] = {} /\ ref[tb] = {}
  BY <1>1, EmptyHasNone DEF Contents, Entries
<1>c. Contents = [tb \in Table |-> {}]
  BY <1>2 DEF Contents
<1>3. Trees
  BY <1>2, <1>c DEF Trees, OneEach
<1>4. FileInv
  BY <1>1, <1>3 DEF FileInv, FileShows, ShowsAt
<1>5. MemoryInv
  BY <1>1, <1>2 DEF MemoryInv, ShowsAt
<1>6. CmdInv
  BY <1>1, <1>2 DEF CmdInv, Numbered, Busy, Committing, TxnState
<1>7. QED BY <1>1, <1>4, <1>5, <1>6 DEF LoopInv, LoopTypes

\* The rows an UPDATE or DELETE collects are rows of a table of the catalogue.
LEMMA CollectKeeps ==
    ASSUME LoopInv, NEW op \in {"update", "delete"}, NEW tb \in Table, Collect(op, tb)
    PROVE  LoopInv'
<1>1. PICK keys \in SUBSET {e.key : e \in scan(NewTxn, tb)} : Begin(op, tb, "write", keys)
  BY DEF Collect
<1>2. UNCHANGED providerVars
  BY DEF Collect
<1>3. ASSUME NEW e \in scan(NewTxn, tb)
      PROVE  tb \in catalog /\ e.key \in Key
  <2>1. tb \in catalog
    BY <1>3 DEF scan
  <2>2. PICK i \in DOMAIN tree[tb].leaves, k \in Key : e \in Newest(NewTxn, tree[tb].leaves[i], k)
    BY <1>3, <2>1 DEF scan
  <2>3. e.key = k
    BY <2>2 DEF Newest
  <2>4. QED BY <2>1, <2>2, <2>3
<1>4. keys \in SUBSET Key /\ (keys # {} => tb \in catalog)
  BY <1>3
<1>5. QED BY <1>1, <1>2, <1>4, BeginKeeps

LEMMA SelectKeeps == ASSUME LoopInv, NEW tb \in Table, Select(tb) PROVE LoopInv'
<1>1. Begin("select", tb, "write", {}) /\ UNCHANGED providerVars /\ {} \in SUBSET Key
  BY DEF Select
<1>2. QED BY <1>1, BeginKeeps

LEMMA InsertKeeps == ASSUME LoopInv, NEW tb \in Table, Insert(tb) PROVE LoopInv'
<1>1. PICK k \in Key : tb \in catalog /\ Begin("insert", tb, "write", {k})
  BY DEF Insert
<1>2. UNCHANGED providerVars /\ {k} \in SUBSET Key
  BY DEF Insert
<1>3. QED BY <1>1, <1>2, BeginKeeps

LEMMA StutterKeeps == ASSUME LoopInv, UNCHANGED vars PROVE LoopInv'
<1>1. UNCHANGED <<states, next_id, commit_seq, page1, Contents, opened, catalog, auto_id,
                  visible_seq, cmd, life, ended, fresh, ref, prev>>
  BY DEF vars, txnVars, providerVars, fileVars, memoryVars, loopVars, callVars, Contents, Entries
<1>2. FileInv => FileInv'
  BY <1>1 DEF FileInv, FileShows, ShowsAt, Trees
<1>3. MemoryInv => MemoryInv'
  BY <1>1 DEF MemoryInv, ShowsAt
<1>4. CmdInv => CmdInv'
  <2>1. (Busy' <=> Busy) /\ (Committing' <=> Committing)
    BY <1>1 DEF Busy, Committing
  <2>2. Numbered => Numbered'
    BY <1>1, <2>1 DEF Numbered, Own
  <2>3. Running => Running'
    BY <1>1 DEF Running, Own, Proper, IsCommand
  <2>4. Writing => Writing'
    BY <1>1 DEF Writing, Own
  <2>5. Stamping => Stamping'
    BY <1>1 DEF Stamping, Own, ToStamp
  <2>6. QED BY <1>1, <2>1, <2>2, <2>3, <2>4, <2>5 DEF CmdInv, Idle
<1>5. NextLife => NextLife'
  BY <1>1 DEF NextLife, ShowsAt, Trees
<1>6. LoopTypes' /\ (Untouched' <=> Untouched)
  BY <1>1 DEF LoopInv, LoopTypes, Untouched
<1>7. QED BY <1>1, <1>2, <1>3, <1>4, <1>5, <1>6 DEF LoopInv

LEMMA ShapeInit == Init => Shape
BY EmptyHasNone DEF Init, ProviderInit, Shape

\* Every write of an entry leaves a tree, in this process and in the next.
LEMMA ShapeStep == Shape /\ [Next]_vars => Shape'
<1> SUFFICES ASSUME Shape, [Next]_vars PROVE Shape'
  OBVIOUS
<1>s. \A tb \in Table : IsTree(tree[tb])
  BY DEF Shape
<1>u. ASSUME tree' = tree
      PROVE  Shape'
  BY <1>u DEF Shape
<1>a. ASSUME NEW tb, NEW e, AddEntry(tb, e)
      PROVE  Shape'
  <2>1. tree' = [tree EXCEPT ![tb] = Inserted(tree[tb], e)]
    BY <1>a DEF AddEntry
  <2>2. \A c \in Table : tree'[c] = tree[c] \/ (c = tb /\ tree'[c] = Inserted(tree[c], e))
    BY <2>1 DEF Shape
  <2>3. \A c \in Table : IsTree(tree'[c])
    BY <1>s, <2>2, InsertedIsTree
  <2>4. QED BY <2>1, <2>3 DEF Shape
<1>1. CASE UNCHANGED vars
  BY <1>1, <1>u DEF vars, providerVars, fileVars
<1>2. ASSUME NEW tb \in Table, Select(tb) \/ Insert(tb) \/ InsertAuto(tb)
      PROVE  Shape'
  <2>1. CASE Select(tb) \/ Insert(tb)
    BY <1>u, <2>1 DEF Select, Insert, providerVars, fileVars
  <2>2. CASE InsertAuto(tb)
    BY <1>a, <2>2 DEF InsertAuto, putAuto
  <2>3. QED BY <1>2, <2>1, <2>2
<1>3. ASSUME NEW tb \in Table, Collect("update", tb) \/ Collect("delete", tb)
      PROVE  Shape'
  BY <1>3, <1>u DEF Collect, providerVars, fileVars
<1>4. ASSUME NEW tb \in Table, Create(tb) \/ Drop(tb)
      PROVE  Shape'
  <2>1. tree' = [tree EXCEPT ![tb] = EmptyTree]
    BY <1>4 DEF Create, createTable, Drop, dropTable
  <2>2. \A c \in Table : IsTree(tree'[c])
    BY <1>s, <2>1, EmptyHasNone DEF Shape
  <2>3. QED BY <2>1, <2>2 DEF Shape
<1>5. ASSUME NEW tb \in Table, NEW new \in Table, Rename(tb, new)
      PROVE  Shape'
  <2>1. tree' = [tree EXCEPT ![new] = tree[tb], ![tb] = EmptyTree]
    BY <1>5 DEF Rename, renameTable
  <2>2. \A c \in Table : tree'[c] \in {tree[c], tree[tb], EmptyTree}
    BY <2>1 DEF Shape
  <2>3. \A c \in Table : IsTree(tree'[c])
    BY <1>s, <2>2, EmptyHasNone
  <2>4. QED BY <2>1, <2>3 DEF Shape
<1>6. CASE Refused \/ CommitTxn \/ SaveMeta \/ Finish \/ Refresh \/ Close \/ Crash
  BY <1>6, <1>u DEF Refused, CommitTxn, SaveMeta, saveMetadata, Finish, Advance, Refresh,
                    refreshMetadata, Close, close, Crash, providerVars, fileVars
<1>7. CASE Write \/ StampEntry
  BY <1>7, <1>a DEF Write, put, remove, StampEntry, Stamp
<1>8. CASE Open
  BY <1>8, LeavesStay DEF Open, open, Shape
<1>9. QED BY <1>1, <1>2, <1>3, <1>4, <1>5, <1>6, <1>7, <1>8 DEF Next

LEMMA LoopStep == LoopInv /\ Shape /\ [Next]_vars => LoopInv'
<1> SUFFICES ASSUME LoopInv, Shape, [Next]_vars PROVE LoopInv'
  OBVIOUS
<1>1. CASE UNCHANGED vars
  BY <1>1, StutterKeeps
<1>2. ASSUME NEW tb \in Table, Select(tb) \/ Insert(tb) \/ InsertAuto(tb)
      PROVE  LoopInv'
  BY <1>2, SelectKeeps, InsertKeeps, InsertAutoKeeps
<1>3. ASSUME NEW tb \in Table, Collect("update", tb) \/ Collect("delete", tb)
      PROVE  LoopInv'
  BY <1>3, CollectKeeps
<1>4. ASSUME NEW tb \in Table, Create(tb) \/ Drop(tb) \/ \E new \in Table : Rename(tb, new)
      PROVE  LoopInv'
  BY <1>4, CreateKeeps, DropKeeps, RenameKeeps
<1>5. CASE Refused \/ Write \/ CommitTxn \/ StampEntry \/ SaveMeta \/ Finish
  BY <1>5, RefusedKeeps, WriteKeeps, CommitTxnKeeps, StampKeeps, SaveMetaKeeps, FinishKeeps
<1>6. CASE Refresh \/ Close \/ Crash \/ Open
  BY <1>6, RefreshKeeps, CloseKeeps, CrashKeeps, OpenKeeps
<1>7. QED BY <1>1, <1>2, <1>3, <1>4, <1>5, <1>6 DEF Next

LEMMA LoopAlways == Spec => [](LoopInv /\ Shape)
<1>1. Init => LoopInv /\ Shape
  BY LoopInit, ShapeInit
<1>2. (LoopInv /\ Shape) /\ [Next]_vars => (LoopInv /\ Shape)'
  BY LoopStep, ShapeStep
<1>3. QED BY <1>1, <1>2, PTL DEF Spec

\* What the invariant says of the entries is what a scan shows, with what it adds.
LEMMA ScanShows ==
    ASSUME Trees, Shape, visible_seq \in Nat, catalog \subseteq Table
    PROVE  \A rows : ShowsAt(visible_seq, catalog, rows) => Shows(rows)
BY ViewOfRows DEF Shows, ShowsAt

\* Through the first process of a file, at each entry and page write of each commit
\* too, a scan gives every row that was answered for, and besides them only old
\* versions of keys whose committed versions a split has put into two leaves: commit
\* stamps entries beyond visible_seq_ and advances it last (commit, lines 445-479),
\* and the leaf of the newest version shows it (scan, BTree.cpp:480-514).
THEOREM FirstLifeViewHolds == Spec => []FirstLifeView
<1>1. LoopInv /\ Shape => FirstLifeView
  BY ScanShows DEF LoopInv, FirstLifeView, FileInv, MemoryInv
<1>2. QED BY <1>1, LoopAlways, PTL

\* A file that close has left shows the next process every row that was answered
\* for, with the same exception for keys that a split has cut: close writes the
\* metadata page with the visible_seq_ of the last commit (close, lines 158-175).
THEOREM CleanRestartHolds == Spec => []CleanRestartKeepsAll
<1>1. LoopInv /\ Shape => CleanRestartKeepsAll
  BY ScanShows DEF LoopInv, CleanRestartKeepsAll, NextLife
<1>2. QED BY <1>1, LoopAlways, PTL

\* The first process may be killed between any two writes of an entry or of the
\* metadata page: the next one sees every row of the last answer, or every row of
\* the one before it, in all tables alike, and besides them old versions of cut keys
\* only, because a metadata page shows a commit when its entries are all stamped
\* (commit, lines 469-476).  A kill between commands may lose the last commit, which
\* the file's header excludes: RestartShowsLastCommit does not hold.
THEOREM CrashLosesWholeCommitsHolds == Spec => []CrashLosesWholeCommits
<1>1. LoopInv /\ Shape => CrashLosesWholeCommits
  BY ScanShows DEF LoopInv, CrashLosesWholeCommits, NextLife
<1>2. QED BY <1>1, LoopAlways, PTL
=============================================================================
