------------------------ MODULE InMemoryStorageProofs ------------------------
(***************************************************************************)
(* What each method of the in-memory engine does to the versions of a      *)
(* table, for any tables, keys and transactions: the facts that the proofs *)
(* about the engine's users cite instead of its nested functions.          *)
(***************************************************************************)
EXTENDS InMemoryStorageEngine, FiniteSetTheorems, TLAPS

VersionsOf(tb) == UNION {Range(tables[tb][k]) : k \in Key}
NewVersion(x, dead) == [txn |-> x, seq |-> 0, tombstone |-> dead]

LEMMA VersionsByTable == Versions = UNION {VersionsOf(tb) : tb \in Table}
<1>1. ASSUME NEW v \in Versions PROVE v \in UNION {VersionsOf(tb) : tb \in Table}
  BY DEF Versions, VersionsOf
<1>2. ASSUME NEW v \in UNION {VersionsOf(tb) : tb \in Table} PROVE v \in Versions
  BY DEF Versions, VersionsOf
<1>3. QED BY <1>1, <1>2

\* A version is in a table exactly when it is at some place of it.
LEMMA VersionAt ==
    ASSUME NEW tb, NEW v
    PROVE  v \in VersionsOf(tb) <=> \E k \in Key : \E i \in DOMAIN tables[tb][k] : v = tables[tb][k][i]
BY DEF VersionsOf, Range

LEMMA VersionAtNext ==
    ASSUME NEW tb, NEW v
    PROVE  v \in VersionsOf(tb)' <=> \E k \in Key : \E i \in DOMAIN tables'[tb][k] : v = tables'[tb][k][i]
BY DEF VersionsOf, Range

LEMMA VersionTypes ==
    ASSUME StorageTypeOK, NEW tb \in Table, NEW v \in VersionsOf(tb)
    PROVE  v \in Version /\ v.txn \in Txn /\ v.seq \in Nat
<1>0. PICK k \in Key : \E i \in DOMAIN tables[tb][k] : v = tables[tb][k][i]
  BY VersionAt
<1>1. PICK i \in DOMAIN tables[tb][k] : v = tables[tb][k][i]
  BY <1>0
<1>2. tables[tb][k] \in Seq(Version)
  BY DEF StorageTypeOK
<1>3. v \in Version
  BY <1>1, <1>2
<1>4. QED BY <1>3 DEF Version

\* put and remove add one staged version, to one table.
LEMMA StageEffect ==
    ASSUME StorageTypeOK, NEW x \in Txn, NEW tb \in Table, NEW k, NEW dead \in BOOLEAN,
           Stage(x, tb, k, dead)
    PROVE  /\ tables' \in [Table -> [Key -> Seq(Version)]]
           /\ \A c \in Table : \A v \in VersionsOf(c)' :
                 v \in VersionsOf(c) \/ (c = tb /\ v = NewVersion(x, dead))
<1> DEFINE new == NewVersion(x, dead)
           s == tables[tb][k]
           row == [tables[tb] EXCEPT ![k] = Append(s, new)]
<1>1. new \in Version
  BY DEF NewVersion, Version
<1>2. tables' = [tables EXCEPT ![tb] = row]
  BY DEF Stage, NewVersion
<1>3. tables[tb] \in [Key -> Seq(Version)]
  BY DEF StorageTypeOK
<1>4. ASSUME NEW l \in Key
      PROVE  /\ row[l] \in Seq(Version)
             /\ \A i \in DOMAIN row[l] : row[l][i] = new \/ \E j \in DOMAIN tables[tb][l] : row[l][i] = tables[tb][l][j]
  <2>1. CASE l # k
    BY <1>3, <2>1
  <2>2. CASE l = k
    <3>1. s \in Seq(Version) /\ row[l] = Append(s, new)
      BY <1>3, <2>2
    <3> HIDE DEF s, new, row
    <3>2. /\ row[l] \in Seq(Version)
          /\ \A i \in DOMAIN row[l] : (i \in DOMAIN s /\ row[l][i] = s[i]) \/ row[l][i] = new
      BY <1>1, <3>1
    <3>3. QED BY <2>2, <3>2 DEF s
  <2>3. QED BY <2>1, <2>2
<1> HIDE DEF new
<1>5. row \in [Key -> Seq(Version)]
  BY <1>3, <1>4
<1> HIDE DEF row
<1>6. tables' \in [Table -> [Key -> Seq(Version)]]
  BY <1>2, <1>5 DEF StorageTypeOK
<1>7. ASSUME NEW c \in Table, NEW v \in VersionsOf(c)'
      PROVE  v \in VersionsOf(c) \/ (c = tb /\ v = new)
  <2>0. PICK l \in Key : \E i \in DOMAIN tables'[c][l] : v = tables'[c][l][i]
    BY VersionAtNext
  <2>1. PICK i \in DOMAIN tables'[c][l] : v = tables'[c][l][i]
    BY <2>0
  <2>2. CASE c # tb
    <3>1. tables'[c] = tables[c]
      BY <1>2, <2>2 DEF StorageTypeOK
    <3>2. QED BY <2>1, <3>1, VersionAt
  <2>3. CASE c = tb
    <3>1. tables'[c] = row
      BY <1>2, <2>3 DEF StorageTypeOK
    <3>2. v = new \/ \E j \in DOMAIN tables[c][l] : v = tables[c][l][j]
      BY <1>4, <2>1, <2>3, <3>1
    <3>3. QED BY <2>3, <3>2, VersionAt
  <2>4. QED BY <2>2, <2>3
<1>8. QED BY <1>6, <1>7 DEF new

\* commit stamps the staged versions of x and leaves the others alone; what is
\* visible never falls behind.
LEMMA CommitEffect ==
    ASSUME StorageTypeOK, NEW x \in Txn, NEW q \in Nat, commit(x, q)
    PROVE  /\ StorageTypeOK'
           /\ visible_seq' >= visible_seq /\ visible_seq' >= q
           /\ visible_seq' \in {visible_seq, q}
           /\ \A c \in Table : \A w \in VersionsOf(c)' :
                 \E v \in VersionsOf(c) : /\ w.txn = v.txn
                                          /\ IF Staged(x, v) THEN w.seq = q ELSE w = v
<1> DEFINE Stamp(v) == IF Staged(x, v) THEN [v EXCEPT !.seq = q] ELSE v
           Stamped(s) == [i \in DOMAIN s |-> Stamp(s[i])]
<1>1. tables' = [tb \in Table |-> [k \in Key |-> Stamped(tables[tb][k])]]
  BY DEF commit
<1>2. ASSUME NEW v \in Version
      PROVE  /\ Stamp(v) \in Version
             /\ Stamp(v).txn = v.txn
             /\ IF Staged(x, v) THEN Stamp(v).seq = q ELSE Stamp(v) = v
  BY DEF Version
<1> HIDE DEF Stamp
<1>3. ASSUME NEW s \in Seq(Version)
      PROVE  /\ Stamped(s) \in Seq(Version)
             /\ DOMAIN Stamped(s) = DOMAIN s
             /\ \A i \in DOMAIN s : Stamped(s)[i] = Stamp(s[i])
  BY <1>2
<1> HIDE DEF Stamped
<1>4. ASSUME NEW tb \in Table, NEW k \in Key
      PROVE  tables[tb][k] \in Seq(Version) /\ tables'[tb][k] = Stamped(tables[tb][k])
  BY <1>1 DEF StorageTypeOK
<1>5. tables' \in [Table -> [Key -> Seq(Version)]]
  BY <1>1, <1>3, <1>4
<1>6. visible_seq \in Nat
  BY DEF StorageTypeOK
<1>7. /\ visible_seq' >= visible_seq /\ visible_seq' >= q
      /\ visible_seq' \in {visible_seq, q}
  <2> DEFINE S == {visible_seq, q}
  <2>1. \E m \in S : \A y \in S : m >= y
    <3>1. CASE visible_seq >= q
      BY <1>6, <3>1
    <3>2. CASE q >= visible_seq
      BY <1>6, <3>2
    <3>3. QED BY <1>6, <3>1, <3>2
  <2>2. visible_seq' = CHOOSE m \in S : \A y \in S : m >= y
    BY DEF commit, Max
  <2>3. visible_seq' \in S /\ \A y \in S : visible_seq' >= y
    BY <2>1, <2>2
  <2>4. QED BY <2>3
<1>8. ASSUME NEW c \in Table, NEW w \in VersionsOf(c)'
      PROVE  \E v \in VersionsOf(c) : /\ w.txn = v.txn
                                      /\ IF Staged(x, v) THEN w.seq = q ELSE w = v
  <2>1. PICK k \in Key : \E i \in DOMAIN tables'[c][k] : w = tables'[c][k][i]
    BY VersionAtNext
  <2>2. PICK i \in DOMAIN tables'[c][k] : w = tables'[c][k][i]
    BY <2>1
  <2>3. i \in DOMAIN tables[c][k] /\ w = Stamp(tables[c][k][i])
    BY <1>3, <1>4, <2>2
  <2>4. tables[c][k][i] \in VersionsOf(c)
    BY <2>3, VersionAt
  <2>5. tables[c][k][i] \in Version
    BY <2>4, VersionTypes
  <2>6. QED BY <1>2, <2>3, <2>4, <2>5
<1>9. StorageTypeOK'
  <2>1. UNCHANGED auto_id
    BY DEF commit
  <2>2. QED BY <1>5, <1>6, <1>7, <2>1 DEF StorageTypeOK
<1>10. QED BY <1>7, <1>8, <1>9

\* The n-th version left is one of those left: every n up to their number is the
\* count of those up to some one of them, since the counts are all different.
LEMMA UnstagedIsLeft ==
    ASSUME NEW x, NEW s \in Seq(Version)
    PROVE  /\ Unstaged(x, s) \in Seq(Version)
           /\ \A n \in DOMAIN Unstaged(x, s) :
                 \E i \in DOMAIN s : ~Staged(x, s[i]) /\ Unstaged(x, s)[n] = s[i]
<1> DEFINE left == {i \in DOMAIN s : ~Staged(x, s[i])}
           UpTo(i) == {j \in left : j <= i}
           m == Cardinality(left)
           Is(n, i) == Cardinality(UpTo(i)) = n
<1>1. left \subseteq 1..Len(s) /\ left \subseteq DOMAIN s /\ Len(s) \in Nat
  OBVIOUS
<1>2. IsFiniteSet(left) /\ m \in Nat
  <2>1. IsFiniteSet(1..Len(s))
    BY <1>1, FS_Interval
  <2>2. left \in SUBSET (1..Len(s))
    BY <1>1
  <2> HIDE DEF left
  <2>3. IsFiniteSet(left)
    BY <2>1, <2>2, FS_Subset
  <2>4. QED BY <2>3, FS_CardinalityType
<1>3. left \subseteq Nat
  BY <1>1
<1>4. \A i \in left : ~Staged(x, s[i])
  OBVIOUS
<1> HIDE DEF left, m
<1>5. ASSUME NEW i \in left
      PROVE  IsFiniteSet(UpTo(i)) /\ Cardinality(UpTo(i)) \in 1..m
  <2>1. UpTo(i) \in SUBSET left /\ i \in UpTo(i)
    BY <1>3
  <2>2. IsFiniteSet(UpTo(i)) /\ Cardinality(UpTo(i)) <= m /\ Cardinality(UpTo(i)) \in Nat
    BY <1>2, <2>1, FS_Subset, FS_CardinalityType DEF m
  <2>3. Cardinality(UpTo(i)) # 0
    BY <2>1, <2>2, FS_EmptySet
  <2>4. QED BY <1>2, <2>2, <2>3
<1>6. ASSUME NEW i \in left, NEW j \in left, i < j
      PROVE  Cardinality(UpTo(i)) # Cardinality(UpTo(j))
  <2>0. i \in Nat /\ j \in Nat
    BY <1>3
  <2>1. UpTo(i) \in SUBSET UpTo(j) /\ j \in UpTo(j) /\ j \notin UpTo(i)
    <3>1. \A l \in Nat : l <= i => l <= j
      BY <1>6, <2>0
    <3>2. UpTo(i) \in SUBSET UpTo(j)
      BY <1>3, <3>1
    <3>3. j <= j /\ ~(j <= i)
      BY <1>6, <2>0
    <3>4. QED BY <3>2, <3>3
  <2>2. QED BY <1>5, <2>1, FS_Subset
<1>7. ASSUME NEW n \in 1..m
      PROVE  \E i \in left : Is(n, i)
  <2> SUFFICES ASSUME \A i \in left : ~Is(n, i)
               PROVE  FALSE
    OBVIOUS
  <2> DEFINE f == [i \in left |-> Cardinality(UpTo(i))]
             T == (1..m) \ {n}
  <2>1. f \in [left -> T]
    BY <1>5
  <2>2. IsFiniteSet(1..m) /\ Cardinality(1..m) = m
    BY <1>2, FS_Interval
  <2>3. IsFiniteSet(T) /\ Cardinality(T) < Cardinality(left)
    <3>1. IsFiniteSet(T) /\ Cardinality(T) = m - 1
      BY <2>2, FS_RemoveElement
    <3>2. QED BY <1>2, <3>1 DEF m
  <2> HIDE DEF T, f
  <2>4. PICK i \in left, j \in left : i # j /\ f[i] = f[j]
    BY <1>2, <2>1, <2>3, FS_PigeonHole
  <2>5. i < j \/ j < i
    BY <1>3, <2>4
  <2>6. QED BY <1>6, <2>4, <2>5 DEF f
<1> DEFINE Place(n) == CHOOSE i \in left : Is(n, i)
<1>8. ASSUME NEW n \in 1..m
      PROVE  Place(n) \in left
  BY <1>7
<1> DEFINE u == [n \in 1..m |-> s[Place(n)]]
<1>9. Unstaged(x, s) = u
  BY DEF Unstaged, left, m
<1> HIDE DEF UpTo, Is, Place
<1>10. u \in Seq(Version)
  BY <1>1, <1>2, <1>8
<1>11. ASSUME NEW n \in DOMAIN u
       PROVE  \E i \in DOMAIN s : ~Staged(x, s[i]) /\ u[n] = s[i]
  BY <1>1, <1>4, <1>8
<1>12. QED BY <1>9, <1>10, <1>11

\* abort leaves versions that were there, and none that x has staged.
LEMMA AbortEffect ==
    ASSUME StorageTypeOK, NEW x \in Txn, abort(x)
    PROVE  /\ StorageTypeOK' /\ visible_seq' = visible_seq
           /\ \A c \in Table : \A v \in VersionsOf(c)' : v \in VersionsOf(c) /\ ~Staged(x, v)
<1>1. /\ tables' = [tb \in Table |-> [k \in Key |-> Unstaged(x, tables[tb][k])]]
      /\ visible_seq' = visible_seq
  BY DEF abort
<1>2. ASSUME NEW tb \in Table, NEW k \in Key
      PROVE  /\ tables[tb][k] \in Seq(Version)
             /\ tables'[tb][k] = Unstaged(x, tables[tb][k])
  BY <1>1 DEF StorageTypeOK
<1>3. tables' \in [Table -> [Key -> Seq(Version)]]
  BY <1>1, <1>2, UnstagedIsLeft
<1>4. auto_id' \in [Table -> 0..MaxKey]
  <2> DEFINE Empty(ts, tb) == \A k \in Key : ts[tb][k] = <<>>
  <2>1. auto_id' = [tb \in Table |-> IF Empty(tables', tb) /\ ~Empty(tables, tb)
                                     THEN 0 ELSE auto_id[tb]]
    BY <1>1 DEF abort
  <2> HIDE DEF Empty
  <2>2. 0 \in 0..MaxKey /\ auto_id \in [Table -> 0..MaxKey]
    BY KeyAssumption DEF StorageTypeOK
  <2>3. QED BY <2>1, <2>2
<1>5. ASSUME NEW c \in Table, NEW v \in VersionsOf(c)'
      PROVE  v \in VersionsOf(c) /\ ~Staged(x, v)
  <2>1. PICK k \in Key : \E i \in DOMAIN tables'[c][k] : v = tables'[c][k][i]
    BY VersionAtNext
  <2>2. PICK i \in DOMAIN tables'[c][k] : v = tables'[c][k][i]
    BY <2>1
  <2>3. PICK j \in DOMAIN tables[c][k] : ~Staged(x, tables[c][k][j]) /\ v = tables[c][k][j]
    BY <1>2, <2>2, UnstagedIsLeft
  <2>4. QED BY <2>3, VersionAt
<1>6. QED BY <1>1, <1>3, <1>4, <1>5 DEF StorageTypeOK

\* The three writes of the engine's users.
LEMMA WriteEffect ==
    ASSUME StorageTypeOK, NEW x \in Txn, NEW tb \in Table, NEW k,
           put(x, tb, k) \/ remove(x, tb, k) \/ putAuto(x, tb)
    PROVE  /\ StorageTypeOK' /\ visible_seq' = visible_seq
           /\ \A c \in Table : \A v \in VersionsOf(c)' :
                 v \in VersionsOf(c) \/ (c = tb /\ v.txn = x /\ v.seq = 0)
<1>0. PICK l : \E dead \in BOOLEAN : Stage(x, tb, l, dead)
  BY DEF put, remove, putAuto
<1>1. PICK dead \in BOOLEAN : Stage(x, tb, l, dead)
  BY <1>0
<1>2. /\ tables' \in [Table -> [Key -> Seq(Version)]]
      /\ \A c \in Table : \A v \in VersionsOf(c)' :
            v \in VersionsOf(c) \/ (c = tb /\ v = NewVersion(x, dead))
  BY <1>1, StageEffect
<1>3. auto_id' \in [Table -> 0..MaxKey] /\ visible_seq' = visible_seq
  <2>1. CASE put(x, tb, k) \/ remove(x, tb, k)
    BY <2>1 DEF put, remove, StorageTypeOK
  <2>2. CASE putAuto(x, tb)
    <3>1. auto_id \in [Table -> 0..MaxKey] /\ auto_id[tb] + 1 \in 0..MaxKey
      BY <2>2, KeyAssumption DEF putAuto, StorageTypeOK
    <3>2. QED BY <2>2, <3>1 DEF putAuto
  <2>3. QED BY <2>1, <2>2
<1>4. QED BY <1>2, <1>3 DEF StorageTypeOK, NewVersion
=============================================================================
