------------------------- MODULE ShardedStorageEngine -------------------------
(***************************************************************************)
(* includes/opendb/storage/ShardedStorageEngine.hpp: one engine made of    *)
(* several in-memory engines (InMemoryStorageEngine.hpp), the shards.  A   *)
(* put goes to the shard that the table's partition policy picks for the   *)
(* row, or else to the one its key hashes to; get and remove always follow *)
(* the key; scan, commit and abort visit the shards one after the other,   *)
(* and nothing holds the shards together meanwhile.                        *)
(*                                                                         *)
(* Values are numbers, 0 is null.  A row is its _id and one other column,  *)
(* c.  hash % n is any function, as are the shards a Range or List policy  *)
(* names: a policy is the column it looks at and a shard for each value.   *)
(***************************************************************************)
EXTENDS OpenDB, VersionList, Sequences, FiniteSetsExt, SequencesExt

CONSTANTS
    ShardCount,    \* how many child engines there are
    MaxKey,        \* bound: the values of _id are 1..MaxKey
    MaxCol,        \* bound: the values of c are 1..MaxCol
    HashOf         \* the shard a value hashes to

Shard == 0 .. ShardCount - 1
NoShard == ShardCount
NullKey == 0
Key == 1 .. MaxKey
Col == 1 .. MaxCol
Value == 0 .. Max({MaxKey, MaxCol})

ASSUME BoundAssumption == MaxKey \in Nat /\ MaxCol \in Nat \ {0}
ASSUME ShardAssumption == ShardCount \in Nat \ {0} /\ HashOf \in [Value -> Shard]

Policy == [column : {"none", "id", "c"}, shardOf : [Value -> Shard \cup {NoShard}]]
Unpartitioned == [column |-> "none", shardOf |-> [v \in Value |-> NoShard]]

VARIABLES
    shards,        \* per shard, tables_: table -> key -> versions
    auto_id,       \* per shard, auto_id_
    visible_seq,   \* per shard, visible_seq_
    policies       \* policies_

engineVars == <<shards, auto_id, visible_seq, policies>>

Version == [txn : Txn \cup {0}, seq : Nat, tombstone : BOOLEAN, c : Col \cup {0}]
NoRow == [txn |-> 0, c |-> 0]     \* std::nullopt

-----------------------------------------------------------------------------
(* Routing.                                                                *)

routeByKey(id) == HashOf[id]

\* A row that lacks the partition column, or whose value no range or list names,
\* is not pinned.
routeByPolicy(p, id, c) ==
    IF p.column = "none" \/ (p.column = "id" /\ id = NullKey) THEN NoShard
    ELSE p.shardOf[IF p.column = "id" THEN id ELSE c]

putRoute(tb, id, c) ==
    LET pinned == routeByPolicy(policies[tb], id, c)
    IN  IF pinned # NoShard THEN pinned ELSE routeByKey(id)

-----------------------------------------------------------------------------
(* Reads.                                                                  *)

isVisible(s, x, v) == IF v.seq = 0 THEN v.txn = x ELSE v.seq <= visible_seq[s]

\* The newest visible version of a key on a shard, if it is a row.
childGet(s, x, tb, id) ==
    LET vs == shards[s][tb][id]
        seen == {i \in DOMAIN vs : isVisible(s, x, vs[i])}
    IN  IF seen = {} \/ vs[Max(seen)].tombstone THEN NoRow
        ELSE [txn |-> vs[Max(seen)].txn, c |-> vs[Max(seen)].c]

get(x, tb, id) == childGet(routeByKey(id), x, tb, id)

\* The rows one shard contributes to a scan.
childScan(s, x, tb) ==
    {[id |-> k, c |-> childGet(s, x, tb, k).c] :
        k \in {k2 \in Key : childGet(s, x, tb, k2) # NoRow}}

-----------------------------------------------------------------------------
(* Writes.                                                                 *)

Stage(s, x, tb, id, dead, c) ==
    shards' = [shards EXCEPT ![s][tb][id] =
                 Append(@, [txn |-> x, seq |-> 0, tombstone |-> dead, c |-> c])]

\* A null key is numbered by the shard it goes to.
PutKey(tb, id, c) ==
    IF id = NullKey THEN auto_id[putRoute(tb, id, c)][tb] + 1 ELSE id

put(x, tb, id, c) ==
    LET s == putRoute(tb, id, c)
    IN  /\ PutKey(tb, id, c) \in Key
        /\ Stage(s, x, tb, PutKey(tb, id, c), FALSE, c)
        /\ auto_id' = [auto_id EXCEPT ![s][tb] = IF id = NullKey THEN @ + 1 ELSE @]
        /\ UNCHANGED <<visible_seq, policies>>

remove(x, tb, id) ==
    /\ Stage(routeByKey(id), x, tb, id, TRUE, 0)
    /\ UNCHANGED <<auto_id, visible_seq, policies>>

\* One turn of commit's loop.
commitChild(s, x, seq) ==
    /\ shards' = [shards EXCEPT ![s] =
          [tb \in Table |-> [k \in Key |->
              [i \in DOMAIN @[tb][k] |->
                  IF Staged(x, @[tb][k][i]) THEN [@[tb][k][i] EXCEPT !.seq = seq]
                  ELSE @[tb][k][i]]]]]
    /\ visible_seq' = [visible_seq EXCEPT ![s] = Max({@, seq})]
    /\ UNCHANGED <<auto_id, policies>>

\* One turn of abort's loop: the shard forgets the table, and with it the number
\* of the last row it named, when no version is left.
abortChild(s, x) ==
    LET left(tb, k) == Unstaged(x, shards[s][tb][k])
    IN  /\ shards' = [shards EXCEPT ![s] = [tb \in Table |-> [k \in Key |-> left(tb, k)]]]
        /\ auto_id' = [auto_id EXCEPT ![s] =
              [tb \in Table |-> IF \A k \in Key : left(tb, k) = <<>> THEN 0 ELSE @[tb]]]
        /\ UNCHANGED <<visible_seq, policies>>

-----------------------------------------------------------------------------
(* Policies.                                                               *)

installPartitionPolicy(tb, p) ==
    policies' = [policies EXCEPT ![tb] = p] /\ UNCHANGED <<shards, auto_id, visible_seq>>

clearPartitionPolicy(tb) == installPartitionPolicy(tb, Unpartitioned)

EngineTypeOK ==
    /\ shards \in [Shard -> [Table -> [Key -> Seq(Version)]]]
    /\ auto_id \in [Shard -> [Table -> 0 .. MaxKey]]
    /\ visible_seq \in [Shard -> Nat]
    /\ policies \in [Table -> Policy]
=============================================================================
