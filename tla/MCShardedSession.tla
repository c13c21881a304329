--------------------------- MODULE MCShardedSession ---------------------------
(* Two shards: odd values hash to shard 1, even ones and null to shard 0.  *)
(* The policies: none, the hash of _id, ranges of _id that disagree with   *)
(* the hash, and the hash of the other column.                             *)
EXTENDS ShardedSession

MCSymmetry == Permutations(Table) \cup Permutations(DdlThread)
MCTxn == 1 .. MaxTxn
MCHash == [v \in 0 .. MaxKey |-> v % 2]
MCRanges == [v \in 0 .. MaxKey |-> IF v = 0 THEN NoShard ELSE IF v = 1 THEN 0 ELSE 1]
MCPolicies ==
    {Unpartitioned,
     [column |-> "id", shardOf |-> MCHash],
     [column |-> "id", shardOf |-> MCRanges],
     [column |-> "c", shardOf |-> MCHash]}
=============================================================================
