------------------------- MODULE CachingStorageEngine -------------------------
(***************************************************************************)
(* includes/opendb/storage/CachingStorageEngine.hpp over the sharded       *)
(* engine: reads outside any transaction (txn 0) go through a map from     *)
(* (table, key) to the row last read.  A read that misses reads the engine *)
(* and fills the map, in two separate steps; put and remove write to the   *)
(* engine and then erase the map's entry for the key THEY WERE GIVEN;      *)
(* commit and abort leave the map alone.                                   *)
(***************************************************************************)
EXTENDS ShardedStorageEngine

CONSTANT Reader    \* the threads that read outside transactions

VARIABLES
    cache,         \* cache_: table -> key -> an entry or Unset
    lookup         \* per reader, the locals of get

cacheVars == <<cache, lookup>>

Unset == [set |-> FALSE, row |-> NoRow, quiet |-> TRUE]

\* quiet is history, not a field of the code: no write of the key was staged when
\* the engine was read, and none was made before the entry was stored.
Entry == [set : BOOLEAN, row : [txn : Txn \cup {0}, c : Col \cup {0}], quiet : BOOLEAN]

NoLookup == [pc |-> "idle", table |-> "-", id |-> 0, row |-> NoRow, quiet |-> TRUE]

CacheInit ==
    /\ cache = [tb \in Table |-> [k \in Key \cup {NullKey} |-> Unset]]
    /\ lookup = [r \in Reader |-> NoLookup]

\* get(txn 0), a miss: a hit changes nothing.
GetMiss(r, tb, id) ==
    /\ lookup[r] = NoLookup
    /\ cache[tb][id] = Unset
    /\ lookup' = [lookup EXCEPT ![r] = [@ EXCEPT !.pc = "read", !.table = tb, !.id = id]]
    /\ UNCHANGED cache

StagedWrites(tb, id) ==
    \E s \in Shard : \E i \in DOMAIN shards[s][tb][id] : shards[s][tb][id][i].seq = 0

GetInner(r) ==
    LET l == lookup[r]
    IN  /\ l.pc = "read"
        /\ lookup' = [lookup EXCEPT ![r].pc = "fill",
                                    ![r].row = get(0, l.table, l.id),
                                    ![r].quiet = ~StagedWrites(l.table, l.id)]
        /\ UNCHANGED cache

Fill(r) ==
    LET l == lookup[r]
    IN  /\ l.pc = "fill"
        /\ cache' = [cache EXCEPT ![l.table][l.id] =
                       [set |-> TRUE, row |-> l.row, quiet |-> l.quiet]]
        /\ lookup' = [lookup EXCEPT ![r] = NoLookup]

\* The history of the readers that are about to store the row of this key.
Overtaken(tb, id) ==
    /\ lookup' = [r \in Reader |->
                    IF lookup[r].table = tb /\ lookup[r].id = id
                    THEN [lookup[r] EXCEPT !.quiet = FALSE] ELSE lookup[r]]
    /\ UNCHANGED cache

\* Mutant: the entry stays.
BugInvalidate(tb, id) == UNCHANGED cacheVars

invalidate(tb, id) ==
    /\ cache' = [cache EXCEPT ![tb][id] = Unset]
    /\ UNCHANGED lookup

CacheTypeOK ==
    /\ cache \in [Table -> [Key \cup {NullKey} -> Entry]]
    /\ \A r \in Reader : lookup[r].pc \in {"idle", "read", "fill"}
=============================================================================
