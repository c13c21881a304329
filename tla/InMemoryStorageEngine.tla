------------------------ MODULE InMemoryStorageEngine ------------------------
(***************************************************************************)
(* The storage engine of includes/opendb/storage/InMemoryStorageEngine.hpp:*)
(* per table and key, the versions in the order they were written.  A      *)
(* version is staged (seq 0, seen by its author only) until commit stamps  *)
(* it with a commit sequence.  Each method runs under the engine's mutex,  *)
(* so each is one step.  Payloads are left out: a version is known by its  *)
(* author and whether it is a tombstone.  A table without rows is one that *)
(* is not in tables_.                                                      *)
(***************************************************************************)
EXTENDS OpenDB, VersionList, Sequences, FiniteSetsExt

CONSTANT MaxKey    \* bound: keys are 1..MaxKey

ASSUME KeyAssumption == MaxKey \in Nat

VARIABLES
    tables,        \* tables_
    auto_id,       \* auto_id_
    visible_seq    \* visible_seq_

storageVars == <<tables, auto_id, visible_seq>>

Key == 1..MaxKey
Version == [txn : Txn, seq : Nat, tombstone : BOOLEAN]

StorageTypeOK ==
    /\ tables \in [Table -> [Key -> Seq(Version)]]
    /\ auto_id \in [Table -> 0..MaxKey]
    /\ visible_seq \in Nat

StorageInit ==
    /\ tables = [tb \in Table |-> [k \in Key |-> <<>>]]
    /\ auto_id = [tb \in Table |-> 0]
    /\ visible_seq = 0

\* A staged version is its author's; a committed one is everybody's.
isVisibleUnlocked(x, v) ==
    IF v.seq = 0 THEN v.txn = x ELSE v.seq <= visible_seq

\* The rows a scan by x emits: those whose newest visible version, in the order
\* of writing, is not a tombstone.
scan(x, tb) ==
    {k \in Key :
        LET seen == {i \in DOMAIN tables[tb][k] : isVisibleUnlocked(x, tables[tb][k][i])}
        IN  seen # {} /\ ~tables[tb][k][Max(seen)].tombstone}

Stage(x, tb, k, dead) ==
    tables' = [tables EXCEPT ![tb][k] =
                  Append(@, [txn |-> x, seq |-> 0, tombstone |-> dead])]

put(x, tb, k) == Stage(x, tb, k, FALSE) /\ UNCHANGED <<auto_id, visible_seq>>

\* put with a null key: the key is the table's next number.
putAuto(x, tb) ==
    /\ auto_id[tb] < MaxKey
    /\ auto_id' = [auto_id EXCEPT ![tb] = @ + 1]
    /\ Stage(x, tb, auto_id[tb] + 1, FALSE)
    /\ UNCHANGED visible_seq

remove(x, tb, k) == Stage(x, tb, k, TRUE) /\ UNCHANGED <<auto_id, visible_seq>>

\* Stamp every staged version of x, in all tables at once.
commit(x, seq) ==
    /\ tables' = [tb \in Table |-> [k \in Key |->
                    [i \in DOMAIN tables[tb][k] |->
                        LET v == tables[tb][k][i] IN
                        IF Staged(x, v) THEN [v EXCEPT !.seq = seq] ELSE v]]]
    /\ visible_seq' = Max({visible_seq, seq})
    /\ UNCHANGED auto_id

\* Erase every staged version of x; a table this empties is dropped with its
\* key counter.
abort(x) ==
    LET kept == [tb \in Table |-> [k \in Key |-> Unstaged(x, tables[tb][k])]]
        Empty(ts, tb) == \A k \in Key : ts[tb][k] = <<>>
    IN  /\ tables' = kept
        /\ auto_id' = [tb \in Table |-> IF Empty(kept, tb) /\ ~Empty(tables, tb)
                                        THEN 0 ELSE auto_id[tb]]
        /\ UNCHANGED visible_seq

Versions == UNION {Range(tables[tb][k]) : tb \in Table, k \in Key}

=============================================================================
