------------------------ MODULE ShardedStorageProvider ------------------------
(***************************************************************************)
(* includes/opendb/storage/ShardedStorageProvider.hpp over children of     *)
(* InMemoryStorageProvider.hpp: the schema of a table is kept by every     *)
(* child and, once more, by the provider's own registry.  A DDL call       *)
(* visits the children in turn, each under the child's mutex, stops at the *)
(* first one that refuses, and only then touches the registry and the      *)
(* engine's partition policies.  Nothing serialises two DDL calls.         *)
(*                                                                         *)
(* A schema is its partition policy and whether it has an extra column.    *)
(* The checks that refuse a call before its first child (column types,     *)
(* the shard count of a hash policy) change nothing and are left out.      *)
(***************************************************************************)
EXTENDS ShardedStorageEngine

CONSTANTS
    DdlThread,     \* the threads of the program that call DDL
    Policies       \* the policies the program declares

VARIABLES
    children,      \* per shard, InMemoryStorageProvider::schemas_
    registry,      \* ShardedStorageProvider::schemas_
    opened,        \* opened_
    ddl,           \* per thread, the call it is in
    past           \* history: what DDL there has been

providerVars == <<children, registry, opened, ddl, past>>

Schema == [policy : Policies, extra : BOOLEAN]
NoSchema == [policy |-> Unpartitioned, extra |-> TRUE, gone |-> TRUE]
NoDdl == [pc |-> "idle", op |-> "-", table |-> "-", arg |-> Unpartitioned, to |-> "-", shard |-> 0]
Ops == {"create", "drop", "addColumn", "dropColumn"}

\* Whether a child takes a call, given its entry for the table, and the entry it
\* has afterwards.
Accepts(old, op) ==
    CASE op = "create" -> old = NoSchema
      [] op = "drop" -> old # NoSchema
      [] op = "addColumn" -> old # NoSchema /\ ~old.extra
      [] op = "dropColumn" -> old # NoSchema /\ old.extra

Result(old, op, p) ==
    CASE op = "create" -> [policy |-> p, extra |-> FALSE]
      [] op = "drop" -> NoSchema
      [] op = "addColumn" -> [old EXCEPT !.extra = TRUE]
      [] op = "dropColumn" -> [old EXCEPT !.extra = FALSE]

DdlQuiet == \A d \in DdlThread : ddl[d] = NoDdl

\* orderly, then moved by a rename or a close, then overlapping calls for good.
PastWith(event) == IF past = "overlapped" THEN past ELSE event

Start(d, call) ==
    /\ ddl[d] = NoDdl
    /\ opened
    /\ ddl' = [ddl EXCEPT ![d] = call]
    /\ past' = IF DdlQuiet THEN past ELSE "overlapped"
    /\ UNCHANGED <<children, registry, opened>>

BeginDdl(d, op, tb, p) ==
    /\ p # Unpartitioned => op = "create"
    /\ Start(d, [pc |-> "child", op |-> op, table |-> tb, arg |-> p, to |-> "-", shard |-> 0])
    /\ UNCHANGED engineVars

\* createTable, dropTable, alterTable: the next child.
DdlChild(d) ==
    LET call == ddl[d]
        old == children[call.shard][call.table]
    IN  /\ call.pc = "child"
        /\ IF Accepts(old, call.op)
           THEN /\ children' = [children EXCEPT ![call.shard][call.table] =
                                  Result(old, call.op, call.arg)]
                /\ ddl' = [ddl EXCEPT ![d] =
                             IF call.shard + 1 \in Shard THEN [call EXCEPT !.shard = @ + 1]
                             ELSE [call EXCEPT !.pc = IF call.op = "create" /\ call.arg # Unpartitioned
                                                      THEN "policy" ELSE "registry"]]
           ELSE /\ ddl' = [ddl EXCEPT ![d] = NoDdl]
                /\ UNCHANGED children
        /\ UNCHANGED <<registry, opened, past, engineVars>>

\* createTable installs the policy before the registry has the table; dropTable
\* clears it afterwards.
DdlPolicy(d) ==
    LET call == ddl[d]
    IN  /\ call.pc = "policy"
        /\ IF call.op = "create" THEN installPartitionPolicy(call.table, call.arg)
           ELSE clearPartitionPolicy(call.table)
        /\ ddl' = [ddl EXCEPT ![d] = IF call.op = "create" THEN [@ EXCEPT !.pc = "registry"]
                                     ELSE NoDdl]
        /\ UNCHANGED <<children, registry, opened, past>>

\* Mutant: a dropped table keeps its policy.
BugDdlRegistry(d) ==
    LET call == ddl[d]
    IN  /\ call.pc = "registry"
        /\ registry' = [registry EXCEPT ![call.table] = Result(@, call.op, call.arg)]
        /\ ddl' = [ddl EXCEPT ![d] = NoDdl]
        /\ UNCHANGED <<children, opened, past, engineVars>>

\* The registry refuses a change of columns when it lacks the table or already
\* has the result; the children keep theirs.
DdlRegistry(d) ==
    LET call == ddl[d]
        old == registry[call.table]
    IN  /\ call.pc = "registry"
        /\ registry' = [registry EXCEPT ![call.table] =
                          IF call.op \in {"create", "drop"} \/ Accepts(old, call.op)
                          THEN Result(old, call.op, call.arg) ELSE old]
        /\ ddl' = [ddl EXCEPT ![d] = IF call.op = "drop" THEN [@ EXCEPT !.pc = "policy"] ELSE NoDdl]
        /\ UNCHANGED <<children, opened, past, engineVars>>

\* alterTable RENAME moves the registry's entry and nothing else: the children,
\* the policy and the rows keep the old name.
RenameTable(d, tb, new) ==
    /\ ddl[d] = NoDdl
    /\ opened
    /\ registry[tb] # NoSchema
    /\ registry[new] = NoSchema
    /\ registry' = [registry EXCEPT ![tb] = NoSchema, ![new] = registry[tb]]
    /\ past' = IF DdlQuiet THEN PastWith("moved") ELSE "overlapped"
    /\ UNCHANGED <<children, opened, ddl, engineVars>>

\* close and open.  Assumption: the program opens and closes the provider while
\* no DDL call is under way.  Children in memory forget their schemas and keep
\* their rows; the engine keeps its policies.
close ==
    /\ DdlQuiet
    /\ opened
    /\ opened' = FALSE
    /\ children' = [s \in Shard |-> [tb \in Table |-> NoSchema]]
    /\ past' = PastWith("moved")
    /\ UNCHANGED <<registry, ddl, engineVars>>

\* The registry is read again from the children, the last one that has a table
\* decides; so does, for the engine, the last one whose table declares a policy.
open ==
    LET have(tb) == {s \in Shard : children[s][tb] # NoSchema}
        declares(tb) == {s \in have(tb) : children[s][tb].policy # Unpartitioned}
    IN  /\ DdlQuiet
        /\ ~opened
        /\ opened' = TRUE
        /\ registry' = [tb \in Table |-> IF have(tb) = {} THEN NoSchema
                                         ELSE children[Max(have(tb))][tb]]
        /\ policies' = [tb \in Table |-> IF declares(tb) = {} THEN policies[tb]
                                         ELSE children[Max(declares(tb))][tb].policy]
        /\ UNCHANGED <<children, ddl, past, shards, auto_id, visible_seq>>

ProviderInit ==
    /\ \E p \in Policies :
          LET tables == [tb \in Table |-> [policy |-> p, extra |-> FALSE]]
          IN  /\ children = [s \in Shard |-> tables]
              /\ registry = tables
              /\ policies = [tb \in Table |-> p]
    /\ opened = TRUE
    /\ ddl = [d \in DdlThread |-> NoDdl]
    /\ past = "orderly"

-----------------------------------------------------------------------------
(* All shards hold the same schemas whenever no DDL call is under way and  *)
(* none has overlapped another; and while nothing was renamed or closed,   *)
(* the registry holds them too and the engine routes by the policy the     *)
(* schema declares, after creates, drops, changes of columns and calls the *)
(* first child refused (createTable, dropTable and alterTable).            *)
ShardsAlike ==
    DdlQuiet /\ past # "overlapped" =>
        /\ \A s1, s2 \in Shard : children[s1] = children[s2]
        /\ past = "orderly" =>
              /\ registry = children[0]
              /\ \A tb \in Table :
                    policies[tb] = IF registry[tb] = NoSchema THEN Unpartitioned
                                   ELSE registry[tb].policy

-----------------------------------------------------------------------------
(* A comment of the code that does not hold: no run checks it.            *)

(* "schemas are propagated to ALL child providers (each shard holds the    *)
(* same DDL definition)" (ShardedStorageProvider.hpp:31-32): when no DDL   *)
(* call is under way the children agree, also after calls that overlapped  *)
(* (createTable, dropTable and alterTable visit them in turn, unlocked).   *)
ShardsHoldSame == DdlQuiet => \A s1, s2 \in Shard : children[s1] = children[s2]
=============================================================================
