---------------------------- MODULE ShardedSession ----------------------------
(***************************************************************************)
(* Statements over the sharded, cached storage, in the order of            *)
(* EngineDispatcher::runSession and of the COMMIT and ROLLBACK requests of *)
(* HttpApi.hpp: lock the table, scan the shards one after the other, write *)
(* the rows, commit shard by shard (or abort), and release the lock.       *)
(* Readers outside transactions and DDL calls run beside them.             *)
(*                                                                         *)
(* A transaction is one statement here; LockService stands for the lock    *)
(* manager, which implements it.  Timeouts and deadlocks are those of      *)
(* DispatcherSession and HttpApi and need two tables in one transaction.   *)
(*                                                                         *)
(* A "keyed" program names the _id of every row it inserts and declares no *)
(* partition policy but the hash of _id: every row is then stored on the   *)
(* shard its key hashes to, the one get and remove look at.  A "free" one  *)
(* declares another policy and inserts rows without _id.  A "ddl" program  *)
(* calls DDL only: a statement reads no schema, and of what DDL changes    *)
(* only the policies, each of which some program starts with.              *)
(***************************************************************************)
EXTENDS TransactionManager, CachingStorageEngine, ShardedStorageProvider

CONSTANTS
    MaxCalls,          \* bound: statements and reads in a run of a keyed or free program
    MaxDdl             \* bound: DDL calls in a run of a ddl program

VARIABLES
    held,              \* what LockService keeps
    job,               \* per transaction, its statement
    reply,             \* per transaction, the rows its SELECT was given
    program,           \* which kind of program this is, fixed at the start
    calls              \* how many calls were made

Lock == INSTANCE LockService WITH Owner <- Txn, Resource <- Table

sessionVars == <<held, job, reply>>
vars == <<txnVars, engineVars, cacheVars, providerVars, sessionVars, program, calls>>

keyed == program = "keyed"

KeyRouted(p) == p.column = "none" \/ (p.column = "id" /\ p.shardOf = HashOf)

Statement == [op : {"select"}, ids : {Key}, c : {0}]
       \cup [op : {"delete"}, ids : {{k} : k \in Key} \cup {Key}, c : {0}]
       \cup [op : {"update"}, ids : {{k} : k \in Key} \cup {Key}, c : {MaxCol}]
       \cup [op : {"insert"}, ids : {{k} : k \in Key \cup {NullKey}}, c : {1}]

\* ids is what the WHERE clause selects or the _id of the row inserted; next is
\* the shard to visit, keys what is left to write, rows what was read, erase the
\* key whose cache entry the last write has still to erase.
Idle == [pc |-> "idle", table |-> "-", stmt |-> [op |-> "-", ids |-> {}, c |-> 0],
         next |-> 0, keys |-> {}, rows |-> {}, erase |-> {}, seq |-> 0]

Go(x, pc) == job' = [job EXCEPT ![x].pc = pc, ![x].next = 0]

Call ==
    /\ calls < IF program = "ddl" THEN MaxDdl ELSE MaxCalls
    /\ calls' = calls + 1

NoCall == UNCHANGED calls

-----------------------------------------------------------------------------
(* A statement.                                                            *)

Begin(tb, st) ==
    /\ Call
    /\ program # "ddl"
    /\ keyed => st.ids # {NullKey}
    /\ beginTxn
    /\ job' = [job EXCEPT ![NewTxn] = [Idle EXCEPT !.pc = "lock", !.table = tb, !.stmt = st]]
    /\ UNCHANGED <<held, reply>>

LockTable(x) ==
    /\ job[x].pc = "lock"
    /\ Lock!Grant(x, job[x].table, IF job[x].stmt.op = "select" THEN "Shared" ELSE "Exclusive")
    /\ IF job[x].stmt.op = "insert"
       THEN job' = [job EXCEPT ![x].pc = "write", ![x].keys = job[x].stmt.ids]
       ELSE Go(x, "scan")
    /\ UNCHANGED <<txnVars, reply>>

\* scan, the next shard.  A SELECT is answered with the rows of all of them; an
\* UPDATE or a DELETE collects the keys of the ones its WHERE selects.
ScanShard(x) ==
    LET found == job[x].rows \cup childScan(job[x].next, x, job[x].table)
        last == job[x].next + 1 \notin Shard
        picked == {r.id : r \in found} \cap job[x].stmt.ids
    IN  /\ job[x].pc = "scan"
        /\ IF ~last
           THEN job' = [job EXCEPT ![x].rows = found, ![x].next = @ + 1]
           ELSE job' = [job EXCEPT ![x].pc = IF job[x].stmt.op = "select" THEN "commitTxn" ELSE "write",
                                   ![x].rows = {}, ![x].keys = picked, ![x].next = 0]
        /\ reply' = IF last /\ job[x].stmt.op = "select"
                    THEN [reply EXCEPT ![x] = found] ELSE reply
        /\ UNCHANGED <<held, txnVars>>

\* put or remove of one row in the engine.
WriteRow(x, k) ==
    LET tb == job[x].table
        dead == job[x].stmt.op = "delete"
    IN  /\ job[x].pc = "write"
        /\ job[x].erase = {}
        /\ k \in job[x].keys
        /\ IF dead THEN remove(x, tb, k) ELSE put(x, tb, k, job[x].stmt.c)
        /\ Overtaken(tb, IF dead THEN k ELSE PutKey(tb, k, job[x].stmt.c))
        /\ job' = [job EXCEPT ![x].keys = @ \ {k}, ![x].erase = {k}]
        /\ UNCHANGED <<held, reply, txnVars>>

\* The cache forgets the key put or remove was given, before they return.
Invalidate(x) ==
    \E k \in job[x].erase :
        /\ invalidate(job[x].table, k)
        /\ job' = [job EXCEPT ![x].erase = {}]
        /\ UNCHANGED <<held, reply, txnVars>>

Written(x) == job[x].pc = "write" /\ job[x].keys = {} /\ job[x].erase = {}

\* An auto-commit statement, or the client's COMMIT.
CommitTxn(x) ==
    /\ Written(x) \/ job[x].pc = "commitTxn"
    /\ commitTxn(x)
    /\ Go(x, "seq")
    /\ UNCHANGED <<held, reply>>

\* Mutant: the table is unlocked before the commit, as an auto-commit request of
\* HttpApi does.
BugReadSeq(x) ==
    /\ job[x].pc = "seq"
    /\ job' = [job EXCEPT ![x].pc = "stamp", ![x].seq = visibleSeq]
    /\ Lock!Release(x, Table)
    /\ UNCHANGED <<reply, txnVars>>

ReadSeq(x) ==
    /\ job[x].pc = "seq"
    /\ job' = [job EXCEPT ![x].pc = "stamp", ![x].seq = visibleSeq]
    /\ UNCHANGED <<held, reply, txnVars>>

\* Mutant: the loop starts at the second shard.
BugStampShard(x) ==
    /\ job[x].pc = "stamp"
    /\ commitChild(ShardCount - 1, x, job[x].seq)
    /\ Go(x, "release")
    /\ UNCHANGED <<held, reply, txnVars>>

StampShard(x) ==
    /\ job[x].pc = "stamp"
    /\ commitChild(job[x].next, x, job[x].seq)
    /\ IF job[x].next + 1 \in Shard THEN job' = [job EXCEPT ![x].next = @ + 1]
       ELSE Go(x, "release")
    /\ UNCHANGED <<held, reply, txnVars>>

\* The client's ROLLBACK: engine()->abort, then abortTxn and release.
Rollback(x) ==
    /\ Written(x)
    /\ Go(x, "abort")
    /\ UNCHANGED <<held, reply, txnVars>>

AbortShard(x) ==
    /\ job[x].pc = "abort"
    /\ abortChild(job[x].next, x)
    /\ IF job[x].next + 1 \in Shard
       THEN job' = [job EXCEPT ![x].next = @ + 1] /\ UNCHANGED txnVars
       ELSE Go(x, "release") /\ abortTxn(x)
    /\ UNCHANGED <<held, reply>>

Release(x) ==
    /\ job[x].pc = "release"
    /\ Lock!Release(x, Table)
    /\ job' = [job EXCEPT ![x] = [Idle EXCEPT !.pc = "done"]]
    /\ UNCHANGED <<reply, txnVars>>

-----------------------------------------------------------------------------
(* The first transaction has inserted and committed rows, each on the      *)
(* shard put picks for it, before the clients come.                        *)

Loaded(ks, s, k, p) ==
    LET pinned == routeByPolicy(p, k, 1)
        home == IF pinned # NoShard THEN pinned ELSE routeByKey(k)
    IN  IF k \in ks /\ s = home
        THEN <<[txn |-> 1, seq |-> 1, tombstone |-> FALSE, c |-> 1]>> ELSE <<>>

Init ==
    /\ program \in {"keyed", "free", "ddl"}
    /\ ProviderInit
    /\ CacheInit
    /\ states = [x \in Txn |-> IF x = 1 THEN "Committed" ELSE "NotFound"]
    /\ next_id = 1
    /\ commit_seq = 1
    /\ \E ks \in SUBSET Key :
          /\ program = "ddl" => ks = {}
          /\ shards = [s \in Shard |-> [tb \in Table |-> [k \in Key |-> Loaded(ks, s, k, policies[tb])]]]
    /\ auto_id = [s \in Shard |-> [tb \in Table |-> 0]]
    /\ visible_seq = [s \in Shard |-> 1]
    /\ held = [tb \in Table |-> Lock!Unlocked]
    /\ job = [x \in Txn |-> Idle]
    /\ reply = [x \in Txn |-> {}]
    /\ program # "ddl" => (keyed <=> \A tb \in Table : KeyRouted(policies[tb]))
    /\ calls = 0

\* What a step of a statement leaves alone.
OutsideEngine == UNCHANGED <<cacheVars, providerVars>> /\ NoCall
OutsideSession == UNCHANGED <<engineVars, cacheVars, providerVars>> /\ NoCall

SessionNext ==
    \/ \E tb \in Table, st \in Statement :
          Begin(tb, st) /\ UNCHANGED <<engineVars, cacheVars, providerVars>>
    \/ \E x \in Txn :
          \/ LockTable(x) /\ OutsideSession
          \/ ScanShard(x) /\ OutsideSession
          \/ CommitTxn(x) /\ OutsideSession
          \/ ReadSeq(x) /\ OutsideSession
          \/ Rollback(x) /\ OutsideSession
          \/ Release(x) /\ OutsideSession
          \/ \E k \in Key \cup {NullKey} : WriteRow(x, k) /\ UNCHANGED providerVars /\ NoCall
          \/ Invalidate(x) /\ UNCHANGED <<engineVars, providerVars>> /\ NoCall
          \/ StampShard(x) /\ OutsideEngine
          \/ AbortShard(x) /\ OutsideEngine

ReaderNext ==
    /\ keyed
    /\ \E r \in Reader :
          \/ Call /\ \E tb \in Table, k \in Key : GetMiss(r, tb, k)
          \/ GetInner(r) /\ NoCall
          \/ Fill(r) /\ NoCall
    /\ UNCHANGED <<txnVars, engineVars, providerVars, sessionVars>>

DdlNext ==
    /\ \/ \E d \in DdlThread :
             \/ /\ Call
                /\ \/ \E tb \in Table, op \in Ops, p \in Policies :
                         BeginDdl(d, op, tb, p)
                   \/ \E tb, new \in Table : RenameTable(d, tb, new)
             \/ (DdlChild(d) \/ DdlPolicy(d) \/ DdlRegistry(d)) /\ NoCall
       \/ (close \/ open) /\ Call
    /\ program = "ddl"
    /\ UNCHANGED <<txnVars, cacheVars, sessionVars>>

Next == (SessionNext \/ ReaderNext \/ DdlNext) /\ UNCHANGED program

Spec == Init /\ [][Next]_vars

-----------------------------------------------------------------------------
(* Properties.                                                             *)

TypeOK ==
    /\ TxnTypeOK
    /\ EngineTypeOK
    /\ CacheTypeOK
    /\ \A x \in Txn : job[x].seq \in 0 .. MaxTxn /\ job[x].next \in Shard

\* What a transaction would read of a table, all shards together; 0 sees what is
\* committed.
View(x, tb) == UNION {childScan(s, x, tb) : s \in Shard}

\* The committed rows; from the first shard a commit stamps, those of the
\* transaction that is committing.
TableRows(tb) ==
    LET committing == {x \in Txn : job[x].table = tb /\ job[x].pc = "stamp" /\ job[x].next > 0}
    IN  IF ~keyed THEN {}
        ELSE IF committing = {} THEN View(0, tb) ELSE View(CHOOSE x \in committing : TRUE, tb)

Abstract == INSTANCE AtomicTable WITH
    Client <- Txn, Name <- Table, Id <- Key, Content <- Col,
    rows <- [tb \in Table |-> TableRows(tb)],
    reply <- [x \in Txn |-> IF keyed THEN reply[x] ELSE {}]

(* For a keyed program, statements over the shards are atomic: each SELECT *)
(* is given the rows of one moment although it visits the shards in turn,  *)
(* and each committed statement changes all of them at once although       *)
(* commit stamps one shard after the other                                 *)
(* (EngineDispatcher::runSession, ShardedStorageEngine::scan and commit).  *)
ImplementsTable == Abstract!TableSpec

(* A cache entry that was read and stored while nobody had written its row *)
(* agrees with the engine for as long as it is there: the commit that      *)
(* makes it wrong comes after the write that erased it                     *)
(* (CachingStorageEngine::get, put, remove).                               *)
QuietFillsStayCurrent ==
    keyed => \A tb \in Table, k \in Key :
        cache[tb][k].set /\ cache[tb][k].quiet => cache[tb][k].row = get(0, tb, k)

(* A transaction that has ended has no staged version on any shard, and    *)
(* when no commit is under way every shard shows the same commits: keyed   *)
(* or not, no shard is left out (ShardedStorageEngine::commit and abort).  *)
NoShardLeftOut ==
    /\ \A x \in Txn : job[x].pc \in {"release", "done"} =>
          \A s \in Shard, tb \in Table, k \in Key :
              \A i \in DOMAIN shards[s][tb][k] : ~Staged(x, shards[s][tb][k][i])
    /\ (\A x \in Txn : job[x].pc # "stamp") =>
          \A s1, s2 \in Shard : visible_seq[s1] = visible_seq[s2]

NoStatement == \A x \in Txn : job[x].pc \in {"idle", "done"}

-----------------------------------------------------------------------------
(* Comments of the code that do not hold: no run checks them.             *)

(* "caches the latest visible (committed) version of each (table, key)"    *)
(* (CachingStorageEngine.hpp:19): when no statement is under way, every    *)
(* entry of the cache is what the engine has committed, also one filled    *)
(* between another statement's write and its commit                        *)
(* (CachingStorageEngine::get, lines 44-53).                               *)
CacheIsCurrent ==
    keyed /\ NoStatement => \A tb \in Table, k \in Key :
        cache[tb][k].set => cache[tb][k].row = get(0, tb, k)

(* "Here we route by key hash, which matches Range/List when partition     *)
(* column == key" (ShardedStorageEngine.hpp:71-72): over a table that is   *)
(* partitioned by its key, a DELETE that has committed has removed the     *)
(* rows it selected; its lock still keeps others out                       *)
(* (ShardedStorageEngine::put by policy, remove by the hash of the key).   *)
DeleteRemovesRows ==
    \A x \in Txn :
        /\ job[x].stmt.op = "delete" /\ job[x].pc = "release" /\ states[x] = "Committed"
        /\ policies[job[x].table].column = "id"
        => \A r \in View(0, job[x].table) : r.id \notin job[x].stmt.ids
=============================================================================
