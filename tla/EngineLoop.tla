----------------------------- MODULE EngineLoop -----------------------------
(***************************************************************************)
(* A program that keeps its data in a file: the command loop of            *)
(* includes/opendb/core/EngineLoop.hpp over the transaction manager and    *)
(* the file provider, as in example/02_persistent_file.cpp and main.cpp.   *)
(* The loop has one thread and no command carries a transaction id, so     *)
(* each command is an auto-commit: the deadlock check finds no waiter, the *)
(* lock is free, and dispatch releases it before it returns.  Locks are    *)
(* therefore left out here.                                                *)
(*                                                                         *)
(* The process may be killed between any two writes of an entry or of the  *)
(* metadata page; the several pages of one split are written without a     *)
(* kill among them.  A new process opens the file with a new transaction   *)
(* manager, whose ids and sequence start again.  cmd is the command        *)
(* dispatch is running, at the step                                        *)
(*                                                                         *)
(*   write     the puts or removes of its rows                             *)
(*   stamp     storage_.commit up to its saveMetadata: committed entries   *)
(*   advance   after saveMetadata: visible_seq_, release and present       *)
(*                                                                         *)
(* ref and prev are for the properties: what the tables hold by the answers*)
(* the program gave, and what they held before the last answer.            *)
(***************************************************************************)
EXTENDS TransactionManager, LocalFileStorageProvider

CONSTANTS
    MaxLife,   \* bound: processes, one after the other
    Kills,     \* the processes that may be killed
    MaxCalls   \* bound: commands and calls of the provider in a run

ASSUME LifeAssumption == MaxLife \in Nat /\ MaxCalls \in Nat /\ Kills \subseteq 1..MaxLife

VARIABLES
    cmd,       \* the command in dispatch
    life,      \* which process runs
    ended,     \* how the last process ended: closed, or killed idle or busy
    fresh,     \* whether this process has made no call yet
    calls,     \* how many commands and calls were made
    ref,       \* table -> the rows it holds by the answers given
    prev       \* ref before the last answered command

callVars == <<fresh, calls>>
loopVars == <<cmd, life, ended, callVars, ref, prev>>
vars == <<txnVars, providerVars, loopVars>>

Idle == [at |-> "idle", todo |-> {}]
Origin == <<life, NewTxn>>   \* the transaction the next command begins

Row(k, by) == [key |-> k, by |-> by]

Init ==
    /\ TxnInit
    /\ ProviderInit
    /\ cmd = Idle
    /\ life = 1
    /\ ended = "closed"
    /\ fresh = TRUE
    /\ calls = 0
    /\ ref = [tb \in Table |-> {}]
    /\ prev = ref

-----------------------------------------------------------------------------
(* dispatch.                                                               *)

\* The loop is between two commands.
Call ==
    /\ opened
    /\ cmd.at = "idle"
    /\ calls < MaxCalls
    /\ calls' = calls + 1
    /\ fresh' = FALSE

\* keys: the rows the command is about to write.
Begin(op, tb, at, keys) ==
    /\ Call
    /\ beginTxn
    /\ cmd' = [at |-> at, op |-> op, table |-> tb, txn |-> NewTxn,
               todo |-> keys, keys |-> keys, seq |-> 0, by |-> Origin]
    /\ UNCHANGED <<life, ended, ref, prev>>

Select(tb) == Begin("select", tb, "write", {}) /\ UNCHANGED providerVars

Insert(tb) == \E k \in Key :
    /\ tb \in catalog
    /\ Begin("insert", tb, "write", {k})
    /\ UNCHANGED providerVars

\* A row without _id: the engine numbers it, and stages it at once.
InsertAuto(tb) ==
    LET k == auto_id[tb] + 1 IN
    /\ tb \in catalog
    /\ Call
    /\ beginTxn
    /\ putAuto(NewTxn, tb, Origin)
    /\ cmd' = [at |-> "write", op |-> "insert", table |-> tb, txn |-> NewTxn,
               todo |-> {}, keys |-> {k}, seq |-> 0, by |-> Origin]
    /\ UNCHANGED <<life, ended, ref, prev>>

\* An INSERT into an unknown table, an UPDATE or DELETE without WHERE: the
\* client gets the error, and the transaction is aborted before it wrote.  The
\* provider's abort does nothing.
Refused ==
    /\ Call
    /\ next_id < MaxTxn
    /\ next_id' = NewTxn
    /\ states' = [states EXCEPT ![NewTxn] = "Aborted"]
    /\ UNCHANGED <<commit_seq, providerVars, cmd, life, ended, ref, prev>>

\* Update and Delete: the rows are collected first.  A WHERE that matches none
\* makes an error and a result, and the result wins: the command commits.
Collect(op, tb) ==
    /\ \E keys \in SUBSET {e.key : e \in scan(NewTxn, tb)} :
          Begin(op, tb, "write", keys)
    /\ UNCHANGED providerVars

Write == \E k \in cmd.todo :
    /\ cmd.at = "write"
    /\ cmd' = [cmd EXCEPT !.todo = @ \ {k}]
    /\ IF cmd.op = "delete" THEN remove(cmd.txn, cmd.table, k, cmd.by)
                            ELSE put(cmd.txn, cmd.table, k, cmd.by)
    /\ UNCHANGED <<txnVars, life, ended, callVars, ref, prev>>

\* prepare does nothing; commitTxn, visibleSeq, and commit's scanAll.
CommitTxn ==
    /\ cmd.at = "write" /\ cmd.todo = {}
    /\ commitTxn(cmd.txn)
    /\ cmd' = [cmd EXCEPT !.at = "stamp", !.seq = commit_seq', !.todo = Staged(cmd.txn)]
    /\ UNCHANGED <<providerVars, life, ended, callVars, ref, prev>>

StampEntry == \E p \in cmd.todo :
    /\ cmd.at = "stamp"
    /\ cmd' = [cmd EXCEPT !.todo = @ \ {p}]
    /\ Stamp(p[1], p[2], cmd.seq)
    /\ UNCHANGED <<txnVars, life, ended, callVars, ref, prev>>

\* Mutant: visible_seq_ is advanced before the entries are all stamped.
BugSaveMeta ==
    /\ cmd.at = "stamp"
    /\ cmd' = [cmd EXCEPT !.at = "advance"]
    /\ saveMetadata
    /\ UNCHANGED <<txnVars, life, ended, callVars, ref, prev>>

SaveMeta ==
    /\ cmd.at = "stamp" /\ cmd.todo = {}
    /\ cmd' = [cmd EXCEPT !.at = "advance"]
    /\ saveMetadata
    /\ UNCHANGED <<txnVars, life, ended, callVars, ref, prev>>

\* What the table holds by the answer to the command.
Answered(rows) ==
    {r \in rows : r.key \notin cmd.keys}
        \cup (IF cmd.op \in {"insert", "update"} THEN {Row(k, cmd.by) : k \in cmd.keys} ELSE {})

Finish ==
    /\ cmd.at = "advance"
    /\ Advance(cmd.seq)
    /\ cmd' = Idle
    /\ prev' = ref
    /\ ref' = [ref EXCEPT ![cmd.table] = Answered(@)]
    /\ UNCHANGED <<txnVars, life, ended, callVars>>

-----------------------------------------------------------------------------
(* The program's calls to the provider, between commands.                  *)

DDL ==
    /\ Call
    /\ UNCHANGED <<txnVars, cmd, life, ended>>

Tables(rows) == ref' = rows /\ prev' = rows

Create(tb) == DDL /\ createTable(tb) /\ Tables(ref)
Drop(tb) == DDL /\ dropTable(tb) /\ Tables([ref EXCEPT ![tb] = {}])
Rename(tb, new) ==
    DDL /\ renameTable(tb, new) /\ Tables([ref EXCEPT ![new] = ref[tb], ![tb] = {}])
Refresh == DDL /\ refreshMetadata /\ Tables(ref)

Close ==
    /\ cmd.at = "idle"
    /\ close
    /\ Tables(ref)
    /\ ended' = "closed"
    /\ UNCHANGED <<txnVars, cmd, life, callVars>>

-----------------------------------------------------------------------------
(* The end of a process and the start of the next.                         *)

\* The process is killed: all it wrote is in the file, all it knew is gone.
Crash ==
    /\ opened
    /\ life \in Kills
    /\ opened' = FALSE
    /\ ended' = IF cmd.at = "idle" THEN "idle" ELSE "busy"
    /\ cmd' = Idle
    /\ UNCHANGED <<txnVars, fileVars, catalog, auto_id, visible_seq, life, callVars, ref, prev>>

Open ==
    /\ life < MaxLife
    /\ open
    /\ life' = life + 1
    /\ states' = [x \in Txn |-> "NotFound"]
    /\ next_id' = 0
    /\ commit_seq' = 0
    /\ fresh' = TRUE
    /\ UNCHANGED <<cmd, ended, calls, ref, prev>>

Next ==
    \/ \E tb \in Table :
          \/ Select(tb) \/ Insert(tb) \/ InsertAuto(tb)
          \/ Collect("update", tb) \/ Collect("delete", tb)
          \/ Create(tb) \/ Drop(tb)
          \/ \E new \in Table : Rename(tb, new)
    \/ Refused \/ Write \/ CommitTxn \/ StampEntry \/ SaveMeta \/ Finish
    \/ Refresh \/ Close \/ Crash \/ Open

Spec == Init /\ [][Next]_vars

-----------------------------------------------------------------------------
(* Properties.                                                             *)

\* What a reader that has staged nothing sees.
View(tb) == {Row(e.key, e.by) : e \in scan(0, tb)}

\* A split has left committed versions of k in two leaves.
Cut(tb, k) == \E i, j \in DOMAIN tree[tb].leaves :
    /\ i # j
    /\ \E e \in tree[tb].leaves[i], d \in tree[tb].leaves[j] :
          e.key = k /\ d.key = k /\ e.seq # 0 /\ d.seq # 0

\* Readers see every row of `rows`; what else they see is of a key that was cut.
Shows(rows) == \A tb \in catalog :
    rows[tb] \subseteq View(tb) /\ \A r \in View(tb) \ rows[tb] : Cut(tb, r.key)

\* The process has opened the file and done nothing yet.
Untouched == opened /\ fresh

\* Through the first process of a file a reader sees every row that was answered
\* for, at every write of every commit too, and nothing else but old versions of
\* keys that a split has cut: the staged, stamped and dead entries of the trees add
\* up to a map (commit, lines 445-479; scan, BTree.cpp:480-514).
FirstLifeView == opened /\ life = 1 => Shows(ref)

\* A file that was closed shows the next process, with the same exception, all
\* that was answered for (close, lines 158-175).
CleanRestartKeepsAll == Untouched /\ life = 2 /\ ended = "closed" => Shows(ref)

\* When the first process is killed, at whatever write, the next one sees the
\* rows of the last answer or of the one before it, in all tables alike: never
\* part of a commit, and never a loss of more than one (lines 469-476).  That is
\* less than the file's header promises: see RestartShowsLastCommit.
CrashLosesWholeCommits == Untouched /\ life = 2 => Shows(ref) \/ Shows(prev)

\* "A restart with no in-flight writes observes the last fully-committed state"
\* (LocalFileStorageProvider.hpp:42-43, docs/adr/003): a process killed between two
\* commands has lost none.  commit writes the metadata page before it advances
\* visible_seq_, so the page is one commit behind.
RestartShowsLastCommit == Untouched /\ life = 2 /\ ended = "idle" => Shows(ref)

\* "commit(txn, visibleSeq) - make staged writes visible" (API.md): what was
\* answered for is what readers see, in every process that opens the file.
CommitMakesVisible == opened /\ cmd.at = "idle" => Shows(ref)

-----------------------------------------------------------------------------
(* A comment of the code that does not hold: no run checks it.            *)

\* "so we never report the same key twice in one scan" (BTree.cpp:506-508).  The
\* loop skips the other versions of a key in its leaf, and only there.
ScanReportsOnce ==
    \A tb \in catalog : \A e, d \in scan(0, tb) : e.key = d.key => e = d
=============================================================================
