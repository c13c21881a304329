# OpenDB in TLA+

Specifications of OpenDB: who may hold which lock, which writes a reader may see,
what a worker pool and a socket server owe their callers, what a file shows after
the process that wrote it has died and where its pages are, what a table spread
over shards behind a cache still promises, and what a line of SQL and a command
mean. TLC checks them on small instances; TLAPS proves most of the safety properties for any
number of threads, transactions, tables, keys, sockets and shards: those of the lock
manager, with its refinement of an abstract lock service, of both front-ends, the
worker pool, the socket server, the file and its restarts, and the DDL of the shards;
and that statements on a table spread over shards implement an abstract table whose
statements happen all at once.

Run TLC on `MCx.tla` with one of its `.cfg` files, and `tlapm` on the
`*Proofs.tla` modules. `PROJECT.json` lists the runs, the code lines behind each
definition, the hazards, the findings and the theorems.

## The system

`main.cpp` makes one `TransactionManager`, one `LockManager` and one
`DeadlockDetector`, opens a storage provider, and runs either the REPL or the
HTTP server over them.

| component | state | operations | hard because |
|---|---|---|---|
| `LockManager` | `held_`, `waiters_`, one condition variable | acquire, tryAcquire, release of a transaction, a table or a row | every waiter of every resource sleeps on the same condition variable; timeouts; several threads of one transaction; upgrades |
| `DeadlockDetector` | none (reads the lock manager) | detectCycle | reads holders and waits in separate critical sections |
| `TransactionManager` | states, next id, commit sequence | begin, commit, abort, visibleSeq | commit and the reading of the sequence are two calls; starts at zero in every process |
| `InMemoryStorageEngine` | versions per table and key, `visible_seq_` | get, put, remove, scan, commit, abort | called under other components' locks, not its own transaction |
| `HttpApiAccessPlugin` | none of its own | begin, commit, rollback, query | one request per I/O thread, a client may use one transaction on several connections; auto-commit releases its lock before it commits |
| `EngineDispatcher` | queue, semaphore, `running_`, workers; per session its open transactions | enqueue, workerLoop, runSession, shutdown | permit and queue entry are handed over separately; leak guard at the end of a session; shutdown against sleeping workers |
| `EngineLoop` | none | dispatch | one thread; its commits are what a killed process leaves half done |
| `LocalFileStorageProvider` | metadata page, one B+ tree per table, `visible_seq_` | open, close, tables, put, remove, scan, commit, backup | no log: the order of page writes is all there is |
| `BTree`, `Pager`, `BuddyPageAllocator` | pages, free lists, page 0 | lookup, insert, split, scan; allocate, free | splits that cut a key's versions apart; a free list that is written only now and then |
| `CachingStorageEngine` | a map from table and key to the row last read | get, put, remove | read of the engine and fill are two steps; put erases the entry before the commit that changes the row |
| `ShardedStorageEngine` | child engines, a partition policy per table | as an engine | scan, commit and abort visit the children in turn, nothing holds them together; put follows the policy, get and remove the key |
| `ShardedStorageProvider`, `InMemoryStorageProvider` | schemas per child, and once more in a registry | create, drop, alter, rename table, open, close | child by child, with no lock over the whole call |
| `HttpServer`, I/O threads | connections per thread, `activeConnections_`, `running_` | listen, accept, adopt, read, evict, stop, join | sockets are handed between threads and the kernel gives closed numbers out again at once |
| SQL parser, the two executors (`HttpApi::handleDml` and `EngineLoop::dispatch`), values | the place in the text | one function per clause | clauses in a fixed order, loops that must consume, nulls, precedence, `size_t` arithmetic; SQL reaches the executor that knows fewer clauses |
| `HttpSession`, REPL, JSON | | text and I/O | |

Requests go front-end -> transaction manager (begin) -> detector -> lock manager
-> engine -> transaction manager (commit) -> engine (commit) -> lock manager
(release); no lock is held across these calls, so other threads run between any
two of them. In the server build the HTTP front-end runs a request on the I/O
thread itself; nothing is enqueued to the dispatcher there, whose own users are
the tests and embedding programs.

What makes each part correct:

* lock manager: an Exclusive lock has one holder unless it was upgraded, a free lock is not slept on,
  and `waiters_` tells the detector the truth;
* front-ends: only committed writes are seen, each write happens under its
  table's lock, every request is answered, and nothing of an ended transaction
  or session stays behind;
* pool: each accepted session is run once, and shutdown ends;
* file: what was answered is what the next process sees;
* pages: an entry is found by every path that should find it, and a page is in one
  tree or in one free run;
* shards and cache: a statement happens at once on all shards or on none, a cached
  row is the engine's row, and all shards have the same tables;
* server: slots and sockets are neither lost nor mixed up, nobody waits for ever,
  and the server can be stopped;
* SQL: what is accepted is what was written, and its answer is what it means.

## Modules

| module | models | state and actions |
|---|---|---|
| `OpenDB` | what the server's parts share | the constants `Thread`, `Txn`, `Table` |
| `LockManager` | `core/LockManager.hpp` | `held`, `waiters`; `lockPc`, `call`: where each thread is in a blocking call. `acquireKey`, `tryAcquireKey`, `Recheck`, `TimeOut`, `SpuriousWakeup`, `release`, `releaseKey`, `NotifyAll`: the notification is a step of its own, after the mutex-protected change |
| `DeadlockDetector` | `core/DeadlockDetector.hpp` | `walk`: the local variables of a detectCycle; one action per call into the lock manager |
| `TransactionManager` | `core/TransactionManager.hpp` | one action per method |
| `InMemoryStorageEngine` | `storage/InMemoryStorageEngine.hpp` | one action per method that changes a version; `scan` and visibility as operators |
| `VersionList` | `storage/InMemoryStorageEngine.hpp` | the versions of one key: which are staged, and what an abort leaves |
| `HttpApi` | `frontend/HttpApi.hpp` | composes the five above. `job[t]`: the request of thread `t`; one action per call the handler makes |
| `DispatcherSession` | `EngineDispatcher::runSession` | composes the same five under the other front-end: deadline from `lockTimeout_`, commit before release, `openTxns` and the leak guard |
| `EngineDispatcher` | enqueue, workerLoop, shutdown, the destructor | `queue`, `permits`, `running`, `shuttingDown`, where each caller, worker and the stopper is; one action per access to shared state. The destructor destroys the queue before it joins the workers; a worker that meets the dead queue is `lost` |
| `LocalFileStorageProvider` | `storage/LocalFileStorageProvider.hpp`, leaves and routing of `BTree.cpp` | `page1`, `tree` in the file: a tree is a sequence of leaves, each a set of entries, and the separators above them; `put` routes, looks for a duplicate in one leaf and splits it, `scan` goes leaf by leaf. `opened`, `catalog`, `auto_id`, `visible_seq` in memory |
| `EngineLoop` | `core/EngineLoop.hpp`, process start and end of `main.cpp` | composes transaction manager and file provider; `cmd`: the command in dispatch; `Crash`, `Close`, `Open` |
| `BuddyPageAllocator` | `BuddyPageAllocator.cpp` | operators on `free`, the list of free runs of each class: take a page, free a page, snapshot and restore |
| `Pager` | `Pager.cpp` | operators on a record of page count and free runs (memory) and page 0 and data pages (file) |
| `BTree` | `BTree.cpp` | operators on a tree: lookup, scans, put with both splits, freeing of all pages |
| `PagedTables` | the page side of `LocalFileStorageProvider.hpp` | composes the three above. `root`, `info` (`tables_[t].rootPageId`), `page1`; one action per call of the provider, and `Close`, `Kill`, `Open`. `log`, `astray`, `leaked` are for the properties |
| `LockService` | what callers rely on of the lock manager | `held` only: `Grant`, `Release`. `LockManager` implements it; `ShardedSession` uses it |
| `ShardedStorageEngine` | `storage/ShardedStorageEngine.hpp` over `InMemoryStorageEngine.hpp` | `shards`, `auto_id`, `visible_seq` per child, `policies`; `put`, `remove`, and one turn of the loops of scan, commit and abort |
| `CachingStorageEngine` | `storage/CachingStorageEngine.hpp` | `cache`, `lookup` (the locals of a get); `GetMiss`, `GetInner`, `Fill`, `invalidate`. `quiet` is history |
| `ShardedStorageProvider` | `storage/ShardedStorageProvider.hpp` over `InMemoryStorageProvider.hpp` | `children`, `registry`, `opened`, `ddl` (the call of a thread); one action per child, policy and registry change. `past` is history |
| `ShardedSession` | a command of `runSession`, COMMIT and ROLLBACK of `HttpApi.hpp`, over all of the above | composes `TransactionManager`, `LockService`, cache, engine and provider; `job`, `reply` |
| `AtomicTable` | what a client of SQL statements relies on | `rows`, `reply`: a statement is one step. `ShardedSession` implements it |
| `HttpServer` | `HttpServer.cpp`, `HttpServerIoThread.cpp`, POSIX | the kernel's sockets, backlog and descriptors; `conns` per thread, `active`, `nextIo`, `ioPc`; a step ends wherever another thread can see a descriptor, a slot or a map |
| `SqlParser` | `SqlParser.cpp`, validation of `Command.hpp` | `input` (tokens), `pos`, `pc`, `stmt`, `left`; one action per clause or turn of a loop |
| `QueryExecutor` | SELECT of `EngineLoop::dispatch` and of `HttpApi::handleDml`, `Predicate.hpp`, `Value::compare` | operators from a statement and table contents to the possible answers |
| `QueryMeaning` | what a SELECT means, whatever the code does | `Means`: joins as sets of pairs, a condition as its runs of AND under OR, sorted and cut rows |
| `SqlQueries` | `HttpApi` given SQL, `EngineLoop` given a `Command` | composes parser and executors: a client means a statement, its text is parsed, perhaps cut short, and the HTTP front-end answers what was parsed (`Parse`, `Execute`); or a command source asks a SELECT with any clause and `EngineLoop` answers (`DispatchSelect`). No program leads SQL text to `EngineLoop`: `ReplSource` has its own small parser, which has no joins, ORDER BY or LIMIT |
| `LockManagerProofs`, `HttpApiProofs`, `DispatcherSessionProofs`, `EngineDispatcherProofs`, `HttpServerProofs`, `EngineLoopProofs`, `ShardedSessionProofs` | | theorems about the module without `Proofs` |
| `InMemoryStorageProofs` | | lemmas on what each method of the in-memory engine does to the versions of a table |
| `MC*` | | the instances TLC checks |

Abstractions. In the concurrent modules a row is its key (in the sharded ones a
key and one column); payloads, predicates and messages are left out, and which rows
a WHERE matches is a free choice. `SqlQueries` has the conditions and values, and no
concurrency. Metrics and output are
left out. A blocked `acquire` sleeps in `lockPc = "waiting"` until a notification,
a spurious wakeup or, with a deadline, its timeout; time itself is not modelled,
a timeout may strike whenever a thread waits with a deadline. Statements lock
whole tables, so rows occur only in the lock manager's own run. For `EngineLoop` a
B+ tree has leaves and one node of separators, and a process may end between any two
entries; `PagedTables` has all nodes and their pages, and there a process ends
between two calls. A page write is in the file when it is
made: the stream passes whole pages on, and every write seeks first. A row in
`PagedTables` has a size, one of two, so that the byte limit of a leaf counts.
Hashing is a fixed function of the value. In `HttpServer` the chunks a client sends
are told apart by what they do to the read buffer; `select` may return at any time,
which stands for its timeout and the wake pipe. In `SqlParser` the text is a
sequence of tokens. The type invariants of the modules are definitions one can add
to a `.cfg`; only the lock manager's, which bounds the waiter records, is checked by
a run. Operators that start with `Bug` are deliberate defects, one for each
checked property; TLC finds the property violated when one of them replaces the
definition after it.

## Runs

| run | instance | states | shows |
|---|---|---|---|
| `lock_manager` | 3 threads, an explicit and an auto-commit transaction, a table and a row | 72 thousand | `WaiterAccounting`, `NoLostWakeup`, `ExclusiveUntilReleased`, `OnlyUpgradeCrowds`, under fairness `FreeLockIsGranted`, and the refinement `ImplementsService` |
| `http_api` | 2 I/O threads, 2 ids, one table and key, 5 requests | 274 thousand | `OnlyCommittedVisible`, `StampsWithinSeq`, `WritesUnderLock`, `AutoCommitLeavesNothing`, and under fairness `RequestsAnswered` |
| `dispatcher_session` | 3 workers, 2 explicit ids and auto-commits, 2 tables, 5 commands | 244 thousand | `AutoWritesUnderLock`, `LeakGuard` and `PreCheckNeedsSecondRequest` through wait cycles, victims and timeouts, and under fairness `CommandsAnswered` |
| `dispatcher_pool` | 2 workers, 3 sessions, a shutdown at any moment | 53 thousand | `PermitAccounting`, `RunOnce`, `AcceptedIsServed`, `ShutdownEnds` |
| `file_loop` | 2 processes, 2 tables, 2 keys, leaves of 3 entries, 5 commands and table calls, a kill at any entry the first one writes | 524 thousand | `FirstLifeView`, `CleanRestartKeepsAll`, `CrashLosesWholeCommits` |
| `pages` | 2 tables, 2 keys, 2 transactions, leaves of 2 entries, roots of 3, room for one free run in page 0, 6 calls, 2 processes | 140 thousand up to symmetry | `ScanAllComplete`, `RoutingAgrees`, `NoDoubleOwner`, `NoLeak` |
| `http_server` | 2 I/O threads, 2 slots, 3 descriptors, 3 clients, one chunk; a new server or one that has run | 136 thousand | `SlotAccounting`, `OneKeeper`, and under fairness `PendingIsTaken`, `ConnectionsEnd`, `StopEnds` |
| `sharded` | 2 shards, 2 tables, 2 keys, 4 policies; 2 statements or reads, or 3 DDL calls of 2 threads | 359 thousand up to symmetry | `QuietFillsStayCurrent`, `NoShardLeftOut`, `ShardsAlike`, and the refinement `ImplementsTable` |
| `sql` | texts: conditions of up to 3 comparisons; order, limit, offset and projection; joins; each other statement; every text cut at every token. Commands: joins and chains of them, conditions, projection, order and counts. 4 sets of tables | 47 thousand | `StatementMeansText`, `AnswerMeansText`, `AnswerMeansCommand`, and under fairness `ParserEnds` |

Three runs end in a violation: there the code does other than a comment or a
document of the repository says of what a file holds. Each has a finding in
`PROJECT.json` that quotes the line.

| run | property | what happens |
|---|---|---|
| `file_restart` | `CommitMakesVisible` | the first commit of a second process on a file is not visible |
| `file_kill` | `RestartShowsLastCommit` | a process is killed while idle: the next one does not see its last answered commit |
| `page_crash` | `CrashOnlyLeaks` | free runs found at open, a page of them used, a kill: the next process has the page both in a tree and free |

Other comments that do not hold are stated at the end of their modules and are in no
run. TLC refutes each of them when it is added as an INVARIANT to the `.cfg` of the
module's instance. The hazards of `PROJECT.json` that they are about name them, and
count only what the runs show beside them as covered.

| definition | in | stated at | what happens |
|---|---|---|---|
| `SingleExclusiveHolder` | `LockManager` | struct Lock, `LockManager.hpp` | two transactions share a lock and one asks for Exclusive: the lock is Exclusive and has both holders (B21 of `docs/AUDIT.md`) |
| `CommitsHaveOwnSeq` | `HttpApi` | `TransactionManager.hpp:73-76` | two commits overlap between `commitTxn` and `visibleSeq`: their versions, of one row, carry one stamp (B22) |
| `DrainsQueue` | `EngineDispatcher` | `EngineDispatcher.hpp:52` | a session is queued, shutdown comes, the workers leave: it is never run |
| `JoinedFirst` | `EngineDispatcher` | `EngineDispatcher.hpp:52` | a worker past its test of `running_` pops from the queue after the destructor has destroyed it |
| `ScanReportsOnce` | `EngineLoop` | `BTree.cpp:506-508` | a split has put versions of a row into two leaves: a scan gives the row twice (B15) |
| `OwnWriteWins` | `PagedTables` | `BTree.hpp:75` | a transaction reads a row it has written: get gives the committed version |
| `GetFindsNewest` | `PagedTables` | `BTree.hpp:76` | after a split the newest version of a row is in the leaf before the one get looks at (B15) |
| `CacheIsCurrent` | `ShardedSession` | `CachingStorageEngine.hpp:19` | a row is written, read through the cache, and committed: the cache keeps the row from before |
| `DeleteRemovesRows` | `ShardedSession` | `ShardedStorageEngine.hpp:71-72` | a table partitioned by ranges of its key: a committed DELETE leaves the row, its tombstone is on another shard (B20) |
| `ShardsHoldSame` | `ShardedStorageProvider` | `ShardedStorageProvider.hpp:31-32` | ADD COLUMN and DROP COLUMN overlap: the shards end with different schemas |
| `AnswerMeansClauses` | `SqlQueries` | `README.md:83` | ORDER BY and LIMIT over HTTP: the answer is neither sorted nor cut (B12) |
| `AcceptedIsRead` | `SqlQueries` | `API.md:241` | a JOIN where `API.md` puts it, before WHERE: the WHERE is dropped, with no error |
| `InsertNamesColumns` | `SqlQueries` | `SqlParser.hpp:59`, `API.md:240` | the column list of an INSERT is dropped (B1) |
| `WhereIsOptional` | `SqlQueries` | `API.md:242-243` | an UPDATE or DELETE without WHERE: the parser throws |

Next to several of these a property of a passing run states what does hold.
`OnlyUpgradeCrowds`: an Exclusive lock has one holder, except after the upgrade of a
Shared one. `StampsWithinSeq`: no stamp is beyond what was issued. `FirstLifeView`,
`CleanRestartKeepsAll` and `CrashLosesWholeCommits`: through the first process readers
see every row that was answered for, however its commits are cut into entries, and
beyond them old versions of cut keys only; a close loses nothing; a kill loses whole
commits and at most one that was answered, because the metadata page of a commit is
written before `visible_seq_` advances. `ShutdownEnds`: every worker is joined or has
met the destroyed queue.

The properties of `pages` hold as long as both halves
of a split fit a page (`splitLeaf` cuts by count, and throws after the cut when they
do not). `astray`
names the tables for which less holds: a tree whose full internal root was split
(put then throws, `insertIntoParent` finds no parent), and one whose new root did
not reach the metadata page, by a kill, or by a close after `remove`, which unlike
put and commit does not call `syncRoot`. Lookups in them may miss; their leaf chain
is still complete, and that is what `scan` and `commit` use. `RoutingAgrees` asks for
one version of a key where lookups go, not for all: a split may cut them apart.

`sharded` has three kinds of program. A *keyed* one names the `_id` of every row and
declares no policy but the hash of `_id`, so that put, get and remove agree on the
shard; for it statements are atomic and the cache is looked at. For a *free* one,
with ranges or another partition column or rows without `_id`, a row may lie where
get and remove do not look (`DeleteRemovesRows`), and only `NoShardLeftOut` is
claimed. A *ddl* program calls DDL. `QuietFillsStayCurrent` excepts entries whose
row was written while they were read and stored (`CacheIsCurrent`). `ShardsAlike` excepts
calls that overlap (`ShardsHoldSame`); without overlap only the first child ever refuses a
call. A rename moves the registry's entry only,
and a close makes in-memory children forget their schemas and keep their rows.

`sql` takes SQL where the program takes it, to the HTTP front-end. `StatementMeansText`
leaves out the three forms of `InsertNamesColumns`, `AcceptedIsRead` and `WhereIsOptional`;
`AnswerMeansText` is about SELECTs without the clauses that front-end ignores. A
comparison cut short after AND or OR leaves a null operand in the tree, on which the
executor would crash (`phase = "crashed"`). The other half takes commands to
`EngineLoop`, with every clause; `AnswerMeansCommand` excepts an ORDER BY of a column that is not
selected (rows are projected before they are sorted), an OFFSET + LIMIT that wraps
around in `size_t`, and joins in which a null meets a null (`compare` calls them
equal).

`http_server` ends with the first complete request: `run` has moved the connection
out of its map entry, and `writeTo` dereferences the empty entry (L3 of
`docs/AUDIT.md`). Everything before that, and every connection that never completes
a request, is checked; the write half of the loop cannot be reached.

Two more places where code and comment differ are in the list of hazards: the
pre-check before the command waits (`PreCheckNeedsSecondRequest` says what it can
see), and statements with the id of a finished transaction.

### Bounds

Three threads are what the lock manager's interesting cases need: one that holds,
one that waits, and a second waiter, which may belong to the same transaction, so
that a notification can wake the wrong one and a waiter record can be another
thread's. The HTTP instance has two threads and ids so that COMMIT, ROLLBACK and
statements of one transaction overlap with each other and with an auto-commit;
five requests let a transaction begin, write, end and be used again while
another one runs. A cycle of waits needs two tables: a lock held Shared is upgraded
at once, so two transactions on one table never wait for each other. In
`dispatcher_session` two sessions lock two tables in either order, with ids of their
own, and a third brings the id of the first, without which the pre-check sees nothing,
or an auto-commit; each worker has its own commands, enough for this and no more.
`http_api` has one table, so there requests wait for a lock but not for each other. For the pool two workers
and three sessions let permits be ahead of and behind the queue. For the file,
create, two inserts and an update of both rows make a commit of two entries, and
a fifth call follows it; two tables let a commit and a table call meet; each version
also leaves its staged entry behind, so leaves of three entries have two versions of a
key side by side and cut the key at its third, where the code's leaves of 64 do it at
about the 33rd (`file_kill`, which is not about splits, has leaves of 64). For the
pages, create, two puts and a commit make four entries in three leaves; one more
put overflows the root, and a sixth call meets what is left; a drop gives back
runs of two pages that the next table or the next process splits again. For the
server, three clients and two slots make one client wait or be refused while a slot
comes back, and a closed number is given out again while its last owner cleans up;
starting from a server that has run for a while makes it either thread's turn. For
the shards, two statements suffice for a scan between two stamps and for a lock that
is given up too early, on rows loaded by a first transaction; a read in place of one
of them meets every step of a write; three DDL calls let two overlap after a first.
For SQL, three comparisons tell every wrong grouping of AND
and OR apart, and the tables hold nulls, in columns that joins compare too, missing
columns, ties and values of two types; `size_t` has 16 values, so that counts beyond
the rows, and sums that wrap, both occur. The safety
properties listed under Proofs do not depend on these bounds.

Runs say CHECK_DEADLOCK FALSE because all of them really may stop: requests,
commands and sessions are bounded, and a client may leave.

### Fairness

Weak fairness of each thread's own steps: a thread that can go on does, as the
operating system schedules it. For the lock manager it includes the notification
and the re-check of a woken thread, not the timeout; in the front-ends it includes
the timeout of a waiting thread with a deadline, because time passes
(`tryAcquire` always has a deadline there). Clients owe nothing: beginning a
request, committing and releasing an explicit transaction are never fair. The pool
assumes of a session only that it ends. In the server each I/O thread and the thread
in listen, stop and join are weakly fair; strong fairness of `AllIdle` says that a
loop which goes round for ever scans, at some time, when all its connections have
been silent for the read timeout: time passes, and finitely many chunks are sent. In
`SqlQueries` the whole is one thread's call, which runs to its end. The safety runs,
among them those that end in a violation, need no fairness.

## Proofs

Each theorem holds for every value of the constants that satisfies the named
ASSUMEs of the modules: sets of threads and workers are finite, bounds are numbers,
`1..MaxTxn` are transaction ids, commands are of the four kinds of statement, a leaf
has room for an entry, there is a shard, the hash names one, and a column has
a value besides 0. Each rests on
an inductive invariant, defined at the head of its module; TLC checked every one of
them on the instance of the run before it was proved.

`LockManagerProofs` (any sets of threads, transactions, tables and rows):

* `TypeCorrect`: `LockSpec => []LockTypeOK`. The type invariant bounds `waiters`,
  so it needs the accounting below.
* `WaiterAccountingInvariant`: for each resource and transaction, the records in
  `waiters` are as many as the threads blocked for it. Inductive with the types;
  the proof rests on lemmas about appending to a sequence and removing the first
  matching record, and on the cardinality of a set that gains or loses a thread.
  The lemmas are about single steps of the lock manager, so that the front-ends,
  which make the same steps, cite them.
* `NoLostWakeupInvariant`: a thread asleep on a grantable lock has a notification
  on its way. A release makes locks grantable and puts its thread at the notify
  step in the same step; a grant never makes another lock grantable.
* `ExclusiveUntilReleasedHolds`, `OnlyUpgradeCrowdsHolds`: action properties.
* `ImplementsServiceHolds`: every step of the lock manager is a grant, a release or a
  stutter of `LockService`. The two grant paths, on request and after waking, are one
  lemma; a woken thread's arguments have their types by `LockTypes`.
* `AutoCommitExclusion`: if every transaction is an auto-commit, which locks once,
  an Exclusive lock has one holder, as the comment on `struct Lock` says.

`HttpApiProofs` (any number of I/O threads, transactions, tables and keys):
`OnlyCommittedVisibleHolds`, `StampsWithinSeqHolds`, `WritesUnderLockHolds`,
`AutoCommitLeavesNothingHolds`, `ApiWaiterAccounting`. The invariant ties each request
to its transaction: whose it is, how far it is at each step of the handler, which
locks and staged versions it has there. None of the properties is inductive alone: a
version is stamped by a request that has read a sequence several steps after its
transaction was committed, while others of the same transaction still run. Every step
works for one transaction; the lemma `Frame` says when it is harmless to the requests
of the others.

`DispatcherSessionProofs` (any number of workers, ids, tables and keys):

* `LeakGuardHolds`: every lock has a worker that will release it and every staged
  version one that will commit or abort it. The two differ: a leak guard that has
  aborted a transaction in the engine and is about to release it no longer stands for
  what another session writes in between.
* `AutoWritesUnderLockHolds`: an auto-commit alone holds its table from its grant to
  the stamp, since no other session can name its id.
* `PreCheckNeedsSecondRequestHolds`, an action property, and
  `SessionWaiterAccounting`, from which it follows that a waiter record found by the
  detector is another session's.

`EngineDispatcherProofs` (any numbers of workers and sessions):

* `PoolTypeCorrect`, and
* `PermitAccountingHolds`: while the pool runs, queued sessions = free permits +
  permits still owed by a caller between push and release + permits held by a
  worker between acquire and pop. By the types and the effect of each action on
  the three counts; `SizeAfterMove` gives the size of the set of threads at a
  label after one of them moves.
* `RunOnceHolds`: the places a session can be are exclusive; needs that the queue
  names no session twice.

`HttpServerProofs` (any numbers of I/O threads, descriptors, slots and clients):
`HttpTypeCorrect`, `SlotAccountingHolds`, `OneKeeperHolds`. The invariant adds which
thread may be where, when a thread has a descriptor in hand and what its map says of
it then, and that the descriptors a loop has still to visit are the thread's own: a
thread that closes a socket has dropped its entry before the number can come back.

`EngineLoopProofs` (any tables, keys, leaf capacity, number of commands and calls):
`FirstLifeViewHolds`, `CleanRestartHolds`, `CrashLosesWholeCommitsHolds`. Each says
that a scan gives every row it should and, besides them, old versions of keys only
whose committed versions a split has put into two leaves (`Cut`): more does not hold
(`ScanReportsOnce`). The
invariant speaks of what the entries of a tree, in whatever leaves, show to a reader
that has reached sequence `v`, for
the `v` of the memory and for that of the metadata page. Entries of the running
command are staged, or stamped with the one sequence above both; when the page or
`visible_seq_` gets there every row of the command has its entry (`NextSequence`). Of
the file it says that it shows the last answer or the one before, whatever the
process does next, so the kill itself has nothing left to show. A second invariant,
`Shape`, says that the separators of a tree name leaves of it; from it a put adds its
entry to the tree's entries and changes no other, split or not (`InsertedIsTree`).
That a put drops nothing it should keep needs no routing: within the first process no
two entries have one key, sequence and transaction. `ViewOfRows` then goes from the
entries to the scan: the newest version of a row is the first of its leaf, and what
another leaf shows of that row is of a cut key.

`ShardedSessionProofs` (any number of shards, tables, keys, transactions, readers and
DDL threads, any policies):

* `ShardsAlikeHolds`. While no two calls have overlapped, the shards before the one a
  call is at have its result and the others what they had, and a call is refused by
  the first shard or by none.
* `NoShardLeftOutHolds`. `StoreInv` says on which shards a transaction may still have
  staged versions: on all until its commit or abort starts, then from the shard its
  loop is at. A shard is ahead of another only because of a commit that has still to
  reach the other and whose sequence is at least what the first shows; two commits of
  different tables may go round at once, so "the shards before it are ahead" is not
  enough. No version has a sequence above its shard's.
* `QuietFillsStayCurrentHolds`. `CacheInv` adds that a staged write of a row with a
  quiet entry belongs to a statement that has still to erase that entry. The commit
  or abort of a statement comes after it has erased everything, so it changes no row
  with a quiet entry; and since no version is above its shard's sequence, raising the
  sequence shows nothing new. The table locks are not needed.
* `ImplementsTableHolds`: in a keyed program every step of a session, on any number of
  shards, is a statement of `AtomicTable` or a stutter. A SELECT takes place when its
  scan reads the last shard, an INSERT, UPDATE or DELETE when its commit stamps the
  first one; the stamps on the other shards and every step of an abort change no row.
  `TableInv` has four parts. `Locks`: the transactions at work on a table are the
  holders of its lock, and a writer is alone. `Placed`: the versions of a key are on
  the shard it hashes to, and only the last may be staged, by the writer of that
  table. `WriterOK`: until its first stamp a writer has staged the rows it wants, less
  those it has still to write. `ScanOK`: what a scan has read is what those shards
  still show. Here the table locks and the routing by key are what the proof needs:
  without the Shared lock of a scan `ScanOK` fails, and without routing a key could
  have rows on two shards.

Only model-checked: everything about liveness (`FreeLockIsGranted`,
`RequestsAnswered`, `CommandsAnswered`, `AcceptedIsServed`, `ShutdownEnds`,
`PendingIsTaken`, `ConnectionsEnd`, `StopEnds`, `ParserEnds`), which is beyond the
prover; the properties of `sql`, whose operators are recursive; those of `pages`, where
a commit, the freeing of a tree and the loading of free runs are folds over sequences
and a proof would be an induction over them.

## Not modelled

* CREATE, DROP and ALTER TABLE through the HTTP front-end, which pass straight on to
  the provider, and RENAME of a single in-memory provider.
* Runs of several pages in the allocator, and with them the migration of version 1
  files; checksums; a process that ends inside a call to a tree; writes that fail.
* Characters, comments and quoting in the SQL text, several statements in one
  text, and a negative LIMIT or OFFSET, which is cast to `size_t`. The answers of the
  dispatcher's own executor, which ignores the same clauses as the HTTP front-end's.
* The file provider under the HTTP front-end, where a put can fail after others of its
  statement were staged: `HttpApi` is modelled over the in-memory engine.
* `commit(txn)` of the in-memory engine, which numbers the commit itself: all modelled
  callers pass a sequence.
* The write half of an I/O thread (see `http_server`), the Windows build, and the
  text of requests and responses.
* `HttpSession`, the REPL's text, JSON, option parsing: text and I/O without state
  of their own.
* File providers as shards: `ShardedStorageProvider` is modelled over in-memory
  children, whose commit never fails; a child that fails would end the loop half way.
* The limit of the dispatcher's semaphore; of what a worker does with destroyed
  members only that it has met them.

## Plan

1. Show that `PagedTables` implements the trees of `LocalFileStorageProvider` for
   tables that are not astray.
2. A kill between the page writes of one call to a tree, and the migration of
   version 1 files.
