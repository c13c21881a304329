------------------------------- MODULE HttpApi -------------------------------
(***************************************************************************)
(* The HTTP front-end of includes/opendb/frontend/HttpApi.hpp over the     *)
(* transaction manager, the lock manager, the deadlock detector and the    *)
(* in-memory engine, all shared.  Each I/O thread of the server runs one   *)
(* request at a time, synchronously; a client may use one transaction from *)
(* several connections at once.  Each call into a component is a step, so  *)
(* requests interleave between any two of them.                            *)
(*                                                                         *)
(* job[t] is the request thread t is running: its operation and arguments, *)
(* the local variables of the handler, and where it is (at):               *)
(*                                                                         *)
(*   check, lock, blocked, run, write      handleDml up to its switch      *)
(*   autoRelease, autoCommit               its auto-commit block           *)
(*   seq, stamp                            visibleSeq() and engine commit  *)
(*   abortTxn, release                     the ends of rollback, timeout   *)
(*                                         and deadlock; release of commit *)
(*                                                                         *)
(* Statements lock the whole table, so Row is empty here.  Which rows a    *)
(* WHERE matches is a free choice.  put and remove of this engine cannot   *)
(* fail; a statement fails when it matches no row (or has no WHERE).       *)
(***************************************************************************)
EXTENDS DeadlockDetector, TransactionManager, InMemoryStorageEngine

CONSTANT MaxRequests   \* bound: requests accepted in a run

VARIABLES
    job,       \* thread -> the request it is running
    issued,    \* the transaction ids clients got from a begin
    asked      \* how many requests have been accepted

httpVars == <<job, issued, asked>>
vars == <<lockVars, detectorVars, txnVars, storageVars, httpVars>>

Statement == {"select", "insert", "update", "delete"}

Idle == [at |-> "idle"]

\* The handler's state as it enters at step `at`.
Request(op, at, x, auto, tb) ==
    [op |-> op, at |-> at, txn |-> x, auto |-> auto, table |-> tb,
     todo |-> {}, failed |-> FALSE, seq |-> 0]

At(t, label) == job[t].at = label /\ lockPc[t] = "idle"
Goto(t, label) == job' = [job EXCEPT ![t].at = label] /\ UNCHANGED <<issued, asked>>
Respond(t) == job' = [job EXCEPT ![t] = Idle] /\ UNCHANGED <<issued, asked>>

Accept(t) ==
    /\ At(t, "idle")
    /\ asked < MaxRequests
    /\ asked' = asked + 1

-----------------------------------------------------------------------------
(* begin, commit and rollback.                                             *)

Begin(t) ==
    /\ Accept(t)
    /\ beginTxn
    /\ issued' = issued \cup {NewTxn}
    /\ UNCHANGED <<job, lockVars, detectorVars, storageVars>>

\* commitTxn; on failure the error is returned at once, with the locks held.
Commit(t, x) ==
    /\ Accept(t)
    /\ commitTxn(x)
    /\ job' = IF Closable(x)
              THEN [job EXCEPT ![t] = Request("commit", "seq", x, FALSE, "none")]
              ELSE job
    /\ UNCHANGED <<issued, lockVars, detectorVars, storageVars>>

ReadSeq(t) ==
    /\ At(t, "seq")
    /\ job' = [job EXCEPT ![t].at = "stamp", ![t].seq = visibleSeq]
    /\ UNCHANGED <<issued, asked, lockVars, detectorVars, txnVars, storageVars>>

\* Mutant: the stamp is one past the commit sequence.
BugStampEngine(t) ==
    /\ At(t, "stamp")
    /\ commit(job[t].txn, job[t].seq + 1)
    /\ IF job[t].op = "commit" THEN Goto(t, "release") ELSE Respond(t)
    /\ UNCHANGED <<lockVars, detectorVars, txnVars>>

\* The engine stamps the versions.  An auto-commit has given up its lock before.
StampEngine(t) ==
    /\ At(t, "stamp")
    /\ commit(job[t].txn, job[t].seq)
    /\ IF job[t].op = "commit" THEN Goto(t, "release") ELSE Respond(t)
    /\ UNCHANGED <<lockVars, detectorVars, txnVars>>

\* rollback: the engine forgets the staged versions, whatever the state of x.
Rollback(t, x) ==
    /\ Accept(t)
    /\ abort(x)
    /\ job' = [job EXCEPT ![t] = Request("rollback", "abortTxn", x, FALSE, "none")]
    /\ UNCHANGED <<issued, lockVars, detectorVars, txnVars>>

\* The end of a rollback, of a lock timeout and of a deadlock victim; neither of
\* the last two touches the engine.
AbortTxn(t) ==
    /\ At(t, "abortTxn")
    /\ abortTxn(job[t].txn)
    /\ Goto(t, "release")
    /\ UNCHANGED <<lockVars, detectorVars, storageVars>>

ReleaseAndRespond(t) ==
    /\ At(t, "release")
    /\ release(t, job[t].txn)
    /\ Respond(t)
    /\ UNCHANGED <<detectorVars, txnVars, storageVars>>

-----------------------------------------------------------------------------
(* query: handleDml.                                                       *)

\* With the transaction the client names; its state is not looked at.
Query(t, op, tb, x) ==
    /\ Accept(t)
    /\ job' = [job EXCEPT ![t] = Request(op, "check", x, FALSE, tb)]
    /\ UNCHANGED <<issued, lockVars, detectorVars, txnVars, storageVars>>

\* Without one: auto-commit, in a transaction of its own.
QueryAuto(t, op, tb) ==
    /\ Accept(t)
    /\ beginTxn
    /\ job' = [job EXCEPT ![t] = Request(op, "check", NewTxn, TRUE, tb)]
    /\ UNCHANGED <<issued, lockVars, detectorVars, storageVars>>

\* The deadlock pre-check.
DetectCycle(t) ==
    /\ At(t, "check")
    /\ \/ NotWaiting(t, job[t].txn) /\ Goto(t, "lock")
       \/ ChainEnds(t) /\ Goto(t, "lock")
       \/ CycleClosed(t, job[t].txn) /\ Goto(t, "abortTxn")
       \/ (BeginWalk(t, job[t].txn) \/ ReadHolders(t) \/ VisitHolder(t, job[t].txn))
          /\ UNCHANGED httpVars
    /\ UNCHANGED <<lockVars, txnVars, storageVars>>

\* Mutant: the lock is requested without a deadline.
BugLockTable(t) ==
    LET x == job[t].txn
        k == <<job[t].table, NoRow>>
        m == IF job[t].op = "select" THEN "Shared" ELSE "Exclusive"
    IN  /\ At(t, "lock")
        /\ acquireKey(t, x, k, m)
        /\ Goto(t, IF grantableUnlocked(x, k, m) THEN "run" ELSE "blocked")
        /\ UNCHANGED <<detectorVars, txnVars, storageVars>>

\* tryAcquire, which returns at once or blocks.
LockTable(t) ==
    LET x == job[t].txn
        k == <<job[t].table, NoRow>>
        m == IF job[t].op = "select" THEN "Shared" ELSE "Exclusive"
    IN  /\ At(t, "lock")
        /\ tryAcquireKey(t, x, k, m)
        /\ Goto(t, IF grantableUnlocked(x, k, m) THEN "run" ELSE "blocked")
        /\ UNCHANGED <<detectorVars, txnVars, storageVars>>

WaitForLock(t) ==
    /\ job[t].at = "blocked"
    /\ \/ /\ Recheck(t)
          /\ IF call'[t] = NoCall THEN Goto(t, "run") ELSE UNCHANGED httpVars
       \/ SpuriousWakeup(t) /\ UNCHANGED httpVars
    /\ UNCHANGED <<detectorVars, txnVars, storageVars>>

\* The 50 seconds are over.
LockTimesOut(t) ==
    /\ job[t].at = "blocked"
    /\ TimeOut(t)
    /\ Goto(t, "abortTxn")
    /\ UNCHANGED <<detectorVars, txnVars, storageVars>>

\* Mutant: every statement is treated as an auto-commit once it is executed.
BugExecuted(j) == [j EXCEPT !.at = "autoRelease"]

\* After the switch: an explicit transaction keeps its lock, and its statement
\* is answered.
Executed(j) == IF j.auto THEN [j EXCEPT !.at = "autoRelease"] ELSE Idle

Select(t) ==
    /\ At(t, "run") /\ job[t].op = "select"
    /\ job' = [job EXCEPT ![t] = Executed(@)]
    /\ UNCHANGED <<issued, asked, lockVars, detectorVars, txnVars, storageVars>>

\* With the row's _id, or without one.
Insert(t) ==
    /\ At(t, "run") /\ job[t].op = "insert"
    /\ \/ \E k \in Key : put(job[t].txn, job[t].table, k)
       \/ putAuto(job[t].txn, job[t].table)
    /\ job' = [job EXCEPT ![t] = Executed(@)]
    /\ UNCHANGED <<issued, asked, lockVars, detectorVars, txnVars>>

\* update and delete first collect the keys of the rows that match ...
CollectRows(t) ==
    /\ At(t, "run") /\ job[t].op \in {"update", "delete"}
    /\ \E rows \in SUBSET scan(job[t].txn, job[t].table) :
          job' = [job EXCEPT ![t] =
                    IF rows = {} THEN Executed([@ EXCEPT !.failed = TRUE])
                    ELSE [@ EXCEPT !.at = "write", !.todo = rows]]
    /\ UNCHANGED <<issued, asked, lockVars, detectorVars, txnVars, storageVars>>

\* ... and then write them one by one.
WriteRow(t) ==
    LET k == Min(job[t].todo)
        left == job[t].todo \ {k}
    IN  /\ At(t, "write")
        /\ IF job[t].op = "update" THEN put(job[t].txn, job[t].table, k)
           ELSE remove(job[t].txn, job[t].table, k)
        /\ job' = [job EXCEPT ![t] = IF left = {} THEN Executed([@ EXCEPT !.todo = {}])
                                     ELSE [@ EXCEPT !.todo = left]]
        /\ UNCHANGED <<issued, asked, lockVars, detectorVars, txnVars>>

\* Mutant: the error of an auto-commit statement is returned before the release.
BugAutoRelease(t) ==
    /\ At(t, "autoRelease")
    /\ IF job[t].failed THEN Respond(t) /\ UNCHANGED lockVars
       ELSE release(t, job[t].txn) /\ Goto(t, "autoCommit")
    /\ UNCHANGED <<detectorVars, txnVars, storageVars>>

\* The auto-commit block: release first; a failed statement ends here, its
\* transaction still Active.
AutoRelease(t) ==
    /\ At(t, "autoRelease")
    /\ release(t, job[t].txn)
    /\ IF job[t].failed THEN Respond(t) ELSE Goto(t, "autoCommit")
    /\ UNCHANGED <<detectorVars, txnVars, storageVars>>

AutoCommit(t) ==
    /\ At(t, "autoCommit")
    /\ commitTxn(job[t].txn)
    /\ Goto(t, "seq")
    /\ UNCHANGED <<lockVars, detectorVars, storageVars>>

\* The notify_all of a release the thread has just done.
Notify(t) == NotifyAll(t) /\ UNCHANGED <<detectorVars, txnVars, storageVars, httpVars>>

-----------------------------------------------------------------------------
Init ==
    /\ LockInit /\ DetectorInit /\ TxnInit /\ StorageInit
    /\ job = [t \in Thread |-> Idle]
    /\ issued = {}
    /\ asked = 0

\* What a thread does once it has a request.
Work(t) ==
    \/ ReadSeq(t) \/ StampEngine(t) \/ AbortTxn(t) \/ ReleaseAndRespond(t)
    \/ DetectCycle(t) \/ LockTable(t)
    \/ Select(t) \/ Insert(t) \/ CollectRows(t) \/ WriteRow(t)
    \/ AutoRelease(t) \/ AutoCommit(t)

Next ==
    \E t \in Thread :
        \/ Begin(t)
        \/ \E x \in issued : Commit(t, x) \/ Rollback(t, x)
        \/ \E op \in Statement, tb \in Table :
              QueryAuto(t, op, tb) \/ \E x \in issued : Query(t, op, tb, x)
        \/ Work(t)
        \/ WaitForLock(t)
        \/ LockTimesOut(t)
        \/ Notify(t)

Spec == Init /\ [][Next]_vars

\* A thread that runs a handler goes on, and a lock wait ends at its deadline at
\* the latest.
Fairness ==
    \A t \in Thread : WF_vars(Work(t)) /\ WF_vars(LockTimesOut(t)) /\ WF_vars(Notify(t))

FairSpec == Spec /\ Fairness

-----------------------------------------------------------------------------
(* Properties.                                                             *)

\* Every component's state has its type.
TypeOK ==
    /\ LockTypeOK /\ TxnTypeOK /\ StorageTypeOK
    /\ walk \in [Thread -> Walk]
    /\ issued \subseteq 1..next_id
    /\ asked \in 0..MaxRequests
    /\ \A t \in Thread : (job[t].at = "blocked") <=> Blocked(t)

\* A request of transaction x is being run.
InFlight(x) == \E t \in Thread : job[t] # Idle /\ job[t].txn = x

HoldsLock(x) == \E k \in ResourceKey : x \in held[k].holders

\* No write of a transaction is ever visible to others unless the transaction is
\* Committed, however commits, rollbacks, timeouts and statements of the same
\* transaction overlap.
OnlyCommittedVisible ==
    \A v \in Versions : v.seq > 0 => states[v.txn] = "Committed"

\* The engine never stamps a version with a sequence its readers have not reached,
\* nor one the transaction manager has not issued, although the sequence is read
\* in one critical section and used in another.
StampsWithinSeq ==
    /\ \A v \in Versions : v.seq <= visible_seq
    /\ visible_seq <= commit_seq

\* The uncommitted writes of an Active transaction opened by begin are covered by
\* an Exclusive lock on their table ("locks now held from BEGIN through
\* COMMIT/ROLLBACK, not released after each statement").
WritesUnderLock ==
    \A x \in issued, tb \in Table :
        /\ states[x] = "Active"
        /\ \E k \in Key : \E v \in Range(tables[tb][k]) : Staged(x, v)
        => /\ x \in held[<<tb, NoRow>>].holders
           /\ held[<<tb, NoRow>>].mode = "Exclusive"

\* An auto-commit statement that has been answered leaves nothing behind on any
\* path: no lock, no waiter record, no staged version.
AutoCommitLeavesNothing ==
    \A x \in Txn \ issued :
        \/ InFlight(x)
        \/ /\ ~HoldsLock(x) /\ WaitTables(x) = {}
           /\ \A v \in Versions : ~Staged(x, v)

\* Every request is answered, also when all threads wait for the lock of a
\* transaction whose COMMIT has no thread left to run on: the deadline of tryAcquire
\* ends the wait (HttpApi.hpp:189-204).
RequestsAnswered == \A t \in Thread : job[t] # Idle ~> job[t] = Idle

-----------------------------------------------------------------------------
(* A comment of the code that does not hold: no run checks it.            *)

\* "incremented once per committed txn ... the value the new version receives"
\* (TransactionManager.hpp:73-76): versions with one stamp have one author.  Two
\* commits that overlap between commitTxn and visibleSeq both read the later number.
CommitsHaveOwnSeq ==
    \A v, w \in Versions : v.seq > 0 /\ v.seq = w.seq => v.txn = w.txn
=============================================================================
