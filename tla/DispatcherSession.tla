--------------------------- MODULE DispatcherSession ---------------------------
(***************************************************************************)
(* runSession of src/EngineDispatcher.cpp: a worker pulls the commands of  *)
(* one session until it ends, runs each under the deadlock pre-check and a *)
(* table lock, and cleans up after the transactions the session left open. *)
(* How sessions reach workers is in EngineDispatcher; here every worker    *)
(* always has one.                                                         *)
(*                                                                         *)
(* A command without a transaction id is an auto-commit.  An explicit id   *)
(* is whatever number the session gives, so several sessions may use the   *)
(* same one; ClientTxn are numbers the transaction manager did not issue.  *)
(* No command commits or rolls back an explicit transaction.               *)
(*                                                                         *)
(* sess[t] is the local state of worker t: the command, its loop's         *)
(* variables, openTxns and where it is (at):                               *)
(*                                                                         *)
(*   next                             the top of the command loop          *)
(*   check, lock, blocked, run, write one command, to the end of the switch*)
(*   commitTxn, seq, stamp            its auto-commit                      *)
(*   victim, timedOut                 abortTxn of one that does not run    *)
(*   release                          of an auto-commit and of a victim    *)
(*   guardAbort, guardRelease         the leak guard, per open transaction *)
(***************************************************************************)
EXTENDS DeadlockDetector, TransactionManager, InMemoryStorageEngine

CONSTANTS
    Commands,      \* worker -> the commands its sessions send: <<type, table, id>>,
                   \* with id 0 for none
    MaxCommands    \* bound: worker -> the commands it pulls in a run

VARIABLES
    sess,          \* worker -> its session and command
    pulled         \* worker -> how many commands it has pulled

vars == <<lockVars, detectorVars, txnVars, storageVars, sess, pulled>>

ClientTxn == Txn \ 1..MaxTxn

CommandType == {"select", "insert", "update", "delete"}

ASSUME CommandsAssumption ==
    \A t \in Thread : Commands[t] \subseteq CommandType \X Table \X (ClientTxn \cup {0})

NewSession ==
    [at |-> "next", op |-> "none", txn |-> 0, auto |-> FALSE, table |-> "none",
     todo |-> {}, seq |-> 0, open |-> <<>>]

At(t, label) == sess[t].at = label /\ lockPc[t] = "idle"
Goto(t, label) == sess' = [sess EXCEPT ![t].at = label] /\ UNCHANGED pulled

\* The variables of one turn of the loop end with it; openTxns does not.
NextIteration(open) == [NewSession EXCEPT !.open = open]

-----------------------------------------------------------------------------
(* One command.                                                            *)

\* nextCommand yields a command.  value_or evaluates its argument, so an id is
\* drawn from the transaction manager even if the command brings its own.
NextCommand(t, op, tb, x) ==
    /\ At(t, "next")
    /\ pulled[t] < MaxCommands[t]
    /\ pulled' = [pulled EXCEPT ![t] = @ + 1]
    /\ beginTxn
    /\ sess' = [sess EXCEPT ![t].at = "check", ![t].op = op, ![t].table = tb,
                            ![t].auto = (x = 0),
                            ![t].txn = IF x = 0 THEN NewTxn ELSE x]
    /\ UNCHANGED <<lockVars, detectorVars, storageVars>>

DetectCycle(t) ==
    /\ At(t, "check")
    /\ \/ NotWaiting(t, sess[t].txn) /\ Goto(t, "lock")
       \/ ChainEnds(t) /\ Goto(t, "lock")
       \/ CycleClosed(t, sess[t].txn) /\ Goto(t, "victim")
       \/ (BeginWalk(t, sess[t].txn) \/ ReadHolders(t) \/ VisitHolder(t, sess[t].txn))
          /\ UNCHANGED <<sess, pulled>>
    /\ UNCHANGED <<lockVars, txnVars, storageVars>>

\* Mutant: a writer that takes the lock for reading.
BugLockTable(t) ==
    LET x == sess[t].txn
        k == <<sess[t].table, NoRow>>
    IN  /\ At(t, "lock")
        /\ tryAcquireKey(t, x, k, "Shared")
        /\ Goto(t, IF grantableUnlocked(x, k, "Shared") THEN "run" ELSE "blocked")
        /\ UNCHANGED <<detectorVars, txnVars, storageVars>>

\* Mutant: the wait for the lock has no deadline.
BugNoDeadline(t) ==
    LET x == sess[t].txn
        k == <<sess[t].table, NoRow>>
        m == IF sess[t].op = "select" THEN "Shared" ELSE "Exclusive"
    IN  /\ At(t, "lock")
        /\ acquireKey(t, x, k, m)
        /\ Goto(t, IF grantableUnlocked(x, k, m) THEN "run" ELSE "blocked")
        /\ UNCHANGED <<detectorVars, txnVars, storageVars>>

LockTable(t) ==
    LET x == sess[t].txn
        k == <<sess[t].table, NoRow>>
        m == IF sess[t].op = "select" THEN "Shared" ELSE "Exclusive"
    IN  /\ At(t, "lock")
        /\ tryAcquireKey(t, x, k, m)
        /\ Goto(t, IF grantableUnlocked(x, k, m) THEN "run" ELSE "blocked")
        /\ UNCHANGED <<detectorVars, txnVars, storageVars>>

WaitForLock(t) ==
    /\ sess[t].at = "blocked"
    /\ Recheck(t)
    /\ IF call'[t] = NoCall THEN Goto(t, "run") ELSE UNCHANGED <<sess, pulled>>
    /\ UNCHANGED <<detectorVars, txnVars, storageVars>>

LockTimesOut(t) ==
    /\ sess[t].at = "blocked"
    /\ TimeOut(t)
    /\ Goto(t, "timedOut")
    /\ UNCHANGED <<detectorVars, txnVars, storageVars>>

\* A victim's locks are released; those of a command that timed out are not, and
\* neither is added to openTxns nor aborted in the engine.
AbortTxn(t) ==
    /\ sess[t].at \in {"victim", "timedOut"}
    /\ abortTxn(sess[t].txn)
    /\ sess' = [sess EXCEPT ![t] = IF @.at = "victim" THEN [@ EXCEPT !.at = "release"]
                                   ELSE NextIteration(@.open)]
    /\ UNCHANGED <<pulled, lockVars, detectorVars, storageVars>>

\* Mutant: an explicit id is not remembered.
BugExecuted(s) ==
    IF s.auto THEN [s EXCEPT !.at = "commitTxn", !.todo = {}]
    ELSE NextIteration(s.open)

\* Past the switch, with an error or not: auto-commit, or remember the id.
Executed(s) ==
    IF s.auto THEN [s EXCEPT !.at = "commitTxn", !.todo = {}]
    ELSE NextIteration(Append(s.open, s.txn))

Select(t) ==
    /\ At(t, "run") /\ sess[t].op = "select"
    /\ sess' = [sess EXCEPT ![t] = Executed(@)]
    /\ UNCHANGED <<pulled, lockVars, detectorVars, txnVars, storageVars>>

Insert(t) ==
    /\ At(t, "run") /\ sess[t].op = "insert"
    /\ \/ \E k \in Key : put(sess[t].txn, sess[t].table, k)
       \/ putAuto(sess[t].txn, sess[t].table)
    /\ sess' = [sess EXCEPT ![t] = Executed(@)]
    /\ UNCHANGED <<pulled, lockVars, detectorVars, txnVars>>

CollectRows(t) ==
    /\ At(t, "run") /\ sess[t].op \in {"update", "delete"}
    /\ \E rows \in SUBSET scan(sess[t].txn, sess[t].table) :
          sess' = [sess EXCEPT ![t] = IF rows = {} THEN Executed(@)
                                      ELSE [@ EXCEPT !.at = "write", !.todo = rows]]
    /\ UNCHANGED <<pulled, lockVars, detectorVars, txnVars, storageVars>>

WriteRow(t) ==
    LET k == Min(sess[t].todo)
        left == sess[t].todo \ {k}
    IN  /\ At(t, "write")
        /\ IF sess[t].op = "update" THEN put(sess[t].txn, sess[t].table, k)
           ELSE remove(sess[t].txn, sess[t].table, k)
        /\ sess' = [sess EXCEPT ![t] = IF left = {} THEN Executed(@)
                                       ELSE [@ EXCEPT !.todo = left]]
        /\ UNCHANGED <<pulled, lockVars, detectorVars, txnVars>>

-----------------------------------------------------------------------------
(* Auto-commit: stamp the versions, then release.                          *)

CommitTxn(t) ==
    /\ At(t, "commitTxn")
    /\ commitTxn(sess[t].txn)
    /\ Goto(t, "seq")
    /\ UNCHANGED <<lockVars, detectorVars, storageVars>>

ReadSeq(t) ==
    /\ At(t, "seq")
    /\ sess' = [sess EXCEPT ![t].at = "stamp", ![t].seq = visibleSeq]
    /\ UNCHANGED <<pulled, lockVars, detectorVars, txnVars, storageVars>>

StampEngine(t) ==
    /\ At(t, "stamp")
    /\ commit(sess[t].txn, sess[t].seq)
    /\ Goto(t, "release")
    /\ UNCHANGED <<lockVars, detectorVars, txnVars>>

Release(t) ==
    /\ At(t, "release")
    /\ release(t, sess[t].txn)
    /\ sess' = [sess EXCEPT ![t] = NextIteration(@.open)]
    /\ UNCHANGED <<pulled, detectorVars, txnVars, storageVars>>

-----------------------------------------------------------------------------
(* The end of a session: the query timeout, or no more commands.           *)

EndSession(t) ==
    /\ At(t, "next")
    /\ sess[t].open # <<>>
    /\ Goto(t, "guardAbort")
    /\ UNCHANGED <<lockVars, detectorVars, txnVars, storageVars>>

\* The leak guard: each id of openTxns, as often as it is in there.
GuardAbort(t) ==
    /\ At(t, "guardAbort")
    /\ abort(Head(sess[t].open))
    /\ Goto(t, "guardRelease")
    /\ UNCHANGED <<lockVars, detectorVars, txnVars>>

GuardRelease(t) ==
    LET left == Tail(sess[t].open) IN
    /\ At(t, "guardRelease")
    /\ release(t, Head(sess[t].open))
    /\ sess' = [sess EXCEPT ![t].open = left,
                            ![t].at = IF left = <<>> THEN "next" ELSE "guardAbort"]
    /\ UNCHANGED <<pulled, detectorVars, txnVars, storageVars>>

Notify(t) ==
    NotifyAll(t) /\ UNCHANGED <<detectorVars, txnVars, storageVars, sess, pulled>>

-----------------------------------------------------------------------------
Init ==
    /\ LockInit /\ DetectorInit /\ TxnInit /\ StorageInit
    /\ sess = [t \in Thread |-> NewSession]
    /\ pulled = [t \in Thread |-> 0]

\* What a worker does without waiting for anybody.
Work(t) ==
    \/ DetectCycle(t) \/ LockTable(t) \/ AbortTxn(t)
    \/ Select(t) \/ Insert(t) \/ CollectRows(t) \/ WriteRow(t)
    \/ CommitTxn(t) \/ ReadSeq(t) \/ StampEngine(t) \/ Release(t)
    \/ GuardAbort(t) \/ GuardRelease(t) \/ Notify(t)

Next ==
    \E t \in Thread :
        \/ \E c \in Commands[t] : NextCommand(t, c[1], c[2], c[3])
        \/ EndSession(t)
        \/ Work(t)
        \/ WaitForLock(t)
        \/ LockTimesOut(t)

Spec == Init /\ [][Next]_vars

\* Workers go on, and lock waits end at their deadline at the latest; sessions
\* need not send a command or end.
Fairness == \A t \in Thread : WF_vars(Work(t)) /\ WF_vars(LockTimesOut(t))

FairSpec == Spec /\ Fairness

-----------------------------------------------------------------------------
(* Properties.                                                             *)

\* Every component's state has its type, and a worker blocked on a lock is one
\* whose command is.
TypeOK ==
    /\ LockTypeOK /\ TxnTypeOK /\ StorageTypeOK
    /\ walk \in [Thread -> Walk]
    /\ \A t \in Thread : pulled[t] \in 0..MaxCommands[t]
    /\ \A t \in Thread : sess[t].open \in Seq(ClientTxn)
    /\ \A t \in Thread : (sess[t].at = "blocked") <=> Blocked(t)

HoldsLock(x) == \E k \in ResourceKey : x \in held[k].holders
HasStaged(x, tb) == \E k \in Key : \E v \in Range(tables[tb][k]) : Staged(x, v)

\* "anything still open at session end gets aborted and its locks released, so a
\* dropped connection can't leak locks": whatever holds a lock or has uncommitted
\* writes is in a running command, or in openTxns of a session that is not over,
\* also after timeouts, deadlocks and sessions that share an id.
LeakGuard ==
    \A x \in Txn :
        HoldsLock(x) \/ (\E tb \in Table : HasStaged(x, tb))
            => \E t \in Thread : x = sess[t].txn \/ x \in Range(sess[t].open)

\* The versions of an auto-commit are stamped before its lock is released, so as
\* long as one is uncommitted its author has the table to itself.
AutoWritesUnderLock ==
    \A x \in Txn \ ClientTxn, tb \in Table :
        HasStaged(x, tb) => held[<<tb, NoRow>>] = [mode |-> "Exclusive", holders |-> {x}]

\* Every command is answered, and the leak guard gets to its end, also when
\* sessions that locked two tables in turn wait for each other in a cycle: the
\* pre-check runs before the wait and does not see it, so the deadline of
\* tryAcquire must end it (EngineDispatcher.cpp:171-190).
CommandsAnswered == \A t \in Thread : sess[t].at # "next" ~> sess[t].at = "next"

\* The pre-check runs before its own command waits, so it walks the wait-for graph
\* only for an id that another session is waiting with at that moment.
PreCheckNeedsSecondRequest ==
    [][\A t \in Thread :
          walk[t] = NoWalk /\ walk'[t] # NoWalk =>
              \E u \in Thread \ {t} : sess[u].at = "blocked" /\ sess[u].txn = sess[t].txn]_vars

=============================================================================
