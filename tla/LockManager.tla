----------------------------- MODULE LockManager -----------------------------
(***************************************************************************)
(* The lock manager of includes/opendb/core/LockManager.hpp: Shared and    *)
(* Exclusive locks on tables and rows, owned by transactions and requested *)
(* by threads.  One mutex (mutex_) guards held_ and waiters_, so the code  *)
(* between two waits is one atomic step; a single condition variable (cv_) *)
(* serves every waiter of every resource, and release() notifies it AFTER  *)
(* it has dropped the mutex.  A step ends where the mutex is released:     *)
(*                                                                         *)
(*    acquireKey, tryAcquireKey   the call, up to the grant or to the wait *)
(*    Recheck                     the code a woken waiter runs             *)
(*    TimeOut                     wait_until reports the deadline          *)
(*    release, releaseKey         the locked block                         *)
(*    NotifyAll                   cv_.notify_all() of a release            *)
(*    SpuriousWakeup              cv_.wait returns without a notification  *)
(*                                                                         *)
(* A resource is (table, row), with NoRow for the table itself.  Nothing   *)
(* reads the order of a holder list, or the mode of a waiter record, so a  *)
(* lock's holders are a set and waiters_[key] counts the records of each   *)
(* transaction.  A resource that is not in held_ is NoLock.                *)
(***************************************************************************)
EXTENDS OpenDB, Naturals, FiniteSets

CONSTANTS
    Explicit,  \* the ids opened by a BEGIN; the others belong to one auto-commit statement
    Row,       \* row keys
    NoRow,     \* the empty row key of tableKey()
    NoCall     \* a thread that is not blocked in an acquire

ASSUME ThreadAssumption == IsFiniteSet(Thread)
ASSUME ExplicitAssumption == Explicit \subseteq Txn

VARIABLES
    held,      \* held_: resource -> [mode, holders]
    waiters,   \* waiters_: resource -> number of records of each transaction
    lockPc,        \* where each thread is
    call       \* the arguments of a thread's blocked acquire

lockVars == <<held, waiters, lockPc, call>>

ResourceKey == Table \X (Row \cup {NoRow})
LockMode == {"Shared", "Exclusive"}
Lock == [mode : LockMode, holders : SUBSET Txn]
NoLock == [mode |-> "Shared", holders |-> {}]

Call == [txn : Txn, key : ResourceKey, mode : LockMode, bounded : BOOLEAN]

ASSUME NoCallAssumption == NoCall \notin Call

\* A thread is outside the lock manager, blocked in cv_.wait or cv_.wait_until,
\* out of the wait and competing for the mutex, or between the end of a
\* release's locked block and its notify_all.
PC == {"idle", "waiting", "woken", "notify"}

-----------------------------------------------------------------------------
(* The two helpers every acquire runs under the mutex.                     *)

\* Mutant: the mode of the held lock is not looked at.
BugGrantable(txn, key, mode) ==
    held[key].holders = {} \/ txn \in held[key].holders \/ mode = "Shared"

\* Can txn be given the lock now?  No lock: yes.  Its own lock: always, which
\* is how a holder upgrades.  Another's: only Shared on Shared.
grantableUnlocked(txn, key, mode) ==
    \/ held[key].holders = {}
    \/ txn \in held[key].holders
    \/ mode = "Shared" /\ held[key].mode = "Shared"

\* The lock after the grant.  A transaction that already holds it keeps its
\* place and may turn Shared into Exclusive, whoever else holds it; a new
\* Exclusive holder would clear the others (no grantable request reaches that).
GrantedLock(txn, key, mode) ==
    LET l == held[key] IN
    IF l.holders = {} THEN [mode |-> mode, holders |-> {txn}]
    ELSE IF txn \in l.holders
         THEN [l EXCEPT !.mode = IF mode = "Exclusive" THEN "Exclusive" ELSE @]
    ELSE IF mode = "Exclusive" THEN [mode |-> "Exclusive", holders |-> {txn}]
    ELSE [l EXCEPT !.holders = @ \cup {txn}]

grantUnlocked(txn, key, mode) ==
    held' = [held EXCEPT ![key] = GrantedLock(txn, key, mode)]

\* waiters_[key].push_back, and the loop that erases the first record of txn.
PushWaiter(txn, key) == waiters' = [waiters EXCEPT ![key][txn] = @ + 1]
EraseWaiter(txn, key) ==
    waiters' = [waiters EXCEPT ![key][txn] = IF @ = 0 THEN 0 ELSE @ - 1]

Blocked(t) == lockPc[t] \in {"waiting", "woken"}

-----------------------------------------------------------------------------
(* Acquire.  Callers: an auto-commit statement asks for one lock, with a   *)
(* transaction nobody else uses; an explicit transaction asks for as many  *)
(* as it likes, from any thread.                                           *)

MayRequest(txn) ==
    \/ txn \in Explicit
    \/ /\ \A k \in ResourceKey : txn \notin held[k].holders
       /\ \A t \in Thread : Blocked(t) => call[t].txn # txn

RequestLock(t, c) ==
    /\ lockPc[t] = "idle"
    /\ IF grantableUnlocked(c.txn, c.key, c.mode)
       THEN grantUnlocked(c.txn, c.key, c.mode) /\ UNCHANGED <<waiters, lockPc, call>>
       ELSE /\ PushWaiter(c.txn, c.key)
            /\ lockPc' = [lockPc EXCEPT ![t] = "waiting"]
            /\ call' = [call EXCEPT ![t] = c]
            /\ UNCHANGED held

acquireKey(t, txn, key, mode) ==
    RequestLock(t, [txn |-> txn, key |-> key, mode |-> mode, bounded |-> FALSE])

tryAcquireKey(t, txn, key, mode) ==
    RequestLock(t, [txn |-> txn, key |-> key, mode |-> mode, bounded |-> TRUE])

\* The acquire of a blocked thread returns.
Return(t) ==
    /\ lockPc' = [lockPc EXCEPT ![t] = "idle"]
    /\ call' = [call EXCEPT ![t] = NoCall]

\* Mutant: an `if` instead of a `while` around the wait.
BugRecheckOnce(t) ==
    LET c == call[t] IN
    /\ lockPc[t] = "woken"
    /\ EraseWaiter(c.txn, c.key) /\ grantUnlocked(c.txn, c.key, c.mode) /\ Return(t)

\* A woken waiter has the mutex again: it takes the lock if it now can, and
\* goes back to waiting if not.  (acquireKey erases its record and pushes it
\* again, tryAcquireKey leaves it: the same count.)
Recheck(t) ==
    LET c == call[t] IN
    /\ lockPc[t] = "woken"
    /\ IF grantableUnlocked(c.txn, c.key, c.mode)
       THEN EraseWaiter(c.txn, c.key) /\ grantUnlocked(c.txn, c.key, c.mode) /\ Return(t)
       ELSE lockPc' = [lockPc EXCEPT ![t] = "waiting"] /\ UNCHANGED <<held, waiters, call>>

\* Mutant: the record of a request that timed out stays in waiters_.
BugTimeOut(t) ==
    /\ Blocked(t) /\ call[t].bounded
    /\ Return(t)
    /\ UNCHANGED <<held, waiters>>

\* wait_until reports the deadline, of a thread that was notified too when it
\* gets the mutex late.  The lock is not taken, even if it has become free.
TimeOut(t) ==
    /\ Blocked(t) /\ call[t].bounded
    /\ EraseWaiter(call[t].txn, call[t].key)
    /\ Return(t)
    /\ UNCHANGED held

SpuriousWakeup(t) ==
    /\ lockPc[t] = "waiting"
    /\ lockPc' = [lockPc EXCEPT ![t] = "woken"]
    /\ UNCHANGED <<held, waiters, call>>

-----------------------------------------------------------------------------
(* Release.                                                                *)

\* The locks once txn no longer holds the resources of keys.
Dropped(txn, keys) ==
    [k \in ResourceKey |->
        IF k \notin keys \/ txn \notin held[k].holders THEN held[k]
        ELSE IF held[k].holders = {txn} THEN NoLock
        ELSE [held[k] EXCEPT !.holders = @ \ {txn}]]

\* The locked block of both releases; a notification is owed only if a holder
\* was removed.
Drop(t, txn, keys) ==
    /\ lockPc[t] = "idle"
    /\ held' = Dropped(txn, keys)
    /\ lockPc' = [lockPc EXCEPT ![t] = IF \E k \in keys : txn \in held[k].holders
                               THEN "notify" ELSE @]
    /\ UNCHANGED <<waiters, call>>

release(t, txn) == Drop(t, txn, ResourceKey)
releaseKey(t, txn, key) == Drop(t, txn, {key})

\* Mutant: notify_one.
BugNotifyOne(t) ==
    /\ lockPc[t] = "notify"
    /\ \/ \E w \in Thread : /\ lockPc[w] = "waiting"
                             /\ lockPc' = [lockPc EXCEPT ![t] = "idle", ![w] = "woken"]
       \/ /\ \A w \in Thread : lockPc[w] # "waiting"
          /\ lockPc' = [lockPc EXCEPT ![t] = "idle"]
    /\ UNCHANGED <<held, waiters, call>>

NotifyAll(t) ==
    /\ lockPc[t] = "notify"
    /\ lockPc' = [u \in Thread |-> IF u = t THEN "idle"
                               ELSE IF lockPc[u] = "waiting" THEN "woken" ELSE lockPc[u]]
    /\ UNCHANGED <<held, waiters, call>>

-----------------------------------------------------------------------------
(* Queries of the deadlock detector.                                       *)

\* Every transaction that holds the table or one of its rows.
getHolders(table) == UNION {held[k].holders : k \in {r \in ResourceKey : r[1] = table}}

\* The tables txn has a record on; waiterTable() returns one of them, the first
\* its hash map yields, or none.
WaitTables(txn) == {k[1] : k \in {r \in ResourceKey : waiters[r][txn] > 0}}

-----------------------------------------------------------------------------
LockInit ==
    /\ held = [k \in ResourceKey |-> NoLock]
    /\ waiters = [k \in ResourceKey |-> [x \in Txn |-> 0]]
    /\ lockPc = [t \in Thread |-> "idle"]
    /\ call = [t \in Thread |-> NoCall]

LockNext ==
    \E t \in Thread :
        \/ \E x \in Txn, k \in ResourceKey, m \in LockMode :
              MayRequest(x) /\ (acquireKey(t, x, k, m) \/ tryAcquireKey(t, x, k, m))
        \/ \E x \in Txn : release(t, x)
        \/ \E x \in Txn, k \in ResourceKey : releaseKey(t, x, k)
        \/ Recheck(t)
        \/ TimeOut(t)
        \/ SpuriousWakeup(t)
        \/ NotifyAll(t)

\* A thread that holds or can take the mutex goes on, and a deadline passes; no
\* caller need ever call, or release, and no wakeup need be spurious.
LockFairness ==
    \A t \in Thread : /\ WF_lockVars(Recheck(t))
                      /\ WF_lockVars(NotifyAll(t))
                      /\ WF_lockVars(TimeOut(t))

LockSpec == LockInit /\ [][LockNext]_lockVars
FairLockSpec == LockSpec /\ LockFairness

-----------------------------------------------------------------------------
(* Properties.                                                             *)

\* Every variable has its type, and a resource never has more records in
\* waiters_ than there are threads: records of requests that are over do not
\* pile up (tryAcquireKey returns "without leaving the txn in the waiters list").
LockTypeOK ==
    /\ held \in [ResourceKey -> Lock]
    /\ waiters \in [ResourceKey -> [Txn -> 0..Cardinality(Thread)]]
    /\ lockPc \in [Thread -> PC]
    /\ call \in [Thread -> Call \cup {NoCall}]
    /\ \A t \in Thread : Blocked(t) <=> call[t] # NoCall

\* The threads blocked on key on behalf of txn.
BlockedOn(key, txn) ==
    {t \in Thread : Blocked(t) /\ call[t].key = key /\ call[t].txn = txn}

\* What the deadlock detector reads is exact: waiters_ holds one record for each
\* thread that is blocked and no other, although a thread erases the FIRST record
\* of its transaction, which another thread of that transaction may have pushed.
WaiterAccounting ==
    \A k \in ResourceKey, x \in Txn : waiters[k][x] = Cardinality(BlockedOn(k, x))

\* The compatibility matrix of the header comment: what OTHERS hold decides.
Compatible(txn, key, mode) ==
    \/ held[key].holders \ {txn} = {}
    \/ mode = "Shared" /\ held[key].mode = "Shared"

\* notify_all comes after the mutex is dropped, so a waiter may be asleep while
\* its lock is free; but then some thread is still about to notify it.
NoLostWakeup ==
    \A t \in Thread :
        lockPc[t] = "waiting" /\ Compatible(call[t].txn, call[t].key, call[t].mode)
            => \E u \in Thread : lockPc[u] = "notify"

Exclusive(key) == held[key].holders # {} /\ held[key].mode = "Exclusive"

\* From the moment a lock is Exclusive until its last holder is gone, no step
\* adds a holder or makes it Shared again: row "Exclusive held" of the matrix.
ExclusiveUntilReleased ==
    [][\A k \in ResourceKey :
          Exclusive(k) => /\ held'[k].holders \subseteq held[k].holders
                          /\ held'[k].holders # {} => held'[k].mode = "Exclusive"]_lockVars

Crowded(key) == Exclusive(key) /\ ~ \E x \in Txn : held[key].holders = {x}

\* An Exclusive lock comes to have several holders in one way only: an explicit
\* transaction that held it Shared with others is granted Exclusive
\* (grantUnlocked's self-held branch).  Auto-commit statements never do it.
OnlyUpgradeCrowds ==
    [][\A k \in ResourceKey :
          Crowded(k)' /\ ~Crowded(k) =>
              /\ held[k].mode = "Shared"
              /\ held'[k].holders = held[k].holders
              /\ held[k].holders \cap Explicit # {}]_lockVars

\* A blocked acquire does not stay blocked while nothing held by others stands
\* in its way, with or without a deadline and with no spurious wakeup.
FreeLockIsGranted ==
    \A t \in Thread :
        []<>~(Blocked(t) /\ Compatible(call[t].txn, call[t].key, call[t].mode))

-----------------------------------------------------------------------------
(* What callers rely on, without threads and wakeups.                      *)

Service == INSTANCE LockService
           WITH Owner <- Txn, Resource <- ResourceKey

\* The lock manager implements the lock service: whatever waits, wakes up, times
\* out or is notified late, a lock changes only by a grant that what is held at
\* that moment allows, or by its owner's release.
ImplementsService == Service!ServiceSpec

-----------------------------------------------------------------------------
(* A comment of the code that holds among auto-commits only: no run checks *)
(* it.                                                                     *)

\* "Either a single Exclusive holder (exclusive mode) or a set of Shared holders
\* (shared mode)": the comment on struct Lock.
SingleExclusiveHolder == \A k \in ResourceKey : ~Crowded(k)
=============================================================================
