-------------------------- MODULE LockManagerProofs --------------------------
(***************************************************************************)
(* What holds of the lock manager for any number of threads, transactions, *)
(* tables and rows.  The invariants rest on each other in this order:      *)
(*                                                                         *)
(*    LockTypes           the shape of the state                           *)
(*    WaiterAccounting    one record per blocked thread; with it,          *)
(*                        LockTypeOK                                       *)
(*    NoLostWakeup        a sleeper whose lock is free will be notified    *)
(*    AutoCommitAlone     an auto-commit transaction blocks in one thread  *)
(*                        and holds nothing meanwhile; with it, the two    *)
(*                        action properties                                *)
(*                                                                         *)
(* Last, the lock manager implements LockService.                          *)
(***************************************************************************)
EXTENDS LockManager, FiniteSetTheorems, TLAPS

\* LockTypeOK without the bound on the waiter counts, which is not inductive.
LockTypes ==
    /\ held \in [ResourceKey -> Lock]
    /\ waiters \in [ResourceKey -> [Txn -> Nat]]
    /\ lockPc \in [Thread -> PC]
    /\ call \in [Thread -> Call \cup {NoCall}]
    /\ \A t \in Thread : Blocked(t) <=> call[t] # NoCall

\* The steps of the lock manager, with the two acquires and the two releases
\* taken together.
Step ==
    \/ \E t \in Thread, c \in Call : MayRequest(c.txn) /\ RequestLock(t, c)
    \/ \E t \in Thread, x \in Txn, ks \in SUBSET ResourceKey : Drop(t, x, ks)
    \/ \E t \in Thread : Recheck(t)
    \/ \E t \in Thread : TimeOut(t)
    \/ \E t \in Thread : SpuriousWakeup(t)
    \/ \E t \in Thread : NotifyAll(t)

\* The same whoever requests what: the steps of any program that uses the lock
\* manager.
AnyStep ==
    \/ \E t \in Thread, c \in Call : RequestLock(t, c)
    \/ \E t \in Thread, x \in Txn, ks \in SUBSET ResourceKey : Drop(t, x, ks)
    \/ \E t \in Thread : Recheck(t)
    \/ \E t \in Thread : TimeOut(t)
    \/ \E t \in Thread : SpuriousWakeup(t)
    \/ \E t \in Thread : NotifyAll(t)

\* LockNext is an instance of Step.
LEMMA NextIsStep == LockNext => Step
<1> SUFFICES ASSUME NEW t \in Thread,
                    \/ \E x \in Txn, k \in ResourceKey, m \in LockMode :
                          MayRequest(x) /\ (acquireKey(t, x, k, m) \/ tryAcquireKey(t, x, k, m))
                    \/ \E x \in Txn : release(t, x)
                    \/ \E x \in Txn, k \in ResourceKey : releaseKey(t, x, k)
                    \/ Recheck(t) \/ TimeOut(t) \/ SpuriousWakeup(t) \/ NotifyAll(t)
             PROVE  Step
  BY DEF LockNext
<1>1. CASE \E x \in Txn, k \in ResourceKey, m \in LockMode :
              MayRequest(x) /\ (acquireKey(t, x, k, m) \/ tryAcquireKey(t, x, k, m))
  <2>1. PICK x \in Txn, k \in ResourceKey, m \in LockMode :
              MayRequest(x) /\ (acquireKey(t, x, k, m) \/ tryAcquireKey(t, x, k, m))
    BY <1>1
  <2>2. ASSUME NEW b \in BOOLEAN
        PROVE  LET c == [txn |-> x, key |-> k, mode |-> m, bounded |-> b]
               IN  c \in Call /\ c.txn = x
    BY DEF Call
  <2>3. CASE acquireKey(t, x, k, m)
    BY <2>1, <2>2, <2>3 DEF Step, acquireKey
  <2>4. CASE tryAcquireKey(t, x, k, m)
    BY <2>1, <2>2, <2>4 DEF Step, tryAcquireKey
  <2>5. QED BY <2>1, <2>3, <2>4
<1>2. CASE \E x \in Txn : release(t, x)
  BY <1>2 DEF Step, release
<1>3. CASE \E x \in Txn, k \in ResourceKey : releaseKey(t, x, k)
  <2>1. PICK x \in Txn, k \in ResourceKey : Drop(t, x, {k})
    BY <1>3 DEF releaseKey
  <2>2. {k} \in SUBSET ResourceKey
    OBVIOUS
  <2>3. QED BY <2>1, <2>2 DEF Step
<1>4. CASE Recheck(t) \/ TimeOut(t) \/ SpuriousWakeup(t) \/ NotifyAll(t)
  BY <1>4 DEF Step
<1>5. QED BY <1>1, <1>2, <1>3, <1>4

LEMMA NextIsAnyStep == LockNext => AnyStep
<1>1. Step => AnyStep
  BY DEF Step, AnyStep
<1>2. QED BY <1>1, NextIsStep

-----------------------------------------------------------------------------
(* Types.                                                                  *)

\* A grant yields a lock, which the grantee holds.
LEMMA GrantedLockType ==
    ASSUME held \in [ResourceKey -> Lock],
           NEW x \in Txn, NEW k \in ResourceKey, NEW m \in LockMode
    PROVE  GrantedLock(x, k, m) \in Lock /\ x \in GrantedLock(x, k, m).holders
BY DEF GrantedLock, Lock, LockMode

\* A blocked thread has the arguments of its call.
LEMMA BlockedHasCall ==
    ASSUME LockTypes, NEW t \in Thread, Blocked(t)
    PROVE  /\ call[t] \in Call
           /\ call[t].txn \in Txn /\ call[t].key \in ResourceKey
           /\ call[t].mode \in LockMode /\ call[t].bounded \in BOOLEAN
BY DEF LockTypes, Call

\* Removing a transaction leaves locks.
LEMMA DroppedType ==
    ASSUME held \in [ResourceKey -> Lock], NEW x \in Txn, NEW ks \in SUBSET ResourceKey
    PROVE  Dropped(x, ks) \in [ResourceKey -> Lock]
BY DEF Dropped, Lock, LockMode, NoLock

\* What a nested update of a count does.
LEMMA CountUpdate ==
    ASSUME NEW S, NEW T, NEW f \in [S -> [T -> Nat]], NEW k \in S, NEW x \in T, NEW n \in Nat
    PROVE  LET g == [f EXCEPT ![k][x] = n] IN
           /\ g \in [S -> [T -> Nat]]
           /\ \A l \in S, y \in T : g[l][y] = IF l = k /\ y = x THEN n ELSE f[l][y]
<1> DEFINE h == [f[k] EXCEPT ![x] = n]
           g == [f EXCEPT ![k] = h]
<1>1. h \in [T -> Nat] /\ \A y \in T : h[y] = IF y = x THEN n ELSE f[k][y]
  OBVIOUS
<1>2. g = [f EXCEPT ![k][x] = n]
  OBVIOUS
<1> HIDE DEF h
<1>3. /\ g \in [S -> [T -> Nat]]
      /\ \A l \in S, y \in T : g[l][y] = IF l = k /\ y = x THEN n ELSE f[l][y]
  BY <1>1
<1> QED BY <1>2, <1>3

\* push_back adds one record of x on k and touches no other count.
LEMMA PushWaiterEffect ==
    ASSUME waiters \in [ResourceKey -> [Txn -> Nat]],
           NEW x \in Txn, NEW k \in ResourceKey, PushWaiter(x, k)
    PROVE  /\ waiters' \in [ResourceKey -> [Txn -> Nat]]
           /\ \A l \in ResourceKey, y \in Txn :
                 waiters'[l][y] = IF l = k /\ y = x THEN waiters[k][x] + 1 ELSE waiters[l][y]
<1>1. waiters[k][x] + 1 \in Nat
  OBVIOUS
<1>2. QED BY <1>1, CountUpdate DEF PushWaiter

\* The erase loop removes one record of x on k, if there is one.
LEMMA EraseWaiterEffect ==
    ASSUME waiters \in [ResourceKey -> [Txn -> Nat]],
           NEW x \in Txn, NEW k \in ResourceKey, EraseWaiter(x, k)
    PROVE  /\ waiters' \in [ResourceKey -> [Txn -> Nat]]
           /\ \A l \in ResourceKey, y \in Txn :
                 waiters'[l][y] = IF l = k /\ y = x /\ waiters[k][x] # 0
                                  THEN waiters[k][x] - 1 ELSE waiters[l][y]
<1> DEFINE n == IF waiters[k][x] = 0 THEN 0 ELSE waiters[k][x] - 1
<1>1. waiters[k][x] \in Nat /\ n \in Nat
  OBVIOUS
<1>2. waiters' = [waiters EXCEPT ![k][x] = n]
  BY DEF EraseWaiter
<1> HIDE DEF n
<1>3. /\ waiters' \in [ResourceKey -> [Txn -> Nat]]
      /\ \A l \in ResourceKey, y \in Txn :
            waiters'[l][y] = IF l = k /\ y = x THEN n ELSE waiters[l][y]
  BY <1>1, <1>2, CountUpdate
<1>4. QED BY <1>1, <1>3 DEF n

\* Every step preserves the shape of the state.
LEMMA LockTypesStep == LockTypes /\ [AnyStep]_lockVars => LockTypes'
<1> SUFFICES ASSUME LockTypes, AnyStep \/ UNCHANGED lockVars
             PROVE  LockTypes'
  OBVIOUS
<1> USE DEF Blocked, PC
<1>1. ASSUME NEW t \in Thread, NEW c \in Call, RequestLock(t, c)
      PROVE  LockTypes'
  <2>1. c.txn \in Txn /\ c.key \in ResourceKey /\ c.mode \in LockMode /\ c # NoCall
    BY NoCallAssumption DEF Call
  <2>2. CASE grantableUnlocked(c.txn, c.key, c.mode)
    <3>1. held' \in [ResourceKey -> Lock]
      BY <1>1, <2>1, <2>2, GrantedLockType DEF RequestLock, grantUnlocked, LockTypes
    <3>2. UNCHANGED <<waiters, lockPc, call>>
      BY <1>1, <2>2 DEF RequestLock
    <3>3. QED BY <3>1, <3>2 DEF LockTypes
  <2>3. CASE ~grantableUnlocked(c.txn, c.key, c.mode)
    <3>1. waiters' \in [ResourceKey -> [Txn -> Nat]]
      BY <1>1, <2>1, <2>3, PushWaiterEffect DEF RequestLock, LockTypes
    <3>2. QED BY <1>1, <2>1, <2>3, <3>1 DEF RequestLock, LockTypes
  <2>4. QED BY <2>2, <2>3
<1>2. ASSUME NEW t \in Thread, NEW x \in Txn, NEW ks \in SUBSET ResourceKey, Drop(t, x, ks)
      PROVE  LockTypes'
  <2>1. held' \in [ResourceKey -> Lock]
    BY <1>2, DroppedType DEF Drop, LockTypes
  <2>2. QED BY <1>2, <2>1 DEF Drop, LockTypes
<1>3. ASSUME NEW t \in Thread, Recheck(t)
      PROVE  LockTypes'
  <2> DEFINE c == call[t]
  <2>1. c \in Call /\ c.txn \in Txn /\ c.key \in ResourceKey /\ c.mode \in LockMode
    BY <1>3, BlockedHasCall DEF Recheck
  <2>2. CASE grantableUnlocked(c.txn, c.key, c.mode)
    <3>1. held' \in [ResourceKey -> Lock]
      BY <1>3, <2>1, <2>2, GrantedLockType DEF Recheck, grantUnlocked, LockTypes
    <3>2. waiters' \in [ResourceKey -> [Txn -> Nat]]
      BY <1>3, <2>1, <2>2, EraseWaiterEffect DEF Recheck, LockTypes
    <3>3. QED BY <1>3, <2>2, <3>1, <3>2 DEF Recheck, Return, LockTypes
  <2>3. CASE ~grantableUnlocked(c.txn, c.key, c.mode)
    BY <1>3, <2>3 DEF Recheck, LockTypes
  <2>4. QED BY <2>2, <2>3
<1>4. ASSUME NEW t \in Thread, TimeOut(t)
      PROVE  LockTypes'
  <2>1. call[t].txn \in Txn /\ call[t].key \in ResourceKey
    BY <1>4, BlockedHasCall DEF TimeOut
  <2>2. waiters' \in [ResourceKey -> [Txn -> Nat]]
    BY <1>4, <2>1, EraseWaiterEffect DEF TimeOut, LockTypes
  <2>3. QED BY <1>4, <2>2 DEF TimeOut, Return, LockTypes
<1>5. ASSUME NEW t \in Thread, SpuriousWakeup(t)
      PROVE  LockTypes'
  BY <1>5 DEF SpuriousWakeup, LockTypes
<1>6. ASSUME NEW t \in Thread, NotifyAll(t)
      PROVE  LockTypes'
  BY <1>6 DEF NotifyAll, LockTypes
<1>7. CASE UNCHANGED lockVars
  BY <1>7 DEF lockVars, LockTypes
<1>8. QED BY <1>1, <1>2, <1>3, <1>4, <1>5, <1>6, <1>7 DEF AnyStep

\* LockTypes is an invariant.
THEOREM LockTypesInvariant == LockSpec => []LockTypes
<1>1. LockInit => LockTypes
  BY NoCallAssumption DEF LockInit, LockTypes, NoLock, Lock, LockMode, PC, Blocked
<1>2. QED BY <1>1, LockTypesStep, NextIsAnyStep, PTL DEF LockSpec

-----------------------------------------------------------------------------
(* The waiter records.                                                     *)

\* The threads blocked on a resource for a transaction are finitely many.
LEMMA BlockedOnFinite ==
    ASSUME NEW k, NEW x
    PROVE  /\ IsFiniteSet(BlockedOn(k, x))
           /\ Cardinality(BlockedOn(k, x)) \in Nat
           /\ Cardinality(BlockedOn(k, x)) <= Cardinality(Thread)
<1>1. BlockedOn(k, x) \subseteq Thread
  BY DEF BlockedOn
<1>2. QED BY <1>1, ThreadAssumption, FS_Subset, FS_CardinalityType

\* A request that blocks pushes its one record.
LEMMA AccountingPush ==
    ASSUME LockTypes, WaiterAccounting, NEW t \in Thread, NEW c \in Call, ~Blocked(t),
           PushWaiter(c.txn, c.key),
           lockPc' = [lockPc EXCEPT ![t] = "waiting"],
           call' = [call EXCEPT ![t] = c]
    PROVE  WaiterAccounting'
<1> SUFFICES ASSUME NEW k \in ResourceKey, NEW x \in Txn
             PROVE  waiters'[k][x] = Cardinality(BlockedOn(k, x)')
  BY DEF WaiterAccounting
<1>1. c.txn \in Txn /\ c.key \in ResourceKey
  BY DEF Call
<1>2. waiters'[k][x] = IF k = c.key /\ x = c.txn THEN waiters[k][x] + 1 ELSE waiters[k][x]
  BY <1>1, PushWaiterEffect DEF LockTypes
<1>3. waiters[k][x] = Cardinality(BlockedOn(k, x)) /\ IsFiniteSet(BlockedOn(k, x))
  BY BlockedOnFinite DEF WaiterAccounting
<1>4. CASE k = c.key /\ x = c.txn
  <2>1. BlockedOn(k, x)' = BlockedOn(k, x) \cup {t}
    BY <1>4 DEF BlockedOn, Blocked, LockTypes
  <2>2. t \notin BlockedOn(k, x)
    BY DEF BlockedOn
  <2>3. Cardinality(BlockedOn(k, x) \cup {t}) = Cardinality(BlockedOn(k, x)) + 1
    BY <1>3, <2>2, FS_AddElement
  <2>4. QED BY <1>2, <1>3, <1>4, <2>1, <2>3
<1>5. CASE ~(k = c.key /\ x = c.txn)
  <2>1. BlockedOn(k, x)' = BlockedOn(k, x)
    BY <1>5 DEF BlockedOn, Blocked, LockTypes
  <2>2. QED BY <1>2, <1>3, <1>5, <2>1
<1>6. QED BY <1>4, <1>5

\* A blocked request that ends erases one record, and there is one to erase.
LEMMA AccountingErase ==
    ASSUME LockTypes, WaiterAccounting, NEW t \in Thread, Blocked(t),
           EraseWaiter(call[t].txn, call[t].key), Return(t)
    PROVE  WaiterAccounting'
<1> SUFFICES ASSUME NEW k \in ResourceKey, NEW x \in Txn
             PROVE  waiters'[k][x] = Cardinality(BlockedOn(k, x)')
  BY DEF WaiterAccounting
<1> DEFINE c == call[t]
<1>1. c.txn \in Txn /\ c.key \in ResourceKey
  BY BlockedHasCall
<1>2. waiters'[k][x] = IF k = c.key /\ x = c.txn /\ waiters[k][x] # 0
                       THEN waiters[k][x] - 1 ELSE waiters[k][x]
  BY <1>1, EraseWaiterEffect DEF LockTypes
<1>3. waiters[k][x] = Cardinality(BlockedOn(k, x)) /\ IsFiniteSet(BlockedOn(k, x))
  BY BlockedOnFinite DEF WaiterAccounting
<1>4. CASE k = c.key /\ x = c.txn
  <2>1. BlockedOn(k, x)' = BlockedOn(k, x) \ {t}
    BY <1>4 DEF BlockedOn, Blocked, Return, LockTypes
  <2>2. t \in BlockedOn(k, x)
    BY <1>4 DEF BlockedOn
  <2>3. Cardinality(BlockedOn(k, x)) # 0
    BY <1>3, <2>2, FS_EmptySet
  <2>4. QED BY <1>2, <1>3, <1>4, <2>1, <2>2, <2>3, FS_RemoveElement
<1>5. CASE ~(k = c.key /\ x = c.txn)
  <2>1. BlockedOn(k, x)' = BlockedOn(k, x)
    BY <1>5 DEF BlockedOn, Blocked, Return, LockTypes
  <2>2. QED BY <1>2, <1>3, <1>5, <2>1
<1>6. QED BY <1>4, <1>5

\* A step that blocks and unblocks nobody leaves the accounts alone.
LEMMA AccountingSame ==
    ASSUME WaiterAccounting, UNCHANGED <<waiters, call>>,
           \A u \in Thread : Blocked(u)' <=> Blocked(u)
    PROVE  WaiterAccounting'
<1>1. \A k \in ResourceKey, x \in Txn : BlockedOn(k, x)' = BlockedOn(k, x)
  BY DEF BlockedOn
<1>2. QED BY <1>1 DEF WaiterAccounting

\* Every step keeps one record per blocked thread.
LEMMA WaiterAccountingStep ==
    LockTypes /\ WaiterAccounting /\ [AnyStep]_lockVars => WaiterAccounting'
<1> SUFFICES ASSUME LockTypes, WaiterAccounting, AnyStep \/ UNCHANGED lockVars
             PROVE  WaiterAccounting'
  OBVIOUS
<1>1. ASSUME NEW t \in Thread, NEW c \in Call, RequestLock(t, c)
      PROVE  WaiterAccounting'
  <2>1. ~Blocked(t)
    BY <1>1 DEF RequestLock, Blocked
  <2>2. CASE grantableUnlocked(c.txn, c.key, c.mode)
    BY <1>1, <2>2, AccountingSame DEF RequestLock, Blocked
  <2>3. CASE ~grantableUnlocked(c.txn, c.key, c.mode)
    BY <1>1, <2>1, <2>3, AccountingPush DEF RequestLock
  <2>4. QED BY <2>2, <2>3
<1>2. ASSUME NEW t \in Thread, NEW x \in Txn, NEW ks \in SUBSET ResourceKey, Drop(t, x, ks)
      PROVE  WaiterAccounting'
  <2>1. \A u \in Thread : Blocked(u)' <=> Blocked(u)
    BY <1>2 DEF Drop, Blocked, LockTypes
  <2>2. QED BY <1>2, <2>1, AccountingSame DEF Drop
<1>3. ASSUME NEW t \in Thread, Recheck(t)
      PROVE  WaiterAccounting'
  <2>1. Blocked(t)
    BY <1>3 DEF Recheck, Blocked
  <2>2. CASE grantableUnlocked(call[t].txn, call[t].key, call[t].mode)
    BY <1>3, <2>1, <2>2, AccountingErase DEF Recheck
  <2>3. CASE ~grantableUnlocked(call[t].txn, call[t].key, call[t].mode)
    <3>1. \A u \in Thread : Blocked(u)' <=> Blocked(u)
      BY <1>3, <2>3 DEF Recheck, Blocked, LockTypes
    <3>2. QED BY <1>3, <2>3, <3>1, AccountingSame DEF Recheck
  <2>4. QED BY <2>2, <2>3
<1>4. ASSUME NEW t \in Thread, TimeOut(t)
      PROVE  WaiterAccounting'
  BY <1>4, AccountingErase DEF TimeOut
<1>5. ASSUME NEW t \in Thread, SpuriousWakeup(t)
      PROVE  WaiterAccounting'
  <2>1. \A u \in Thread : Blocked(u)' <=> Blocked(u)
    BY <1>5 DEF SpuriousWakeup, Blocked, LockTypes
  <2>2. QED BY <1>5, <2>1, AccountingSame DEF SpuriousWakeup
<1>6. ASSUME NEW t \in Thread, NotifyAll(t)
      PROVE  WaiterAccounting'
  <2>1. \A u \in Thread : Blocked(u)' <=> Blocked(u)
    BY <1>6 DEF NotifyAll, Blocked, LockTypes
  <2>2. QED BY <1>6, <2>1, AccountingSame DEF NotifyAll
<1>7. CASE UNCHANGED lockVars
  BY <1>7, AccountingSame DEF lockVars, Blocked
<1>8. QED BY <1>1, <1>2, <1>3, <1>4, <1>5, <1>6, <1>7 DEF AnyStep

\* waiters_ holds exactly the records of the blocked threads, for any number of
\* threads: what detectCycle reads of it is never stale.
THEOREM WaiterAccountingInvariant == LockSpec => []WaiterAccounting
<1>1. LockInit => WaiterAccounting
  <2> SUFFICES ASSUME LockInit, NEW k \in ResourceKey, NEW x \in Txn
               PROVE  waiters[k][x] = Cardinality(BlockedOn(k, x))
    BY DEF WaiterAccounting
  <2>1. BlockedOn(k, x) = {}
    BY DEF LockInit, BlockedOn, Blocked
  <2>2. QED BY <2>1, FS_EmptySet DEF LockInit
<1>2. QED BY <1>1, WaiterAccountingStep, NextIsAnyStep, LockTypesInvariant, PTL DEF LockSpec

\* LockTypeOK, the bound on the records included: no record outlives its request.
THEOREM TypeCorrect == LockSpec => []LockTypeOK
<1>1. LockTypes /\ WaiterAccounting => LockTypeOK
  <2> SUFFICES ASSUME LockTypes, WaiterAccounting
               PROVE  waiters \in [ResourceKey -> [Txn -> 0..Cardinality(Thread)]]
    BY DEF LockTypes, LockTypeOK
  <2>1. Cardinality(Thread) \in Nat
    BY ThreadAssumption, FS_CardinalityType
  <2>2. \A k \in ResourceKey, x \in Txn : waiters[k][x] \in 0..Cardinality(Thread)
    BY <2>1, BlockedOnFinite DEF WaiterAccounting
  <2>3. QED BY <2>2 DEF LockTypes
<1>2. QED BY <1>1, LockTypesInvariant, WaiterAccountingInvariant, PTL

-----------------------------------------------------------------------------
(* Wakeups.                                                                *)

\* A grant to anyone makes no waiting request compatible that was not.
LEMMA GrantCompatible ==
    ASSUME LockTypes, NEW y \in Txn, NEW l \in ResourceKey, NEW n \in LockMode,
           grantableUnlocked(y, l, n), grantUnlocked(y, l, n),
           NEW x \in Txn, NEW k \in ResourceKey, NEW m \in LockMode, Compatible(x, k, m)'
    PROVE  Compatible(x, k, m)
<1>1. held'[k] = IF k = l THEN GrantedLock(y, l, n) ELSE held[k]
  BY DEF grantUnlocked, LockTypes
<1>2. CASE k # l
  BY <1>1, <1>2 DEF Compatible
<1>3. CASE k = l
  <2>1. held'[k] = GrantedLock(y, k, n) /\ held[k] \in Lock
    BY <1>1, <1>3 DEF LockTypes
  <2>2. QED
    BY <1>3, <2>1 DEF Compatible, GrantedLock, grantableUnlocked, Lock, LockMode
<1>4. QED BY <1>2, <1>3

\* A request that has to wait is not compatible.
LEMMA DeniedIsIncompatible ==
    ASSUME NEW x, NEW k, NEW m, ~grantableUnlocked(x, k, m)
    PROVE  ~Compatible(x, k, m)
BY DEF grantableUnlocked, Compatible

\* A release that owes no notification changes no lock.
LEMMA SilentDrop ==
    ASSUME LockTypes, NEW x, NEW ks, \A k \in ks : x \notin held[k].holders
    PROVE  Dropped(x, ks) = held
<1>1. \A k \in ResourceKey : Dropped(x, ks)[k] = held[k]
  BY DEF Dropped
<1>2. QED BY <1>1 DEF Dropped, LockTypes

\* Every step leaves a sleeper whose lock is free a notification to come.
LEMMA NoLostWakeupStep ==
    LockTypes /\ NoLostWakeup /\ [AnyStep]_lockVars => NoLostWakeup'
<1> SUFFICES ASSUME LockTypes, NoLostWakeup, AnyStep \/ UNCHANGED lockVars,
                    NEW w \in Thread, lockPc'[w] = "waiting",
                    Compatible(call[w].txn, call[w].key, call[w].mode)'
             PROVE  \E u \in Thread : lockPc'[u] = "notify"
  BY DEF NoLostWakeup
<1> DEFINE c == call[w]
<1>w. ASSUME lockPc[w] = "waiting" PROVE c \in Call /\ c.txn \in Txn /\ c.key \in ResourceKey
                                     /\ c.mode \in LockMode
  BY <1>w, BlockedHasCall DEF Blocked
<1>1. ASSUME NEW t \in Thread, NEW d \in Call, RequestLock(t, d)
      PROVE  \E u \in Thread : lockPc'[u] = "notify"
  <2>1. d.txn \in Txn /\ d.key \in ResourceKey /\ d.mode \in LockMode
    BY DEF Call
  <2>2. CASE grantableUnlocked(d.txn, d.key, d.mode)
    <3>1. UNCHANGED <<lockPc, call>> /\ grantUnlocked(d.txn, d.key, d.mode)
      BY <1>1, <2>2 DEF RequestLock
    <3>2. Compatible(c.txn, c.key, c.mode)
      BY <1>w, <2>1, <2>2, <3>1, GrantCompatible DEF Compatible
    <3>3. QED BY <3>1, <3>2 DEF NoLostWakeup
  <2>3. CASE ~grantableUnlocked(d.txn, d.key, d.mode)
    <3>1. /\ UNCHANGED held
          /\ lockPc' = [lockPc EXCEPT ![t] = "waiting"] /\ call' = [call EXCEPT ![t] = d]
          /\ lockPc[t] = "idle"
      BY <1>1, <2>3 DEF RequestLock
    <3>2. w # t
      BY <2>3, <3>1, DeniedIsIncompatible DEF Compatible, LockTypes
    <3>3. lockPc[w] = "waiting" /\ call'[w] = call[w]
      BY <3>1, <3>2 DEF LockTypes
    <3>4. PICK u \in Thread : lockPc[u] = "notify"
      BY <3>1, <3>3 DEF NoLostWakeup, Compatible
    <3>5. QED BY <3>1, <3>4 DEF LockTypes
  <2>4. QED BY <2>2, <2>3
<1>2. ASSUME NEW t \in Thread, NEW x \in Txn, NEW ks \in SUBSET ResourceKey, Drop(t, x, ks)
      PROVE  \E u \in Thread : lockPc'[u] = "notify"
  <2>1. CASE \E k \in ks : x \in held[k].holders
    BY <1>2, <2>1 DEF Drop, LockTypes
  <2>2. CASE \A k \in ks : x \notin held[k].holders
    <3>1. held' = held /\ lockPc' = lockPc /\ call' = call
      BY <1>2, <2>2, SilentDrop DEF Drop, LockTypes
    <3>2. QED BY <3>1 DEF NoLostWakeup, Compatible
  <2>3. QED BY <2>1, <2>2
<1>3. ASSUME NEW t \in Thread, Recheck(t)
      PROVE  \E u \in Thread : lockPc'[u] = "notify"
  <2> DEFINE d == call[t]
  <2>1. d.txn \in Txn /\ d.key \in ResourceKey /\ d.mode \in LockMode /\ lockPc[t] = "woken"
    BY <1>3, BlockedHasCall DEF Recheck, Blocked
  <2>2. CASE grantableUnlocked(d.txn, d.key, d.mode)
    <3>1. /\ lockPc' = [lockPc EXCEPT ![t] = "idle"] /\ call' = [call EXCEPT ![t] = NoCall]
          /\ grantUnlocked(d.txn, d.key, d.mode)
      BY <1>3, <2>2 DEF Recheck, Return
    <3>2. lockPc[w] = "waiting" /\ call'[w] = call[w] /\ w # t
      BY <3>1 DEF LockTypes
    <3>3. Compatible(c.txn, c.key, c.mode)
      BY <1>w, <2>1, <2>2, <3>1, <3>2, GrantCompatible DEF Compatible
    <3>4. PICK u \in Thread : lockPc[u] = "notify"
      BY <3>2, <3>3 DEF NoLostWakeup
    <3>5. QED BY <2>1, <3>1, <3>4 DEF LockTypes
  <2>3. CASE ~grantableUnlocked(d.txn, d.key, d.mode)
    <3>1. lockPc' = [lockPc EXCEPT ![t] = "waiting"] /\ UNCHANGED <<held, call>>
      BY <1>3, <2>3 DEF Recheck
    <3>2. w # t
      BY <2>3, <3>1, DeniedIsIncompatible DEF Compatible
    <3>3. PICK u \in Thread : lockPc[u] = "notify"
      BY <3>1, <3>2 DEF NoLostWakeup, Compatible, LockTypes
    <3>4. QED BY <2>1, <3>1, <3>3 DEF LockTypes
  <2>4. QED BY <2>2, <2>3
<1>4. ASSUME NEW t \in Thread, TimeOut(t)
      PROVE  \E u \in Thread : lockPc'[u] = "notify"
  <2>1. /\ lockPc' = [lockPc EXCEPT ![t] = "idle"] /\ call' = [call EXCEPT ![t] = NoCall]
        /\ UNCHANGED held /\ lockPc[t] \in {"waiting", "woken"}
    BY <1>4 DEF TimeOut, Return, Blocked
  <2>2. PICK u \in Thread : lockPc[u] = "notify"
    BY <2>1 DEF NoLostWakeup, Compatible, LockTypes
  <2>3. QED BY <2>1, <2>2 DEF LockTypes
<1>5. ASSUME NEW t \in Thread, SpuriousWakeup(t)
      PROVE  \E u \in Thread : lockPc'[u] = "notify"
  BY <1>5 DEF SpuriousWakeup, NoLostWakeup, Compatible, LockTypes
<1>6. ASSUME NEW t \in Thread, NotifyAll(t)
      PROVE  \E u \in Thread : lockPc'[u] = "notify"
  BY <1>6 DEF NotifyAll
<1>7. CASE UNCHANGED lockVars
  BY <1>7 DEF lockVars, NoLostWakeup, Compatible
<1>8. QED BY <1>1, <1>2, <1>3, <1>4, <1>5, <1>6, <1>7 DEF AnyStep

\* No wakeup is lost, although release() notifies after it has dropped the mutex
\* and one condition variable serves every resource.
THEOREM NoLostWakeupInvariant == LockSpec => []NoLostWakeup
<1>1. LockInit => NoLostWakeup
  BY DEF LockInit, NoLostWakeup
<1>2. QED BY <1>1, NoLostWakeupStep, NextIsAnyStep, LockTypesInvariant, PTL DEF LockSpec

-----------------------------------------------------------------------------
(* Exclusion.                                                              *)

\* An auto-commit transaction blocks in at most one thread, and holds nothing
\* while it does.
AutoCommitAlone ==
    /\ \A t \in Thread : Blocked(t) /\ call[t].txn \notin Explicit
          => \A k \in ResourceKey : call[t].txn \notin held[k].holders
    /\ \A t, u \in Thread : /\ Blocked(t) /\ Blocked(u)
                            /\ call[t].txn = call[u].txn /\ call[t].txn \notin Explicit
          => t = u

\* A grant adds its grantee to one lock and no other holder anywhere.
LEMMA GrantHolders ==
    ASSUME LockTypes, NEW x \in Txn, NEW k \in ResourceKey, NEW m \in LockMode,
           grantUnlocked(x, k, m)
    PROVE  \A l \in ResourceKey : held'[l].holders \subseteq held[l].holders \cup {x}
<1> TAKE l \in ResourceKey
<1>1. held'[l] = IF l = k THEN GrantedLock(x, k, m) ELSE held[l]
  BY DEF grantUnlocked, LockTypes
<1>2. held[l] \in Lock
  BY DEF LockTypes
<1>3. QED BY <1>1, <1>2 DEF GrantedLock, Lock

\* A release adds no holder, and keeps the mode of a lock that is still held.
LEMMA DropHolders ==
    ASSUME LockTypes, NEW x, NEW ks, NEW l \in ResourceKey
    PROVE  /\ Dropped(x, ks)[l].holders \subseteq held[l].holders
           /\ Dropped(x, ks)[l].holders # {} => Dropped(x, ks)[l].mode = held[l].mode
<1>1. held[l] \in Lock
  BY DEF LockTypes
<1>2. QED BY <1>1 DEF Dropped, NoLock, Lock

\* Every step keeps auto-commit transactions to one request at a time.
LEMMA AutoCommitAloneStep ==
    LockTypes /\ AutoCommitAlone /\ [LockNext]_lockVars => AutoCommitAlone'
<1> SUFFICES ASSUME LockTypes, AutoCommitAlone, Step \/ UNCHANGED lockVars
             PROVE  AutoCommitAlone'
  BY NextIsStep
<1>1. ASSUME NEW t \in Thread, NEW c \in Call, MayRequest(c.txn), RequestLock(t, c)
      PROVE  AutoCommitAlone'
  <2>1. c.txn \in Txn /\ c.key \in ResourceKey /\ c.mode \in LockMode
    BY DEF Call
  <2>2. CASE grantableUnlocked(c.txn, c.key, c.mode)
    <3>1. UNCHANGED <<lockPc, call>> /\ grantUnlocked(c.txn, c.key, c.mode)
      BY <1>1, <2>2 DEF RequestLock
    <3>2. \A l \in ResourceKey : held'[l].holders \subseteq held[l].holders \cup {c.txn}
      BY <2>1, <3>1, GrantHolders
    <3>3. c.txn \in Explicit \/ \A u \in Thread : Blocked(u) => call[u].txn # c.txn
      BY <1>1 DEF MayRequest
    <3>4. QED BY <3>1, <3>2, <3>3 DEF AutoCommitAlone, Blocked
  <2>3. CASE ~grantableUnlocked(c.txn, c.key, c.mode)
    <3>1. /\ UNCHANGED held
          /\ lockPc' = [lockPc EXCEPT ![t] = "waiting"] /\ call' = [call EXCEPT ![t] = c]
      BY <1>1, <2>3 DEF RequestLock
    <3>2. \/ c.txn \in Explicit
          \/ /\ \A k \in ResourceKey : c.txn \notin held[k].holders
             /\ \A u \in Thread : Blocked(u) => call[u].txn # c.txn
      BY <1>1 DEF MayRequest
    <3>3. \A u \in Thread : u # t => lockPc'[u] = lockPc[u] /\ call'[u] = call[u]
      BY <3>1 DEF LockTypes
    <3>4. call'[t] = c
      BY <3>1 DEF LockTypes
    <3>5. QED BY <3>1, <3>2, <3>3, <3>4 DEF AutoCommitAlone, Blocked
  <2>4. QED BY <2>2, <2>3
<1>2. ASSUME NEW t \in Thread, NEW x \in Txn, NEW ks \in SUBSET ResourceKey, Drop(t, x, ks)
      PROVE  AutoCommitAlone'
  <2>1. \A u \in Thread : Blocked(u)' <=> Blocked(u)
    BY <1>2 DEF Drop, Blocked, LockTypes
  <2>2. \A l \in ResourceKey : held'[l].holders \subseteq held[l].holders
    BY <1>2, DropHolders DEF Drop
  <2>3. QED BY <1>2, <2>1, <2>2 DEF Drop, AutoCommitAlone
<1>3. ASSUME NEW t \in Thread, Recheck(t)
      PROVE  AutoCommitAlone'
  <2> DEFINE c == call[t]
  <2>1. c.txn \in Txn /\ c.key \in ResourceKey /\ c.mode \in LockMode /\ Blocked(t)
    BY <1>3, BlockedHasCall DEF Recheck, Blocked
  <2>2. CASE grantableUnlocked(c.txn, c.key, c.mode)
    <3>1. /\ lockPc' = [lockPc EXCEPT ![t] = "idle"] /\ call' = [call EXCEPT ![t] = NoCall]
          /\ grantUnlocked(c.txn, c.key, c.mode)
      BY <1>3, <2>2 DEF Recheck, Return
    <3>2. \A l \in ResourceKey : held'[l].holders \subseteq held[l].holders \cup {c.txn}
      BY <2>1, <3>1, GrantHolders
    <3>3. \A u \in Thread : u # t => lockPc'[u] = lockPc[u] /\ call'[u] = call[u]
      BY <3>1 DEF LockTypes
    <3>4. ~Blocked(t)'
      BY <3>1 DEF Blocked, LockTypes
    <3>5. \A u \in Thread : Blocked(u)' => Blocked(u) /\ u # t /\ call'[u] = call[u]
      BY <3>3, <3>4 DEF Blocked
    <3>6. QED BY <2>1, <3>2, <3>5 DEF AutoCommitAlone
  <2>3. CASE ~grantableUnlocked(c.txn, c.key, c.mode)
    BY <1>3, <2>3 DEF Recheck, AutoCommitAlone, Blocked, LockTypes
  <2>4. QED BY <2>2, <2>3
<1>4. ASSUME NEW t \in Thread, TimeOut(t)
      PROVE  AutoCommitAlone'
  <2>1. \A u \in Thread : Blocked(u)' => Blocked(u) /\ call'[u] = call[u]
    BY <1>4 DEF TimeOut, Return, Blocked, LockTypes
  <2>2. QED BY <1>4, <2>1 DEF TimeOut, AutoCommitAlone
<1>5. ASSUME NEW t \in Thread, SpuriousWakeup(t)
      PROVE  AutoCommitAlone'
  BY <1>5 DEF SpuriousWakeup, AutoCommitAlone, Blocked, LockTypes
<1>6. ASSUME NEW t \in Thread, NotifyAll(t)
      PROVE  AutoCommitAlone'
  BY <1>6 DEF NotifyAll, AutoCommitAlone, Blocked, LockTypes
<1>7. CASE UNCHANGED lockVars
  BY <1>7 DEF lockVars, AutoCommitAlone, Blocked
<1>8. QED BY <1>1, <1>2, <1>3, <1>4, <1>5, <1>6, <1>7 DEF Step

\* AutoCommitAlone is an invariant.
LEMMA AutoCommitAloneInvariant == LockSpec => []AutoCommitAlone
<1>1. LockInit => AutoCommitAlone
  BY DEF LockInit, AutoCommitAlone, Blocked
<1>2. QED BY <1>1, AutoCommitAloneStep, LockTypesInvariant, PTL DEF LockSpec

\* What a step may do to a lock: grant a grantable request, for a transaction
\* that is explicit if it holds the lock already, or take a holder away.
LEMMA LockSteps ==
    ASSUME LockTypes, AutoCommitAlone, [LockNext]_lockVars, NEW k \in ResourceKey
    PROVE  \/ held'[k] = held[k]
           \/ \E x \in Txn, m \in LockMode :
                 /\ grantableUnlocked(x, k, m) /\ held'[k] = GrantedLock(x, k, m)
                 /\ x \in held[k].holders => x \in Explicit
           \/ /\ held'[k].holders \subseteq held[k].holders
              /\ held'[k].holders # {} => held'[k].mode = held[k].mode
<1> SUFFICES ASSUME Step \/ UNCHANGED lockVars, held'[k] # held[k]
             PROVE  \/ \E x \in Txn, m \in LockMode :
                          /\ grantableUnlocked(x, k, m) /\ held'[k] = GrantedLock(x, k, m)
                          /\ x \in held[k].holders => x \in Explicit
                    \/ /\ held'[k].holders \subseteq held[k].holders
                       /\ held'[k].holders # {} => held'[k].mode = held[k].mode
  BY NextIsStep
<1>1. ASSUME NEW t \in Thread, NEW c \in Call, MayRequest(c.txn), RequestLock(t, c)
      PROVE  \E x \in Txn, m \in LockMode :
                 /\ grantableUnlocked(x, k, m) /\ held'[k] = GrantedLock(x, k, m)
                 /\ x \in held[k].holders => x \in Explicit
  <2>1. c.txn \in Txn /\ c.key \in ResourceKey /\ c.mode \in LockMode
    BY DEF Call
  <2>2. grantableUnlocked(c.txn, c.key, c.mode) /\ grantUnlocked(c.txn, c.key, c.mode)
    BY <1>1 DEF RequestLock
  <2>3. c.key = k /\ held'[k] = GrantedLock(c.txn, k, c.mode)
    BY <2>1, <2>2 DEF grantUnlocked, LockTypes
  <2>4. c.txn \in held[k].holders => c.txn \in Explicit
    BY <1>1 DEF MayRequest
  <2>5. QED BY <2>1, <2>2, <2>3, <2>4
<1>2. ASSUME NEW t \in Thread, NEW x \in Txn, NEW ks \in SUBSET ResourceKey, Drop(t, x, ks)
      PROVE  /\ held'[k].holders \subseteq held[k].holders
             /\ held'[k].holders # {} => held'[k].mode = held[k].mode
  BY <1>2, DropHolders DEF Drop
<1>3. ASSUME NEW t \in Thread, Recheck(t)
      PROVE  \E x \in Txn, m \in LockMode :
                 /\ grantableUnlocked(x, k, m) /\ held'[k] = GrantedLock(x, k, m)
                 /\ x \in held[k].holders => x \in Explicit
  <2> DEFINE c == call[t]
  <2>1. c.txn \in Txn /\ c.key \in ResourceKey /\ c.mode \in LockMode /\ Blocked(t)
    BY <1>3, BlockedHasCall DEF Recheck, Blocked
  <2>2. grantableUnlocked(c.txn, c.key, c.mode) /\ grantUnlocked(c.txn, c.key, c.mode)
    BY <1>3 DEF Recheck
  <2>3. c.key = k /\ held'[k] = GrantedLock(c.txn, k, c.mode)
    BY <2>1, <2>2 DEF grantUnlocked, LockTypes
  <2>4. c.txn \in held[k].holders => c.txn \in Explicit
    BY <2>1 DEF AutoCommitAlone
  <2>5. QED BY <2>1, <2>2, <2>3, <2>4
<1>4. ASSUME UNCHANGED held PROVE FALSE
  BY <1>4
<1>5. QED
  BY <1>1, <1>2, <1>3, <1>4 DEF Step, TimeOut, SpuriousWakeup, NotifyAll, lockVars

\* Row "Exclusive held" of the compatibility matrix: no step adds a holder to an
\* Exclusive lock or makes it Shared before its last holder has gone.
THEOREM ExclusiveUntilReleasedHolds == LockSpec => ExclusiveUntilReleased
<1>1. ASSUME LockTypes, AutoCommitAlone, [LockNext]_lockVars, NEW k \in ResourceKey, Exclusive(k)
      PROVE  /\ held'[k].holders \subseteq held[k].holders
             /\ held'[k].holders # {} => held'[k].mode = "Exclusive"
  <2>1. held[k] \in Lock
    BY <1>1 DEF LockTypes
  <2>2. ASSUME NEW x \in Txn, NEW m \in LockMode, grantableUnlocked(x, k, m)
        PROVE  GrantedLock(x, k, m) = held[k]
    BY <1>1, <2>1, <2>2 DEF GrantedLock, grantableUnlocked, Exclusive, Lock, LockMode
  <2>3. QED BY <1>1, <2>2, LockSteps DEF Exclusive
<1>2. LockTypes /\ AutoCommitAlone /\ [LockNext]_lockVars =>
        [\A k \in ResourceKey :
            Exclusive(k) => /\ held'[k].holders \subseteq held[k].holders
                            /\ held'[k].holders # {} => held'[k].mode = "Exclusive"]_lockVars
  BY <1>1
<1>3. QED
  BY <1>2, LockTypesInvariant, AutoCommitAloneInvariant, PTL DEF LockSpec, ExclusiveUntilReleased

\* A step that leaves an Exclusive lock with several holders where there was none
\* is the upgrade of a Shared lock by an explicit transaction.
LEMMA CrowdingStep ==
    ASSUME LockTypes, AutoCommitAlone, [LockNext]_lockVars, NEW k \in ResourceKey,
           Crowded(k)', ~Crowded(k)
    PROVE  /\ held[k].mode = "Shared"
           /\ held'[k].holders = held[k].holders
           /\ held[k].holders \cap Explicit # {}
<1>1. held[k] \in Lock
  BY DEF LockTypes
<1>2. held'[k] # held[k]
  BY DEF Crowded, Exclusive
<1>3. ASSUME held'[k].holders \subseteq held[k].holders,
             held'[k].holders # {} => held'[k].mode = held[k].mode
      PROVE  FALSE
  <2>1. Exclusive(k)
    BY <1>3 DEF Crowded, Exclusive
  <2>2. PICK x \in Txn : held[k].holders = {x}
    BY <2>1 DEF Crowded
  <2>3. held'[k].holders = {x}
    BY <1>3, <2>2 DEF Crowded, Exclusive
  <2>4. QED BY <2>3 DEF Crowded
<1>4. PICK x \in Txn, m \in LockMode :
           /\ grantableUnlocked(x, k, m) /\ held'[k] = GrantedLock(x, k, m)
           /\ x \in held[k].holders => x \in Explicit
  BY <1>2, <1>3, LockSteps
<1>5. x \in held[k].holders
  <2>1. CASE held[k].holders = {}
    BY <1>4, <2>1 DEF Crowded, GrantedLock
  <2>2. CASE held[k].holders # {} /\ x \notin held[k].holders
    BY <1>1, <1>4, <2>2 DEF Crowded, Exclusive, GrantedLock, grantableUnlocked, Lock, LockMode
  <2>3. QED BY <2>1, <2>2
<1>6. held[k].mode = "Shared" /\ held'[k].holders = held[k].holders
  BY <1>1, <1>2, <1>4, <1>5 DEF GrantedLock, Lock, LockMode
<1>7. QED BY <1>4, <1>5, <1>6

\* An Exclusive lock gets several holders by an upgrade of an explicit
\* transaction, never by a request of an auto-commit statement.
THEOREM OnlyUpgradeCrowdsHolds == LockSpec => OnlyUpgradeCrowds
<1>1. LockTypes /\ AutoCommitAlone /\ [LockNext]_lockVars =>
        [\A k \in ResourceKey :
            Crowded(k)' /\ ~Crowded(k) =>
                /\ held[k].mode = "Shared"
                /\ held'[k].holders = held[k].holders
                /\ held[k].holders \cap Explicit # {}]_lockVars
  BY CrowdingStep
<1>2. QED
  BY <1>1, LockTypesInvariant, AutoCommitAloneInvariant, PTL DEF LockSpec, OnlyUpgradeCrowds

\* A server whose clients send only auto-commit statements has what the comment on
\* struct Lock promises: an Exclusive lock has one holder.
THEOREM AutoCommitExclusion ==
    ASSUME Explicit = {}
    PROVE  LockSpec => []SingleExclusiveHolder
<1>1. LockInit => SingleExclusiveHolder
  BY DEF LockInit, SingleExclusiveHolder, Crowded, Exclusive, NoLock
<1>2. LockTypes /\ AutoCommitAlone /\ SingleExclusiveHolder /\ [LockNext]_lockVars
        => SingleExclusiveHolder'
  BY CrowdingStep DEF SingleExclusiveHolder
<1>3. QED
  BY <1>1, <1>2, LockTypesInvariant, AutoCommitAloneInvariant, PTL DEF LockSpec

-----------------------------------------------------------------------------
(* The lock manager implements the lock service.                           *)

\* A grant of the lock manager is a grant of the service.
LEMMA GrantIsService ==
    ASSUME LockTypes, NEW x \in Txn, NEW k \in ResourceKey, NEW m \in LockMode,
           grantableUnlocked(x, k, m), grantUnlocked(x, k, m)
    PROVE  Service!Grant(x, k, m)
<1>1. held[k] \in Lock
  BY DEF LockTypes
<1>2. Service!CanGrant(x, k, m)
  BY DEF grantableUnlocked, Service!CanGrant, Service!Granted
<1>3. GrantedLock(x, k, m) =
        [mode |-> IF held[k].holders = {} THEN m
                  ELSE IF m = "Exclusive" THEN m ELSE held[k].mode,
         holders |-> held[k].holders \cup {x}]
  <2>1. held[k] = [mode |-> held[k].mode, holders |-> held[k].holders]
    BY <1>1 DEF Lock
  <2>2. CASE held[k].holders = {}
    BY <2>2 DEF GrantedLock
  <2>3. CASE held[k].holders # {} /\ x \in held[k].holders
    <3>1. held[k].holders \cup {x} = held[k].holders
      BY <2>3
    <3>2. GrantedLock(x, k, m) =
            [held[k] EXCEPT !.mode = IF m = "Exclusive" THEN "Exclusive" ELSE @]
      BY <2>3 DEF GrantedLock
    <3>3. QED BY <1>1, <2>1, <2>3, <3>1, <3>2 DEF Lock
  <2>4. CASE held[k].holders # {} /\ x \notin held[k].holders
    <3>1. m = "Shared" /\ held[k].mode = "Shared"
      BY <2>4 DEF grantableUnlocked
    <3>2. GrantedLock(x, k, m) = [held[k] EXCEPT !.holders = @ \cup {x}]
      BY <2>4, <3>1 DEF GrantedLock
    <3>3. QED BY <1>1, <2>1, <2>4, <3>1, <3>2 DEF Lock
  <2>5. QED BY <2>2, <2>3, <2>4
<1>4. QED BY <1>2, <1>3 DEF grantUnlocked, Service!Grant

\* Every step of the lock manager is a step of the service, or leaves the locks
\* as they are.
LEMMA ServiceStep ==
    ASSUME LockTypes, [LockNext]_lockVars
    PROVE  [Service!ServiceNext]_held
<1> SUFFICES ASSUME Step, held' # held
             PROVE  Service!ServiceNext
  BY NextIsStep DEF lockVars
<1>1. ASSUME NEW x \in Txn, NEW k \in ResourceKey, NEW m \in LockMode,
             grantableUnlocked(x, k, m), grantUnlocked(x, k, m)
      PROVE  Service!ServiceNext
  <2>1. Service!Grant(x, k, m)
    BY <1>1, GrantIsService
  <2>2. QED BY <2>1 DEF Service!ServiceNext, Service!Mode, LockMode
<1>2. ASSUME NEW t \in Thread, NEW c \in Call, RequestLock(t, c)
      PROVE  Service!ServiceNext
  BY <1>1, <1>2 DEF RequestLock, Call
<1>3. ASSUME NEW t \in Thread, NEW x \in Txn, NEW ks \in SUBSET ResourceKey, Drop(t, x, ks)
      PROVE  Service!ServiceNext
  <2>1. Service!Release(x, ks)
    BY <1>3 DEF Drop, Dropped, Service!Release, Service!Granted, NoLock, Service!Unlocked
  <2>2. QED BY <2>1 DEF Service!ServiceNext
<1>4. ASSUME NEW t \in Thread, Recheck(t)
      PROVE  Service!ServiceNext
  <2> DEFINE c == call[t]
  <2>1. c.txn \in Txn /\ c.key \in ResourceKey /\ c.mode \in LockMode
    BY <1>4, BlockedHasCall DEF Recheck, Blocked
  <2>2. grantableUnlocked(c.txn, c.key, c.mode) /\ grantUnlocked(c.txn, c.key, c.mode)
    BY <1>4 DEF Recheck
  <2>3. QED BY <1>1, <2>1, <2>2
<1>5. QED
  BY <1>2, <1>3, <1>4 DEF Step, TimeOut, SpuriousWakeup, NotifyAll

\* The lock manager implements the lock service, for any number of threads: its
\* waiting, waking and notifying never show in who holds what.
THEOREM ImplementsServiceHolds == LockSpec => ImplementsService
<1>1. LockInit => Service!ServiceInit
  BY DEF LockInit, Service!ServiceInit, NoLock, Service!Unlocked
<1>2. LockTypes /\ [LockNext]_lockVars => [Service!ServiceNext]_held
  BY ServiceStep
<1>3. QED
  BY <1>1, <1>2, LockTypesInvariant, PTL DEF LockSpec, ImplementsService, Service!ServiceSpec

=============================================================================
