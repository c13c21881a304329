----------------------- MODULE DispatcherSessionProofs -----------------------
(***************************************************************************)
(* What holds of runSession, for any number of workers, transactions,      *)
(* tables and keys, whatever ids the sessions bring.  The inductive        *)
(* invariant, SessionInv:                                                  *)
(*                                                                         *)
(*    Names(t)    the transaction the command of t runs in: one of its     *)
(*                own, or a number of the client's                         *)
(*    Stands(t)   how far an auto-commit's transaction is at each step     *)
(*    Owns(t)     its table is its own while it writes and commits         *)
(*    Waits(t)    a blocked command is blocked in the lock manager         *)
(*    Locked(y)   a lock has a worker that will release it: one that runs  *)
(*                a command in y, or has y in openTxns                     *)
(*    Written(y)  a staged version has a worker that will commit or abort  *)
(*                it.  That is not the worker whose leak guard has already *)
(*                aborted y in the engine and is about to release it,      *)
(*                since another session may have written in between.       *)
(*                                                                         *)
(* Every step is for one transaction x, and Frame says when it is harmless *)
(* to the commands of the others.                                          *)
(***************************************************************************)
EXTENDS DispatcherSession, LockManagerProofs, InMemoryStorageProofs, SequenceTheorems

-----------------------------------------------------------------------------
(* The invariant.                                                          *)

CommandAt == {"check", "lock", "blocked", "run", "write", "commitTxn", "seq", "stamp",
              "victim", "timedOut", "release"}
SessionAt == CommandAt \cup {"next", "guardAbort", "guardRelease"}
SessionRec == [at : SessionAt, op : CommandType \cup {"none"}, txn : Txn \cup {0}, auto : BOOLEAN,
               table : Table \cup {"none"}, todo : SUBSET Key, seq : Nat, open : Seq(ClientTxn)]

TxnTypes ==
    /\ states \in [Txn -> TxnState]
    /\ next_id \in 0..MaxTxn
    /\ commit_seq \in Nat

SessionTypes == sess \in [Thread -> SessionRec]
WalkTypes == walk = [t \in Thread |-> walk[t]]

ModeOf(op) == IF op = "select" THEN "Shared" ELSE "Exclusive"

\* The lock of y alone.
Sole(y) == [mode |-> "Exclusive", holders |-> {y}]

Busy(t) == sess[t].at \in CommandAt

Names(t) ==
    /\ Busy(t) => sess[t].txn \in Txn /\ sess[t].table \in Table
    /\ Busy(t) /\ ~sess[t].auto => sess[t].txn \in ClientTxn
    /\ Busy(t) /\ sess[t].auto =>
          /\ sess[t].txn \in 1..next_id
          /\ \A u \in Thread : u # t /\ Busy(u) => sess[u].txn # sess[t].txn
    /\ sess[t].at \in {"guardAbort", "guardRelease"} => sess[t].open # <<>>

Stands(t) ==
    /\ sess[t].auto /\ sess[t].at \in {"check", "lock", "blocked", "run", "write", "commitTxn"}
          => states[sess[t].txn] = "Active"
    /\ sess[t].at \in {"commitTxn", "seq", "stamp"} => sess[t].auto
    /\ sess[t].at \in {"seq", "stamp"} => commit_seq > 0
    /\ sess[t].at = "stamp" => sess[t].seq > 0
    /\ sess[t].at = "write" => sess[t].op # "select"

InTxnAt == {"run", "write", "commitTxn", "seq", "stamp"}

Owns(t) ==
    sess[t].auto /\ sess[t].at \in InTxnAt /\ sess[t].op # "select" =>
        held[<<sess[t].table, NoRow>>] = Sole(sess[t].txn)

Waits(t) ==
    /\ (sess[t].at = "blocked") <=> Blocked(t)
    /\ Blocked(t) => /\ call[t].txn = sess[t].txn
                     /\ call[t].key = <<sess[t].table, NoRow>>
                     /\ call[t].mode = ModeOf(sess[t].op)

\* t will release the locks of y.
WillRelease(t, y) ==
    \/ sess[t].at \in InTxnAt \cup {"release"} /\ sess[t].txn = y
    \/ \E i \in DOMAIN sess[t].open : sess[t].open[i] = y

\* t will commit or abort what y has written to tb.
WillEnd(t, y, tb) ==
    \/ /\ sess[t].at \in InTxnAt /\ sess[t].txn = y
       /\ sess[t].auto => sess[t].table = tb /\ sess[t].op # "select"
    \/ \E i \in DOMAIN sess[t].open :
          sess[t].open[i] = y /\ (sess[t].at = "guardRelease" => i # 1)

StagedIn(y, tb) == \E v \in VersionsOf(tb) : Staged(y, v)

Locked(y) == HoldsLock(y) => \E t \in Thread : WillRelease(t, y)
Written(y) == \A tb \in Table : StagedIn(y, tb) => \E t \in Thread : WillEnd(t, y, tb)

Types == LockTypes /\ WaiterAccounting /\ StorageTypeOK /\ TxnTypes /\ SessionTypes

SessionInv ==
    /\ Types
    /\ \A t \in Thread : Names(t) /\ Stands(t) /\ Owns(t) /\ Waits(t)
    /\ \A y \in Txn : Locked(y) /\ Written(y)

-----------------------------------------------------------------------------
(* What the calls into the lock manager do, in these terms.                *)

LEMMA TxnIds ==
    ASSUME TxnTypes
    PROVE  /\ 1..next_id \subseteq Txn /\ next_id \in Nat
           /\ \A y \in 1..next_id : y \notin ClientTxn
           /\ ClientTxn \subseteq Txn
           /\ next_id < MaxTxn => NewTxn \in Txn /\ NewTxn \notin 1..next_id
BY TxnAssumption DEF TxnTypes, NewTxn, ClientTxn

LEMMA TableKey ==
    ASSUME NEW tb \in Table
    PROVE  <<tb, NoRow>> \in ResourceKey
BY DEF ResourceKey

SoleKept(x) ==
    \A y \in Txn \ {x}, l \in ResourceKey : held[l] = Sole(y) => held'[l] = Sole(y)

\* A grant gives only x something, takes nothing from a sole holder, and makes x
\* one if it held nothing and wants the lock Exclusive.
LEMMA GrantEffect ==
    ASSUME LockTypes, NEW x \in Txn, NEW k \in ResourceKey, NEW m \in LockMode,
           grantableUnlocked(x, k, m), grantUnlocked(x, k, m)
    PROVE  /\ \A y \in Txn : HoldsLock(y)' => HoldsLock(y) \/ y = x
           /\ SoleKept(x)
           /\ ~HoldsLock(x) /\ m = "Exclusive" => held'[k] = Sole(x)
<1>1. \A l \in ResourceKey : held'[l] = IF l = k THEN GrantedLock(x, k, m) ELSE held[l]
  BY DEF grantUnlocked, LockTypes
<1>2. held[k] \in Lock
  BY DEF LockTypes
<1>3. GrantedLock(x, k, m).holders \subseteq held[k].holders \cup {x}
  BY <1>2 DEF GrantedLock, Lock
<1>4. ASSUME NEW y \in Txn, HoldsLock(y)'
      PROVE  HoldsLock(y) \/ y = x
  BY <1>1, <1>3, <1>4 DEF HoldsLock
<1>5. ASSUME NEW y \in Txn \ {x}, held[k] = Sole(y)
      PROVE  FALSE
  BY <1>5 DEF Sole, grantableUnlocked
<1>6. SoleKept(x)
  BY <1>1, <1>5 DEF SoleKept
<1>7. ASSUME ~HoldsLock(x), m = "Exclusive"
      PROVE  held'[k] = Sole(x)
  <2>1. held[k].holders = {}
    BY <1>7 DEF HoldsLock, grantableUnlocked
  <2>2. GrantedLock(x, k, m) = Sole(x)
    BY <1>7, <2>1 DEF GrantedLock, Sole
  <2>3. QED BY <1>1, <2>2
<1>8. QED BY <1>4, <1>6, <1>7

\* A release takes everything from x and nothing from a sole holder.
LEMMA ReleaseEffect ==
    ASSUME LockTypes, NEW t, NEW x \in Txn, release(t, x)
    PROVE  /\ \A y \in Txn : HoldsLock(y)' => HoldsLock(y) /\ y # x
           /\ SoleKept(x)
<1>1. \A l \in ResourceKey :
         held'[l] = IF x \notin held[l].holders THEN held[l]
                    ELSE IF held[l].holders = {x} THEN NoLock
                    ELSE [held[l] EXCEPT !.holders = @ \ {x}]
  BY DEF release, Drop, Dropped
<1>2. ASSUME NEW l \in ResourceKey
      PROVE  /\ held'[l].holders = held[l].holders \ {x}
             /\ x \notin held[l].holders => held'[l] = held[l]
  <2>1. held[l] \in Lock
    BY DEF LockTypes
  <2>2. CASE x \notin held[l].holders
    BY <1>1, <2>2
  <2>3. CASE held[l].holders = {x}
    <3>1. held'[l] = NoLock
      BY <1>1, <2>3
    <3>2. QED BY <2>3, <3>1 DEF NoLock
  <2>4. CASE x \in held[l].holders /\ held[l].holders # {x}
    <3>1. held'[l] = [held[l] EXCEPT !.holders = @ \ {x}]
      BY <1>1, <2>4
    <3>2. QED BY <2>1, <2>4, <3>1 DEF Lock
  <2>5. QED BY <2>2, <2>3, <2>4
<1>3. ASSUME NEW y \in Txn \ {x}, NEW l \in ResourceKey, held[l] = Sole(y)
      PROVE  held'[l] = Sole(y)
  <2>1. x \notin held[l].holders
    BY <1>3 DEF Sole
  <2>2. QED BY <1>2, <1>3, <2>1
<1>4. QED BY <1>2, <1>3 DEF HoldsLock, SoleKept

LEMMA HeldSame ==
    ASSUME UNCHANGED held
    PROVE  /\ \A x \in Txn : SoleKept(x)
           /\ \A y \in Txn : HoldsLock(y)' => HoldsLock(y)
BY DEF SoleKept, HoldsLock

LEMMA TablesSame ==
    ASSUME UNCHANGED tables
    PROVE  \A y \in Txn, c \in Table : StagedIn(y, c)' => StagedIn(y, c)
BY DEF StagedIn, VersionsOf

-----------------------------------------------------------------------------
(* The others.                                                             *)

\* The step is one of worker t for x: it changes the state of no other transaction
\* that was begun, and takes no lock from a sole holder other than x.
OnlyMoves(t, x) ==
    /\ \A u \in Thread \ {t} : /\ sess'[u] = sess[u] /\ call'[u] = call[u]
                               /\ Blocked(u)' <=> Blocked(u)
    /\ Busy(t)' => sess'[t].txn = x
    /\ (Busy(t) /\ sess[t].txn = x) \/ x \in ClientTxn \/ x \notin 1..next_id
    /\ next_id' >= next_id /\ commit_seq' >= commit_seq
    /\ \A y \in 1..next_id : y # x => states'[y] = states[y]
    /\ SoleKept(x)

LEMMA Frame ==
    ASSUME SessionInv, Types', NEW t \in Thread, NEW x \in Txn, OnlyMoves(t, x)
    PROVE  \A u \in Thread \ {t} : Names(u)' /\ Stands(u)' /\ Owns(u)' /\ Waits(u)'
<1>t. TxnTypes /\ SessionTypes /\ TxnTypes' /\ SessionTypes'
  BY DEF SessionInv, Types
<1>n. next_id \in Nat /\ next_id' \in Nat /\ commit_seq \in Nat /\ commit_seq' \in Nat
  BY <1>t, TxnAssumption DEF TxnTypes
<1>l. 1..next_id \subseteq 1..next_id' /\ (commit_seq > 0 => commit_seq' > 0)
  BY <1>n DEF OnlyMoves
<1> SUFFICES ASSUME NEW u \in Thread \ {t}
             PROVE  Names(u)' /\ Stands(u)' /\ Owns(u)' /\ Waits(u)'
  OBVIOUS
<1>u. sess'[u] = sess[u] /\ Names(u) /\ Stands(u) /\ Owns(u) /\ Waits(u)
  BY DEF OnlyMoves, SessionInv
<1>1. ASSUME Busy(u), sess[u].auto
      PROVE  sess[u].txn # x /\ sess[u].txn \in Txn \ {x} /\ states'[sess[u].txn] = states[sess[u].txn]
  <2>1. sess[u].txn # x
    <3>1. CASE Busy(t) /\ sess[t].txn = x
      BY <1>1, <1>u, <3>1 DEF Names
    <3>2. CASE x \in ClientTxn \/ x \notin 1..next_id
      BY <1>1, <1>t, <1>u, <3>2, TxnIds DEF Names
    <3>3. QED BY <3>1, <3>2 DEF OnlyMoves
  <2>2. sess[u].txn \in Txn \ {x}
    BY <1>1, <1>u, <2>1 DEF Names
  <2>3. sess[u].txn \in 1..next_id
    BY <1>1, <1>u DEF Names
  <2>4. QED BY <2>1, <2>2, <2>3 DEF OnlyMoves
<1>2. Names(u)'
  <2>1. ASSUME Busy(u), sess[u].auto, NEW w \in Thread, w # u, Busy(w)'
        PROVE  sess'[w].txn # sess[u].txn
    <3>1. CASE w = t
      BY <1>1, <2>1, <3>1 DEF OnlyMoves
    <3>2. CASE w # t
      <4>1. sess'[w] = sess[w]
        BY <3>2 DEF OnlyMoves
      <4>2. QED BY <1>u, <2>1, <4>1 DEF Names, Busy
    <3>3. QED BY <3>1, <3>2
  <2>2. Busy(u)' <=> Busy(u)
    BY <1>u DEF Busy
  <2>3. QED BY <1>l, <1>u, <2>1, <2>2 DEF Names
<1>3. Stands(u)'
  <2>1. sess[u].at \in {"check", "lock", "blocked", "run", "write", "commitTxn"} => Busy(u)
    BY DEF Busy, CommandAt
  <2>2. QED BY <1>l, <1>u, <1>1, <2>1 DEF Stands
<1>4. Owns(u)'
  <2> SUFFICES ASSUME sess[u].auto, sess[u].at \in InTxnAt, sess[u].op # "select"
               PROVE  held'[<<sess[u].table, NoRow>>] = Sole(sess[u].txn)
    BY <1>u DEF Owns, Sole
  <2>1. Busy(u)
    BY DEF Busy, CommandAt, InTxnAt
  <2>2. held[<<sess[u].table, NoRow>>] = Sole(sess[u].txn)
    BY <1>u DEF Owns
  <2>3. <<sess[u].table, NoRow>> \in ResourceKey
    BY <1>u, <2>1, TableKey DEF Names
  <2>4. QED BY <1>1, <2>1, <2>2, <2>3 DEF OnlyMoves, SoleKept
<1>5. Waits(u)'
  BY <1>u DEF OnlyMoves, Waits
<1>6. QED BY <1>2, <1>3, <1>4, <1>5

\* What t gives up is no longer there; what appears, t takes care of.
LocksCared(t) ==
    \A y \in Txn : HoldsLock(y)' => \/ WillRelease(t, y)'
                                    \/ HoldsLock(y) /\ ~WillRelease(t, y)
WritesCared(t) ==
    \A y \in Txn, c \in Table : StagedIn(y, c)' => \/ WillEnd(t, y, c)'
                                                   \/ StagedIn(y, c) /\ ~WillEnd(t, y, c)

\* What remains to be shown of an action.
LEMMA Whole ==
    ASSUME SessionInv, Types', NEW t \in Thread, NEW x \in Txn, OnlyMoves(t, x),
           Names(t)', Stands(t)', Owns(t)', Waits(t)', LocksCared(t), WritesCared(t)
    PROVE  SessionInv'
<1>1. \A u \in Thread \ {t} : Names(u)' /\ Stands(u)' /\ Owns(u)' /\ Waits(u)'
  BY Frame
<1>2. \A u \in Thread \ {t} : sess'[u] = sess[u]
  BY DEF OnlyMoves
<1>3. ASSUME NEW y \in Txn, HoldsLock(y)'
      PROVE  \E u \in Thread : WillRelease(u, y)'
  <2>1. CASE WillRelease(t, y)'
    BY <2>1
  <2>2. CASE HoldsLock(y) /\ ~WillRelease(t, y)
    <3>1. PICK u \in Thread : WillRelease(u, y)
      BY <2>2 DEF SessionInv, Locked
    <3>2. u # t /\ sess'[u] = sess[u]
      BY <1>2, <2>2, <3>1
    <3>3. WillRelease(u, y)'
      BY <3>1, <3>2 DEF WillRelease
    <3>4. QED BY <3>3
  <2>3. QED BY <1>3, <2>1, <2>2 DEF LocksCared
<1>4. ASSUME NEW y \in Txn, NEW c \in Table, StagedIn(y, c)'
      PROVE  \E u \in Thread : WillEnd(u, y, c)'
  <2>1. CASE WillEnd(t, y, c)'
    BY <2>1
  <2>2. CASE StagedIn(y, c) /\ ~WillEnd(t, y, c)
    <3>1. PICK u \in Thread : WillEnd(u, y, c)
      BY <2>2 DEF SessionInv, Written
    <3>2. u # t /\ sess'[u] = sess[u]
      BY <1>2, <2>2, <3>1
    <3>3. WillEnd(u, y, c)'
      BY <3>1, <3>2 DEF WillEnd
    <3>4. QED BY <3>3
  <2>3. QED BY <1>4, <2>1, <2>2 DEF WritesCared
<1>5. QED BY <1>1, <1>3, <1>4 DEF SessionInv, Locked, Written

-----------------------------------------------------------------------------
(* Steps that call neither the lock manager nor the engine.                *)

LEMMA SetSession ==
    ASSUME SessionTypes, NEW t \in Thread, NEW r \in SessionRec, sess' = [sess EXCEPT ![t] = r]
    PROVE  /\ SessionTypes' /\ sess'[t] = r
           /\ \A u \in Thread \ {t} : sess'[u] = sess[u]
BY DEF SessionTypes

LEMMA SessionFields ==
    ASSUME SessionTypes, NEW t \in Thread
    PROVE  /\ sess[t] \in SessionRec /\ sess[t].at \in SessionAt /\ sess[t].auto \in BOOLEAN
           /\ sess[t].seq \in Nat /\ sess[t].todo \in SUBSET Key
           /\ sess[t].open \in Seq(ClientTxn)
BY DEF SessionTypes, SessionRec

\* The same command, at another step.
LEMMA GotoEffect ==
    ASSUME SessionTypes, NEW t \in Thread, NEW l \in SessionAt, Goto(t, l)
    PROVE  /\ SessionTypes' /\ sess'[t].at = l
           /\ sess'[t].op = sess[t].op /\ sess'[t].txn = sess[t].txn
           /\ sess'[t].auto = sess[t].auto /\ sess'[t].table = sess[t].table
           /\ sess'[t].seq = sess[t].seq /\ sess'[t].open = sess[t].open
           /\ \A u \in Thread \ {t} : sess'[u] = sess[u]
<1> DEFINE r == [sess[t] EXCEPT !.at = l]
<1>1. sess[t] \in SessionRec
  BY SessionFields
<1>2. /\ r \in SessionRec /\ r.at = l
      /\ r.op = sess[t].op /\ r.txn = sess[t].txn /\ r.auto = sess[t].auto
      /\ r.table = sess[t].table /\ r.seq = sess[t].seq /\ r.open = sess[t].open
  BY <1>1 DEF SessionRec
<1>3. sess' = [sess EXCEPT ![t] = r]
  BY DEF Goto
<1> HIDE DEF r
<1>4. QED BY <1>2, <1>3, SetSession

\* The top of the loop.
LEMMA NextIterationFields ==
    ASSUME NEW o \in Seq(ClientTxn)
    PROVE  /\ NextIteration(o) \in SessionRec /\ NextIteration(o).at = "next"
           /\ NextIteration(o).auto = FALSE /\ NextIteration(o).open = o
BY DEF NextIteration, NewSession, SessionRec, SessionAt

\* At the top of the loop there is no command to say anything about.
LEMMA AtTheTop ==
    ASSUME NEW t \in Thread, sess'[t].at = "next", ~Blocked(t)'
    PROVE  Names(t)' /\ Stands(t)' /\ Owns(t)' /\ Waits(t)' /\ ~Busy(t)'
BY DEF Names, Stands, Owns, Waits, Busy, CommandAt, InTxnAt

LEMMA WorkerRuns ==
    ASSUME SessionInv, NEW t \in Thread
    PROVE  /\ \A l : At(t, l) => sess[t].at = l /\ ~Blocked(t)
           /\ sess[t].at # "blocked" => ~Blocked(t)
           /\ sess[t].at \in CommandAt => /\ Busy(t) /\ sess[t].txn \in Txn /\ sess[t].table \in Table
                                          /\ sess[t].auto \in BOOLEAN
           /\ TxnTypes /\ SessionTypes /\ StorageTypeOK /\ LockTypes
           /\ Names(t) /\ Stands(t) /\ Owns(t) /\ Waits(t)
<1>1. /\ TxnTypes /\ SessionTypes /\ StorageTypeOK /\ LockTypes
      /\ Names(t) /\ Stands(t) /\ Owns(t) /\ Waits(t)
  BY DEF SessionInv, Types
<1>2. QED BY <1>1, SessionFields DEF At, Blocked, Names, Busy, Waits

LEMMA LocksSameTypes ==
    ASSUME SessionInv, UNCHANGED lockVars
    PROVE  LockTypes' /\ WaiterAccounting'
BY LockTypesStep, WaiterAccountingStep DEF SessionInv, Types

LEMMA StorageSameTypes ==
    ASSUME SessionInv, UNCHANGED storageVars
    PROVE  StorageTypeOK'
BY DEF SessionInv, Types, StorageTypeOK, storageVars

\* The worker goes on with the transaction of its command, or with none.
LEMMA WorkerMoves ==
    ASSUME SessionInv, NEW t \in Thread, NEW x \in Txn, Busy(t), x = sess[t].txn,
           Busy(t)' => sess'[t].txn = x,
           \A u \in Thread \ {t} : /\ sess'[u] = sess[u] /\ call'[u] = call[u]
                                   /\ Blocked(u)' <=> Blocked(u),
           next_id' = next_id, commit_seq' >= commit_seq,
           \A y \in Txn \ {x} : states'[y] = states[y], SoleKept(x)
    PROVE  OnlyMoves(t, x)
<1>1. next_id >= next_id /\ 1..next_id \subseteq Txn
  BY TxnIds DEF SessionInv, Types
<1>2. QED BY <1>1 DEF OnlyMoves

\* The same command, in the same transaction.
LEMMA GoesOn ==
    ASSUME SessionInv, NEW t \in Thread, Busy(t), Busy(t)',
           sess'[t].txn = sess[t].txn, sess'[t].auto = sess[t].auto,
           sess'[t].table = sess[t].table,
           \A u \in Thread \ {t} : sess'[u] = sess[u], next_id' = next_id
    PROVE  Names(t)'
<1>1. Names(t)
  BY DEF SessionInv
<1>2. \A u \in Thread \ {t} : Busy(u)' <=> Busy(u)
  BY DEF Busy
<1>3. sess'[t].at \notin {"guardAbort", "guardRelease"}
  BY DEF Busy, CommandAt
<1>4. QED BY <1>1, <1>2, <1>3 DEF Names

LEMMA TxnsSame ==
    ASSUME SessionInv, UNCHANGED <<states, next_id, commit_seq>>
    PROVE  /\ TxnTypes' /\ next_id' = next_id /\ commit_seq' >= commit_seq
           /\ \A y \in Txn : states'[y] = states[y]
BY DEF SessionInv, Types, TxnTypes

\* A step of that kind keeps the invariant if it puts its own command right and
\* gives up nothing.
LEMMA QuietStep ==
    ASSUME SessionInv, UNCHANGED <<lockVars, storageVars>>, NEW t \in Thread, NEW x \in Txn,
           TxnTypes', SessionTypes', OnlyMoves(t, x),
           Names(t)', Stands(t)', Owns(t)', Waits(t)',
           \A y \in Txn : HoldsLock(y) /\ WillRelease(t, y) => WillRelease(t, y)',
           \A y \in Txn, c \in Table : StagedIn(y, c) /\ WillEnd(t, y, c) => WillEnd(t, y, c)'
    PROVE  SessionInv'
<1>1. Types'
  BY LocksSameTypes, StorageSameTypes DEF Types
<1>2. UNCHANGED held /\ UNCHANGED tables
  BY DEF lockVars, storageVars
<1>3. LocksCared(t)
  BY <1>2, HeldSame DEF LocksCared
<1>4. WritesCared(t)
  BY <1>2, TablesSame DEF WritesCared
<1>5. QED BY <1>1, <1>3, <1>4, Whole

LEMMA NextCommandKeeps ==
    ASSUME SessionInv, NEW t \in Thread, NEW op \in CommandType, NEW tb \in Table,
           NEW i \in ClientTxn \cup {0}, NextCommand(t, op, tb, i)
    PROVE  SessionInv'
<1>1. /\ ~Blocked(t) /\ sess[t].at = "next" /\ TxnTypes /\ SessionTypes /\ sess[t] \in SessionRec
      /\ next_id < MaxTxn
  BY WorkerRuns, SessionFields DEF NextCommand, beginTxn
<1>n. PICK n \in Txn : n = NewTxn
  BY <1>1, TxnIds
<1>x. PICK x \in Txn : x = IF i = 0 THEN n ELSE i
  BY DEF ClientTxn
<1> DEFINE r == [sess[t] EXCEPT !.at = "check", !.op = op, !.table = tb, !.auto = (i = 0), !.txn = x]
<1>2. sess' = [sess EXCEPT ![t] = r] /\ UNCHANGED <<lockVars, storageVars>>
  BY <1>n, <1>x DEF NextCommand
<1>3. /\ states' = [states EXCEPT ![n] = "Active"]
      /\ next_id' = next_id + 1 /\ commit_seq' = commit_seq
  BY <1>n DEF NextCommand, beginTxn, NewTxn
<1>4. n \notin 1..next_id /\ next_id \in Nat /\ n \in 1..(next_id + 1) /\ n \notin ClientTxn
  BY <1>n, <1>1, TxnIds, TxnAssumption DEF NewTxn, TxnTypes, ClientTxn
<1>5. /\ r \in SessionRec /\ r.at = "check" /\ r.op = op /\ r.table = tb /\ r.auto = (i = 0)
      /\ r.txn = x /\ r.open = sess[t].open
  BY <1>1 DEF SessionRec, SessionAt, CommandAt
<1> HIDE DEF r
<1>6. /\ SessionTypes' /\ sess'[t] = r /\ \A u \in Thread \ {t} : sess'[u] = sess[u]
  BY <1>1, <1>2, <1>5, SetSession
<1>7. TxnTypes'
  <2>1. states' \in [Txn -> TxnState]
    BY <1>1, <1>3 DEF TxnTypes, TxnState
  <2>2. next_id' \in 0..MaxTxn /\ commit_seq' \in Nat
    BY <1>1, <1>3, TxnAssumption DEF TxnTypes
  <2>3. QED BY <2>1, <2>2 DEF TxnTypes
<1>8. states'[n] = "Active" /\ \A y \in Txn \ {n} : states'[y] = states[y]
  BY <1>1, <1>3 DEF TxnTypes
<1>9. UNCHANGED held /\ UNCHANGED call /\ UNCHANGED lockPc
  BY <1>2 DEF lockVars
<1>10. Busy(t)' /\ ~Busy(t) /\ ~Blocked(t)'
  BY <1>1, <1>5, <1>6, <1>9 DEF Busy, CommandAt, Blocked
<1>11. Names(t)'
  <2>1. CASE i = 0
    <3>1. ASSUME NEW u \in Thread, u # t, Busy(u)'
          PROVE  sess'[u].txn # x
      <4>1. Busy(u) /\ sess'[u] = sess[u] /\ Names(u)
        BY <1>6, <3>1 DEF Busy, SessionInv
      <4>2. sess[u].txn \in 1..next_id \/ sess[u].txn \in ClientTxn
        BY <4>1 DEF Names
      <4>3. QED BY <1>x, <1>4, <2>1, <4>1, <4>2
    <3>2. QED BY <1>x, <1>3, <1>4, <1>5, <1>6, <2>1, <3>1 DEF Names
  <2>2. CASE i # 0
    BY <1>x, <1>5, <1>6, <2>2 DEF Names
  <2>3. QED BY <2>1, <2>2
<1>12. Stands(t)'
  BY <1>x, <1>5, <1>6, <1>8 DEF Stands
<1>13. Owns(t)' /\ Waits(t)'
  BY <1>5, <1>6, <1>10 DEF Owns, Waits, InTxnAt
<1>14. /\ \A y \in Txn : WillRelease(t, y) => WillRelease(t, y)'
       /\ \A y \in Txn, c \in Table : WillEnd(t, y, c) => WillEnd(t, y, c)'
  BY <1>1, <1>5, <1>6 DEF WillRelease, WillEnd, InTxnAt
<1>15. OnlyMoves(t, x)
  <2>1. x \in ClientTxn \/ x \notin 1..next_id
    BY <1>x, <1>4
  <2>2. \A y \in 1..next_id : states'[y] = states[y]
    BY <1>1, <1>4, <1>8, TxnIds
  <2>3. \A u \in Thread \ {t} : call'[u] = call[u] /\ (Blocked(u)' <=> Blocked(u))
    BY <1>9 DEF Blocked
  <2>4. next_id' >= next_id /\ commit_seq' >= commit_seq
    BY <1>1, <1>3, <1>4 DEF TxnTypes
  <2>5. QED BY <1>5, <1>6, <1>9, <2>1, <2>2, <2>3, <2>4, HeldSame DEF OnlyMoves
<1>16. QED BY <1>2, <1>6, <1>7, <1>11, <1>12, <1>13, <1>14, <1>15, QuietStep

LEMMA EndSessionKeeps == ASSUME SessionInv, NEW t \in Thread, EndSession(t) PROVE SessionInv'
<1>1. /\ At(t, "next") /\ sess[t].open # <<>> /\ Goto(t, "guardAbort")
      /\ UNCHANGED <<lockVars, storageVars>> /\ UNCHANGED <<states, next_id, commit_seq>>
  BY DEF EndSession, txnVars
<1>2. sess[t].at = "next" /\ ~Blocked(t) /\ SessionTypes /\ TxnTypes
  BY <1>1, WorkerRuns
<1>3. /\ SessionTypes' /\ sess'[t].at = "guardAbort" /\ sess'[t].open = sess[t].open
      /\ \A u \in Thread \ {t} : sess'[u] = sess[u]
  BY <1>1, <1>2, GotoEffect DEF SessionAt
<1>4. ~Busy(t)' /\ sess[t].open \in Seq(ClientTxn)
  BY <1>2, <1>3, SessionFields DEF Busy, CommandAt
<1>5. PICK x \in Txn : x \in ClientTxn
  BY <1>1, <1>4 DEF ClientTxn
<1>6. /\ TxnTypes' /\ next_id' = next_id /\ commit_seq' >= commit_seq
      /\ \A y \in Txn : states'[y] = states[y]
  BY <1>1, TxnsSame
<1>7. UNCHANGED held /\ UNCHANGED lockPc /\ UNCHANGED call
  BY <1>1 DEF lockVars
<1>8. OnlyMoves(t, x)
  <2>1. next_id' >= next_id /\ 1..next_id \subseteq Txn
    BY <1>2, <1>6, TxnIds
  <2>2. QED BY <1>3, <1>4, <1>5, <1>6, <1>7, <2>1, HeldSame DEF OnlyMoves, Blocked
<1>9. Names(t)' /\ Stands(t)' /\ Owns(t)' /\ Waits(t)'
  BY <1>1, <1>2, <1>3, <1>4, <1>7 DEF Names, Stands, Owns, Waits, InTxnAt, Blocked
<1>10. /\ \A y \in Txn : WillRelease(t, y) => WillRelease(t, y)'
       /\ \A y \in Txn, c \in Table : WillEnd(t, y, c) => WillEnd(t, y, c)'
  BY <1>2, <1>3 DEF WillRelease, WillEnd, InTxnAt
<1>11. QED BY <1>1, <1>3, <1>6, <1>8, <1>9, <1>10, QuietStep

\* A step after which the invariant says what it said before.
LEMMA NothingMoves ==
    ASSUME SessionInv, UNCHANGED <<held, call, storageVars>>, UNCHANGED txnVars,
           UNCHANGED sess, LockTypes', WaiterAccounting',
           \A u \in Thread : Blocked(u)' <=> Blocked(u)
    PROVE  SessionInv'
<1>1. /\ UNCHANGED <<tables, auto_id, visible_seq>> /\ UNCHANGED <<states, next_id, commit_seq>>
  BY DEF storageVars, txnVars
<1>2. Types'
  BY <1>1, StorageSameTypes DEF SessionInv, Types, TxnTypes, SessionTypes
<1>3. ASSUME NEW t \in Thread
      PROVE  Names(t)' /\ Stands(t)' /\ Owns(t)' /\ Waits(t)'
  <2>1. Names(t) /\ Stands(t) /\ Owns(t) /\ Waits(t)
    BY DEF SessionInv
  <2>2. Names(t)' /\ Stands(t)'
    BY <1>1, <2>1 DEF Names, Busy, Stands
  <2>3. Owns(t)' /\ Waits(t)'
    BY <1>1, <2>1 DEF Owns, Waits
  <2>4. QED BY <2>2, <2>3
<1>4. ASSUME NEW y \in Txn
      PROVE  Locked(y)' /\ Written(y)'
  <2>1. Locked(y) /\ Written(y)
    BY DEF SessionInv
  <2>2. Locked(y)'
    BY <1>1, <2>1 DEF Locked, HoldsLock, WillRelease
  <2>3. Written(y)'
    BY <1>1, <2>1 DEF Written, StagedIn, VersionsOf, WillEnd
  <2>4. QED BY <2>2, <2>3
<1>5. QED BY <1>2, <1>3, <1>4 DEF SessionInv

LEMMA DetectCycleKeeps == ASSUME SessionInv, NEW t \in Thread, DetectCycle(t) PROVE SessionInv'
<1>1. At(t, "check") /\ UNCHANGED <<lockVars, storageVars>> /\ UNCHANGED txnVars
      /\ UNCHANGED <<states, next_id, commit_seq>>
      /\ (Goto(t, "lock") \/ Goto(t, "victim") \/ UNCHANGED sess)
  BY DEF DetectCycle, txnVars
<1>2. CASE UNCHANGED sess
  BY <1>1, <1>2, NothingMoves, LocksSameTypes DEF lockVars, Blocked
<1>3. ASSUME NEW l \in {"lock", "victim"}, Goto(t, l)
      PROVE  SessionInv'
  <2>1. /\ sess[t].at = "check" /\ ~Blocked(t) /\ Busy(t) /\ SessionTypes /\ Stands(t) /\ sess[t].txn \in Txn
    BY <1>1, WorkerRuns DEF CommandAt
  <2>x. PICK x \in Txn : x = sess[t].txn
    BY <2>1
  <2>2. /\ SessionTypes' /\ sess'[t].at = l
        /\ sess'[t].op = sess[t].op /\ sess'[t].txn = x
        /\ sess'[t].auto = sess[t].auto /\ sess'[t].table = sess[t].table
        /\ sess'[t].open = sess[t].open
        /\ \A u \in Thread \ {t} : sess'[u] = sess[u]
    BY <2>x, <1>3, <2>1, GotoEffect DEF SessionAt, CommandAt
  <2>3. Busy(t)'
    BY <2>2 DEF Busy, CommandAt
  <2>4. /\ TxnTypes' /\ next_id' = next_id /\ commit_seq' >= commit_seq
        /\ \A y \in Txn : states'[y] = states[y]
    BY <1>1, TxnsSame
  <2>5. UNCHANGED held /\ UNCHANGED lockPc /\ UNCHANGED call
    BY <1>1 DEF lockVars
  <2>6. OnlyMoves(t, x)
    BY <2>x, <2>1, <2>2, <2>4, <2>5, HeldSame, WorkerMoves DEF Blocked
  <2>7. Names(t)'
    BY <2>x, <2>1, <2>2, <2>3, <2>4, GoesOn
  <2>8. Stands(t)' /\ Owns(t)' /\ Waits(t)'
    <3>1. Stands(t)'
      BY <2>x, <2>1, <2>2, <2>4 DEF Stands
    <3>2. Owns(t)' /\ Waits(t)'
      BY <2>1, <2>2, <2>5 DEF Owns, Waits, InTxnAt, Blocked
    <3>3. QED BY <3>1, <3>2
  <2>9. /\ \A y \in Txn : WillRelease(t, y) => WillRelease(t, y)'
        /\ \A y \in Txn, c \in Table : WillEnd(t, y, c) => WillEnd(t, y, c)'
    BY <2>1, <2>2 DEF WillRelease, WillEnd, InTxnAt
  <2>10. QED BY <1>1, <2>2, <2>4, <2>6, <2>7, <2>8, <2>9, QuietStep
<1>4. QED BY <1>1, <1>2, <1>3

\* What commitTxn and abortTxn do to the transaction they are called for.
LEMMA CloseEffect ==
    ASSUME TxnTypes, NEW x \in Txn, commitTxn(x) \/ abortTxn(x)
    PROVE  /\ TxnTypes' /\ next_id' = next_id /\ commit_seq' >= commit_seq
           /\ \A y \in Txn \ {x} : states'[y] = states[y]
           /\ Closable(x) /\ commitTxn(x) => commit_seq' > 0
<1>1. commit_seq \in Nat /\ commit_seq + 1 \in Nat /\ commit_seq + 1 > 0
      /\ commit_seq + 1 >= commit_seq /\ commit_seq >= commit_seq
  BY DEF TxnTypes
<1>2. ASSUME NEW st \in {"Committed", "Aborted"}, states' = [states EXCEPT ![x] = st]
      PROVE  states' \in [Txn -> TxnState] /\ \A y \in Txn \ {x} : states'[y] = states[y]
  BY <1>2 DEF TxnTypes, TxnState
<1>3. CASE ~Closable(x)
  <2>1. UNCHANGED <<states, next_id, commit_seq>>
    BY <1>3 DEF commitTxn, abortTxn, txnVars
  <2>2. QED BY <1>1, <1>3, <2>1 DEF TxnTypes
<1>4. CASE Closable(x) /\ commitTxn(x)
  <2>1. /\ states' = [states EXCEPT ![x] = "Committed"]
        /\ commit_seq' = commit_seq + 1 /\ next_id' = next_id
    BY <1>4 DEF commitTxn
  <2>2. QED BY <1>1, <1>2, <2>1 DEF TxnTypes
<1>5. CASE Closable(x) /\ abortTxn(x)
  <2>1. /\ states' = [states EXCEPT ![x] = "Aborted"]
        /\ commit_seq' = commit_seq /\ next_id' = next_id
    BY <1>5 DEF abortTxn
  <2>2. ~commitTxn(x)
    BY <1>1, <1>5, <2>1 DEF commitTxn
  <2>3. QED BY <1>1, <1>2, <2>1, <2>2 DEF TxnTypes
<1>6. QED BY <1>3, <1>4, <1>5

LEMMA AbortTxnKeeps == ASSUME SessionInv, NEW t \in Thread, AbortTxn(t) PROVE SessionInv'
<1>1. /\ sess[t].at \in {"victim", "timedOut"} /\ abortTxn(sess[t].txn)
      /\ UNCHANGED <<lockVars, storageVars>>
  BY DEF AbortTxn
<1>2. /\ ~Blocked(t) /\ Busy(t) /\ SessionTypes /\ TxnTypes /\ sess[t].txn \in Txn
      /\ sess[t] \in SessionRec /\ sess[t].open \in Seq(ClientTxn)
  BY <1>1, WorkerRuns, SessionFields DEF CommandAt
<1>x. PICK x \in Txn : x = sess[t].txn
  BY <1>2
<1>3. /\ TxnTypes' /\ next_id' = next_id /\ commit_seq' >= commit_seq
      /\ \A y \in Txn \ {x} : states'[y] = states[y]
  BY <1>x, <1>1, <1>2, CloseEffect
<1> DEFINE v == [sess[t] EXCEPT !.at = "release"]
           n == NextIteration(sess[t].open)
           r == IF sess[t].at = "victim" THEN v ELSE n
<1>4. sess' = [sess EXCEPT ![t] = r]
  BY DEF AbortTxn
<1>5. /\ v \in SessionRec /\ v.at = "release" /\ v.op = sess[t].op /\ v.txn = x
      /\ v.auto = sess[t].auto /\ v.table = sess[t].table /\ v.open = sess[t].open
  BY <1>x, <1>2 DEF SessionRec, SessionAt, CommandAt
<1>6. n \in SessionRec /\ n.at = "next" /\ n.auto = FALSE /\ n.open = sess[t].open
  BY <1>2, NextIterationFields
<1> HIDE DEF v, n
<1>7. r \in SessionRec /\ r.at \in {"release", "next"} /\ r.open = sess[t].open
  BY <1>5, <1>6
<1>8. SessionTypes' /\ sess'[t] = r /\ \A u \in Thread \ {t} : sess'[u] = sess[u]
  <2> HIDE DEF r
  <2>1. QED BY <1>2, <1>4, <1>7, SetSession
<1>9. UNCHANGED held /\ UNCHANGED lockPc /\ UNCHANGED call
  BY <1>1 DEF lockVars
<1>10. /\ sess[t].at = "victim" => Busy(t)' /\ sess'[t] = v
       /\ sess[t].at # "victim" => ~Busy(t)' /\ sess'[t] = n
  BY <1>5, <1>6, <1>8 DEF Busy, CommandAt
<1>11. ~Blocked(t)' /\ \A u \in Thread \ {t} : call'[u] = call[u] /\ (Blocked(u)' <=> Blocked(u))
  BY <1>2, <1>9 DEF Blocked
<1>12. OnlyMoves(t, x)
  <2>1. Busy(t)' => sess'[t].txn = x
    BY <1>5, <1>10
  <2>2. SoleKept(x)
    BY <1>9, HeldSame
  <2>3. QED BY <1>x, <1>2, <1>3, <1>8, <1>11, <2>1, <2>2, WorkerMoves
<1>13. Names(t)' /\ Stands(t)' /\ Owns(t)' /\ Waits(t)'
  <2>1. CASE sess[t].at # "victim"
    BY <1>6, <1>10, <1>11, <2>1, AtTheTop
  <2>2. CASE sess[t].at = "victim"
    <3>1. Names(t)'
      BY <1>x, <1>2, <1>3, <1>5, <1>8, <1>10, <2>2, GoesOn
    <3>2. Stands(t)' /\ Owns(t)' /\ Waits(t)'
      BY <1>5, <1>10, <1>11, <2>2 DEF Stands, Owns, Waits, InTxnAt
    <3>3. QED BY <3>1, <3>2
  <2>3. QED BY <2>1, <2>2
<1>14. /\ \A y \in Txn : WillRelease(t, y) => WillRelease(t, y)'
       /\ \A y \in Txn, c \in Table : WillEnd(t, y, c) => WillEnd(t, y, c)'
  <2>1. sess'[t].open = sess[t].open /\ sess'[t].at # "guardRelease"
    BY <1>7, <1>8
  <2>2. QED BY <1>1, <2>1 DEF WillRelease, WillEnd, InTxnAt
<1>15. QED BY <1>1, <1>3, <1>8, <1>12, <1>13, <1>14, QuietStep

\* The steps of an auto-commit up to the engine: the transaction is committed, so
\* the sequence is not 0, also when it is read.
LEMMA CommitTxnKeeps == ASSUME SessionInv, NEW t \in Thread, CommitTxn(t) PROVE SessionInv'
<1>1. At(t, "commitTxn") /\ commitTxn(sess[t].txn) /\ Goto(t, "seq")
      /\ UNCHANGED <<lockVars, storageVars>>
  BY DEF CommitTxn
<1>2. /\ sess[t].at = "commitTxn" /\ ~Blocked(t) /\ Busy(t) /\ SessionTypes /\ TxnTypes
      /\ sess[t].txn \in Txn /\ Stands(t) /\ Owns(t)
  BY <1>1, WorkerRuns DEF CommandAt
<1>x. PICK x \in Txn : x = sess[t].txn
  BY <1>2
<1>3. /\ TxnTypes' /\ next_id' = next_id /\ commit_seq' >= commit_seq
      /\ \A y \in Txn \ {x} : states'[y] = states[y]
      /\ commit_seq' > 0
  <2>1. Closable(x)
    BY <1>x, <1>2 DEF Stands, Closable
  <2>2. QED BY <1>x, <1>1, <1>2, <2>1, CloseEffect
<1>4. /\ SessionTypes' /\ sess'[t].at = "seq"
      /\ sess'[t].op = sess[t].op /\ sess'[t].txn = x
      /\ sess'[t].auto = sess[t].auto /\ sess'[t].table = sess[t].table
      /\ sess'[t].open = sess[t].open
      /\ \A u \in Thread \ {t} : sess'[u] = sess[u]
  BY <1>x, <1>1, <1>2, GotoEffect DEF SessionAt, CommandAt
<1>5. Busy(t)'
  BY <1>4 DEF Busy, CommandAt
<1>6. UNCHANGED held /\ UNCHANGED lockPc /\ UNCHANGED call
  BY <1>1 DEF lockVars
<1>7. ~Blocked(t)' /\ \A u \in Thread \ {t} : call'[u] = call[u] /\ (Blocked(u)' <=> Blocked(u))
  BY <1>2, <1>6 DEF Blocked
<1>8. OnlyMoves(t, x)
  BY <1>x, <1>2, <1>3, <1>4, <1>6, <1>7, HeldSame, WorkerMoves
<1>9. Names(t)'
  BY <1>x, <1>2, <1>3, <1>4, <1>5, GoesOn
<1>10. Stands(t)'
  BY <1>2, <1>3, <1>4 DEF Stands
<1>11. Owns(t)'
  BY <1>x, <1>2, <1>4, <1>6 DEF Owns, InTxnAt, Sole
<1>12. Waits(t)'
  BY <1>4, <1>7 DEF Waits
<1>13. /\ \A y \in Txn : WillRelease(t, y) => WillRelease(t, y)'
       /\ \A y \in Txn, c \in Table : WillEnd(t, y, c) => WillEnd(t, y, c)'
  BY <1>x, <1>2, <1>4 DEF WillRelease, WillEnd, InTxnAt
<1>14. QED BY <1>1, <1>3, <1>4, <1>8, <1>9, <1>10, <1>11, <1>12, <1>13, QuietStep

LEMMA ReadSeqKeeps == ASSUME SessionInv, NEW t \in Thread, ReadSeq(t) PROVE SessionInv'
<1> DEFINE r == [sess[t] EXCEPT !.at = "stamp", !.seq = commit_seq]
<1>1. At(t, "seq") /\ UNCHANGED <<lockVars, storageVars>> /\ UNCHANGED <<states, next_id, commit_seq>>
      /\ sess' = [sess EXCEPT ![t] = r]
  BY DEF ReadSeq, visibleSeq, txnVars
<1>2. /\ sess[t].at = "seq" /\ ~Blocked(t) /\ Busy(t) /\ SessionTypes /\ TxnTypes
      /\ sess[t].txn \in Txn /\ Stands(t) /\ Owns(t) /\ sess[t] \in SessionRec
  BY <1>1, WorkerRuns, SessionFields DEF CommandAt
<1>x. PICK x \in Txn : x = sess[t].txn
  BY <1>2
<1>q. PICK q \in Nat : q = commit_seq
  BY <1>2 DEF TxnTypes
<1>3. /\ r \in SessionRec /\ r.at = "stamp" /\ r.op = sess[t].op /\ r.txn = x /\ r.seq = q
      /\ r.auto = sess[t].auto /\ r.table = sess[t].table /\ r.open = sess[t].open
  BY <1>x, <1>q, <1>2 DEF SessionRec, SessionAt, CommandAt
<1> HIDE DEF r
<1>4. SessionTypes' /\ sess'[t] = r /\ \A u \in Thread \ {t} : sess'[u] = sess[u]
  BY <1>1, <1>2, <1>3, SetSession
<1>5. Busy(t)'
  BY <1>3, <1>4 DEF Busy, CommandAt
<1>6. /\ TxnTypes' /\ next_id' = next_id /\ commit_seq' >= commit_seq
      /\ \A y \in Txn : states'[y] = states[y]
  BY <1>1, TxnsSame
<1>7. UNCHANGED held /\ UNCHANGED lockPc /\ UNCHANGED call
  BY <1>1 DEF lockVars
<1>8. ~Blocked(t)' /\ \A u \in Thread \ {t} : call'[u] = call[u] /\ (Blocked(u)' <=> Blocked(u))
  BY <1>2, <1>7 DEF Blocked
<1>9. OnlyMoves(t, x)
  BY <1>x, <1>2, <1>3, <1>4, <1>6, <1>7, <1>8, HeldSame, WorkerMoves
<1>10. Names(t)'
  BY <1>x, <1>2, <1>3, <1>4, <1>5, <1>6, GoesOn
<1>11. Stands(t)'
  BY <1>q, <1>1, <1>2, <1>3, <1>4 DEF Stands
<1>12. Owns(t)'
  BY <1>x, <1>2, <1>3, <1>4, <1>7 DEF Owns, InTxnAt, Sole
<1>13. Waits(t)'
  BY <1>3, <1>4, <1>8 DEF Waits
<1>14. /\ \A y \in Txn : WillRelease(t, y) => WillRelease(t, y)'
       /\ \A y \in Txn, c \in Table : WillEnd(t, y, c) => WillEnd(t, y, c)'
  BY <1>x, <1>2, <1>3, <1>4 DEF WillRelease, WillEnd, InTxnAt
<1>15. QED BY <1>1, <1>4, <1>6, <1>9, <1>10, <1>11, <1>12, <1>13, <1>14, QuietStep

-----------------------------------------------------------------------------
(* Statements.                                                             *)

\* What a statement makes of its session: the next turn of the loop, with the id
\* remembered; its auto-commit; or the next row to write.
AfterStatement(s, r) ==
    \/ ~s.auto /\ r = NextIteration(Append(s.open, s.txn))
    \/ /\ r \in SessionRec
       /\ r.op = s.op /\ r.txn = s.txn /\ r.auto = s.auto /\ r.table = s.table /\ r.open = s.open
       /\ \/ r.at = "commitTxn" /\ r.auto
          \/ r.at = "write" /\ r.op # "select"

LEMMA ExecutedEffect ==
    ASSUME NEW s \in SessionRec
    PROVE  AfterStatement(s, Executed(s))
<1>1. CASE ~s.auto
  BY <1>1 DEF Executed, AfterStatement
<1>2. CASE s.auto
  BY <1>2 DEF Executed, AfterStatement, SessionRec, SessionAt, CommandAt
<1>3. QED BY <1>1, <1>2 DEF SessionRec

\* A statement writes, if anything, staged versions of its transaction to its
\* table.  What it leaves is its auto-commit's or that of openTxns.
LEMMA StatementStep ==
    ASSUME SessionInv, NEW t \in Thread, NEW l \in {"run", "write"}, At(t, l),
           UNCHANGED lockVars, UNCHANGED <<states, next_id, commit_seq>>, StorageTypeOK',
           \A c \in Table : \A v \in VersionsOf(c)' :
              \/ v \in VersionsOf(c)
              \/ c = sess[t].table /\ sess[t].op # "select" /\ v.txn = sess[t].txn,
           NEW r, sess' = [sess EXCEPT ![t] = r], AfterStatement(sess[t], r)
    PROVE  SessionInv'
<1>1. /\ sess[t].at = l /\ ~Blocked(t) /\ Busy(t) /\ SessionTypes /\ TxnTypes
      /\ sess[t].txn \in Txn /\ Names(t) /\ Stands(t) /\ Owns(t)
      /\ sess[t] \in SessionRec /\ sess[t].open \in Seq(ClientTxn)
  BY WorkerRuns, SessionFields DEF CommandAt
<1>x. PICK x \in Txn : x = sess[t].txn
  BY <1>1
<1>o. PICK o \in Seq(ClientTxn) : o = sess[t].open
  BY <1>1
<1>2. ASSUME ~sess[t].auto
      PROVE  /\ x \in ClientTxn /\ Append(o, x) \in Seq(ClientTxn)
             /\ \A i \in DOMAIN o : i \in DOMAIN Append(o, x) /\ Append(o, x)[i] = o[i]
             /\ Len(o) + 1 \in DOMAIN Append(o, x) /\ Append(o, x)[Len(o) + 1] = x
  <2>1. x \in ClientTxn
    BY <1>x, <1>1, <1>2 DEF Names
  <2>2. QED BY <2>1
<1>3. /\ r \in SessionRec /\ r.at \in {"next", "commitTxn", "write"}
      /\ r.at = "next" => ~sess[t].auto /\ r.open = Append(o, x)
      /\ r.at # "next" => /\ r.op = sess[t].op /\ r.txn = x /\ r.auto = sess[t].auto
                          /\ r.table = sess[t].table /\ r.open = o
                          /\ \/ r.at = "commitTxn" /\ r.auto
                             \/ r.at = "write" /\ r.op # "select"
  <2>1. CASE ~sess[t].auto /\ r = NextIteration(Append(o, x))
    BY <1>2, <2>1, NextIterationFields
  <2>2. CASE ~(~sess[t].auto /\ r = NextIteration(Append(o, x)))
    <3>1. /\ r \in SessionRec
          /\ r.op = sess[t].op /\ r.txn = x /\ r.auto = sess[t].auto
          /\ r.table = sess[t].table /\ r.open = o
          /\ \/ r.at = "commitTxn" /\ r.auto
             \/ r.at = "write" /\ r.op # "select"
      BY <1>x, <1>o, <2>2 DEF AfterStatement
    <3>2. QED BY <3>1
  <2>3. QED BY <2>1, <2>2
<1>4. SessionTypes' /\ sess'[t] = r /\ \A u \in Thread \ {t} : sess'[u] = sess[u]
  BY <1>1, <1>3, SetSession
<1>5. Busy(t)' <=> r.at # "next"
  BY <1>3, <1>4 DEF Busy, CommandAt
<1>6. /\ TxnTypes' /\ next_id' = next_id /\ commit_seq' >= commit_seq
      /\ \A y \in Txn : states'[y] = states[y]
  BY TxnsSame
<1>7. UNCHANGED held /\ UNCHANGED lockPc /\ UNCHANGED call
  BY DEF lockVars
<1>8. ~Blocked(t)' /\ \A u \in Thread \ {t} : call'[u] = call[u] /\ (Blocked(u)' <=> Blocked(u))
  BY <1>1, <1>7 DEF Blocked
<1>9. OnlyMoves(t, x)
  <2>1. Busy(t)' => sess'[t].txn = x
    BY <1>3, <1>4, <1>5
  <2>2. QED BY <1>x, <1>1, <1>4, <1>6, <1>7, <1>8, <2>1, HeldSame, WorkerMoves
<1>10. Names(t)' /\ Stands(t)' /\ Owns(t)' /\ Waits(t)'
  <2>1. CASE r.at = "next"
    BY <1>4, <1>8, <2>1, AtTheTop
  <2>2. CASE r.at # "next"
    <3>1. Names(t)'
      BY <1>x, <1>1, <1>3, <1>4, <1>5, <1>6, <2>2, GoesOn
    <3>2. sess[t].auto => states[x] = "Active"
      BY <1>x, <1>1 DEF Stands
    <3>3. Stands(t)'
      BY <1>3, <1>4, <1>6, <2>2, <3>2 DEF Stands
    <3>4. Owns(t)'
      <4>1. /\ sess'[t].auto = sess[t].auto /\ sess'[t].op = sess[t].op
            /\ sess'[t].table = sess[t].table /\ sess'[t].txn = sess[t].txn
        BY <1>x, <1>3, <1>4, <2>2
      <4>2. sess[t].auto /\ sess[t].op # "select" => held[<<sess[t].table, NoRow>>] = Sole(sess[t].txn)
        BY <1>1 DEF Owns, InTxnAt
      <4>3. QED BY <1>7, <4>1, <4>2 DEF Owns, Sole
    <3>5. Waits(t)'
      BY <1>3, <1>4, <1>8 DEF Waits
    <3>6. QED BY <3>1, <3>3, <3>4, <3>5
  <2>3. QED BY <2>1, <2>2
<1>11. LocksCared(t)
  <2>1. ASSUME NEW y \in Txn, WillRelease(t, y)
        PROVE  WillRelease(t, y)'
    <3>1. y = x \/ \E i \in DOMAIN o : o[i] = y
      BY <1>x, <1>o, <2>1 DEF WillRelease
    <3>2. CASE r.at = "next"
      <4>1. \E i \in DOMAIN Append(o, x) : Append(o, x)[i] = y
        BY <1>2, <1>3, <3>1, <3>2
      <4>2. QED BY <1>3, <1>4, <3>2, <4>1 DEF WillRelease
    <3>3. CASE r.at # "next"
      BY <1>3, <1>4, <3>1, <3>3 DEF WillRelease, InTxnAt
    <3>4. QED BY <3>2, <3>3
  <2>2. QED BY <1>7, <2>1, HeldSame DEF LocksCared
<1>12. WritesCared(t)
  <2>1. ASSUME NEW y \in Txn, NEW c \in Table,
               \/ WillEnd(t, y, c)
               \/ y = x /\ c = sess[t].table /\ sess[t].op # "select"
        PROVE  WillEnd(t, y, c)'
    <3>1. \/ y = x /\ (sess[t].auto => sess[t].table = c /\ sess[t].op # "select")
          \/ \E i \in DOMAIN o : o[i] = y
      BY <1>x, <1>o, <2>1 DEF WillEnd
    <3>2. CASE r.at = "next"
      <4>1. \E i \in DOMAIN Append(o, x) : Append(o, x)[i] = y
        BY <1>2, <1>3, <3>1, <3>2
      <4>2. QED BY <1>3, <1>4, <3>2, <4>1 DEF WillEnd
    <3>3. CASE r.at # "next"
      BY <1>3, <1>4, <3>1, <3>3 DEF WillEnd, InTxnAt
    <3>4. QED BY <3>2, <3>3
  <2>2. ASSUME NEW y \in Txn, NEW c \in Table, StagedIn(y, c)'
        PROVE  StagedIn(y, c) \/ (y = x /\ c = sess[t].table /\ sess[t].op # "select")
    <3>1. PICK v \in VersionsOf(c)' : Staged(y, v)
      BY <2>2 DEF StagedIn
    <3>2. QED BY <1>x, <3>1 DEF StagedIn, Staged
  <2>3. QED BY <2>1, <2>2 DEF WritesCared
<1>13. Types'
  BY <1>4, <1>6, LocksSameTypes DEF Types
<1>14. QED BY <1>9, <1>10, <1>11, <1>12, <1>13, Whole

LEMMA SelectKeeps == ASSUME SessionInv, NEW t \in Thread, Select(t) PROVE SessionInv'
<1>1. At(t, "run") /\ sess' = [sess EXCEPT ![t] = Executed(sess[t])] /\ UNCHANGED lockVars
      /\ UNCHANGED <<states, next_id, commit_seq>> /\ UNCHANGED storageVars
  BY DEF Select, txnVars
<1>2. AfterStatement(sess[t], Executed(sess[t]))
  BY WorkerRuns, SessionFields, ExecutedEffect
<1>3. StorageTypeOK' /\ \A c \in Table : VersionsOf(c)' = VersionsOf(c)
  BY <1>1, StorageSameTypes DEF storageVars, VersionsOf
<1>4. QED BY <1>1, <1>2, <1>3, StatementStep

LEMMA InsertKeeps == ASSUME SessionInv, NEW t \in Thread, Insert(t) PROVE SessionInv'
<1>1. At(t, "run") /\ sess[t].op = "insert" /\ sess' = [sess EXCEPT ![t] = Executed(sess[t])]
      /\ UNCHANGED lockVars /\ UNCHANGED <<states, next_id, commit_seq>>
  BY DEF Insert, txnVars
<1>2. AfterStatement(sess[t], Executed(sess[t]))
  BY WorkerRuns, SessionFields, ExecutedEffect
<1>3. sess[t].txn \in Txn /\ sess[t].table \in Table /\ StorageTypeOK
  BY <1>1, WorkerRuns DEF CommandAt
<1>4. PICK k : put(sess[t].txn, sess[t].table, k) \/ putAuto(sess[t].txn, sess[t].table)
  BY DEF Insert
<1>5. /\ StorageTypeOK'
      /\ \A c \in Table : \A v \in VersionsOf(c)' :
            v \in VersionsOf(c) \/ (c = sess[t].table /\ v.txn = sess[t].txn /\ v.seq = 0)
  BY <1>3, <1>4, WriteEffect
<1>6. QED BY <1>1, <1>2, <1>5, StatementStep

LEMMA CollectRowsKeeps == ASSUME SessionInv, NEW t \in Thread, CollectRows(t) PROVE SessionInv'
<1>1. At(t, "run") /\ sess[t].op \in {"update", "delete"} /\ UNCHANGED lockVars
      /\ UNCHANGED <<states, next_id, commit_seq>> /\ UNCHANGED storageVars
  BY DEF CollectRows, txnVars
<1>2. sess[t] \in SessionRec
  BY WorkerRuns, SessionFields
<1>3. PICK rows \in SUBSET scan(sess[t].txn, sess[t].table) :
          sess' = [sess EXCEPT ![t] = IF rows = {} THEN Executed(@)
                                      ELSE [@ EXCEPT !.at = "write", !.todo = rows]]
  BY DEF CollectRows
<1>4. rows \in SUBSET Key
  BY DEF scan
<1> DEFINE w == [sess[t] EXCEPT !.at = "write", !.todo = rows]
           r == IF rows = {} THEN Executed(sess[t]) ELSE w
<1>5. sess' = [sess EXCEPT ![t] = r]
  BY <1>3
<1>6. AfterStatement(sess[t], w)
  BY <1>1, <1>2, <1>4 DEF AfterStatement, SessionRec, SessionAt, CommandAt
<1>7. AfterStatement(sess[t], r)
  BY <1>2, <1>6, ExecutedEffect
<1>8. StorageTypeOK' /\ \A c \in Table : VersionsOf(c)' = VersionsOf(c)
  BY <1>1, StorageSameTypes DEF storageVars, VersionsOf
<1> HIDE DEF r
<1>9. QED BY <1>1, <1>5, <1>7, <1>8, StatementStep

LEMMA WriteRowKeeps == ASSUME SessionInv, NEW t \in Thread, WriteRow(t) PROVE SessionInv'
<1> DEFINE k == Min(sess[t].todo)
           left == sess[t].todo \ {k}
           w == [sess[t] EXCEPT !.todo = left]
           r == IF left = {} THEN Executed(sess[t]) ELSE w
<1>1. At(t, "write") /\ UNCHANGED lockVars /\ UNCHANGED <<states, next_id, commit_seq>>
      /\ (put(sess[t].txn, sess[t].table, k) \/ remove(sess[t].txn, sess[t].table, k))
      /\ sess' = [sess EXCEPT ![t] = r]
  BY DEF WriteRow, txnVars
<1>2. /\ sess[t].at = "write" /\ sess[t].txn \in Txn /\ sess[t].table \in Table
      /\ StorageTypeOK /\ Stands(t) /\ sess[t] \in SessionRec
  BY <1>1, WorkerRuns, SessionFields DEF CommandAt
<1>3. left \in SUBSET Key /\ sess[t].op # "select"
  BY <1>2 DEF SessionRec, Stands
<1> HIDE DEF k, left
<1>4. /\ StorageTypeOK'
      /\ \A c \in Table : \A v \in VersionsOf(c)' :
            v \in VersionsOf(c) \/ (c = sess[t].table /\ v.txn = sess[t].txn /\ v.seq = 0)
  BY <1>1, <1>2, WriteEffect
<1>5. AfterStatement(sess[t], w)
  BY <1>2, <1>3 DEF AfterStatement, SessionRec
<1>6. AfterStatement(sess[t], r)
  BY <1>2, <1>5, ExecutedEffect
<1> HIDE DEF r
<1>7. QED BY <1>1, <1>3, <1>4, <1>6, StatementStep

-----------------------------------------------------------------------------
(* The engine's commit and abort.                                          *)

LEMMA StampEngineKeeps == ASSUME SessionInv, NEW t \in Thread, StampEngine(t) PROVE SessionInv'
<1>0. At(t, "stamp") /\ commit(sess[t].txn, sess[t].seq) /\ Goto(t, "release")
      /\ UNCHANGED lockVars /\ UNCHANGED <<states, next_id, commit_seq>>
  BY DEF StampEngine, txnVars
<1>1. /\ sess[t].at = "stamp" /\ ~Blocked(t) /\ Busy(t) /\ SessionTypes /\ TxnTypes /\ StorageTypeOK
      /\ sess[t].txn \in Txn /\ Stands(t) /\ sess[t].seq \in Nat
  BY <1>0, WorkerRuns, SessionFields DEF CommandAt
<1>x. PICK x \in Txn : x = sess[t].txn
  BY <1>1
<1>q. PICK q \in Nat : q = sess[t].seq /\ q > 0
  BY <1>1 DEF Stands
<1>2. /\ StorageTypeOK'
      /\ \A c \in Table : \A w \in VersionsOf(c)' :
            \E v \in VersionsOf(c) : /\ w.txn = v.txn
                                     /\ IF Staged(x, v) THEN w.seq = q ELSE w = v
  BY <1>x, <1>q, <1>0, <1>1, CommitEffect
<1>3. /\ SessionTypes' /\ sess'[t].at = "release"
      /\ sess'[t].op = sess[t].op /\ sess'[t].txn = x
      /\ sess'[t].auto = sess[t].auto /\ sess'[t].table = sess[t].table
      /\ sess'[t].open = sess[t].open
      /\ \A u \in Thread \ {t} : sess'[u] = sess[u]
  BY <1>x, <1>0, <1>1, GotoEffect DEF SessionAt, CommandAt
<1>4. Busy(t)'
  BY <1>3 DEF Busy, CommandAt
<1>5. /\ TxnTypes' /\ next_id' = next_id /\ commit_seq' >= commit_seq
      /\ \A y \in Txn : states'[y] = states[y]
  BY <1>0, TxnsSame
<1>6. UNCHANGED held /\ UNCHANGED lockPc /\ UNCHANGED call
  BY <1>0 DEF lockVars
<1>7. ~Blocked(t)' /\ \A u \in Thread \ {t} : call'[u] = call[u] /\ (Blocked(u)' <=> Blocked(u))
  BY <1>1, <1>6 DEF Blocked
<1>8. OnlyMoves(t, x)
  BY <1>x, <1>1, <1>3, <1>5, <1>6, <1>7, HeldSame, WorkerMoves
<1>9. Names(t)'
  BY <1>x, <1>1, <1>3, <1>4, <1>5, GoesOn
<1>10. Stands(t)' /\ Owns(t)' /\ Waits(t)'
  BY <1>3, <1>7 DEF Stands, Owns, Waits, InTxnAt
<1>11. LocksCared(t)
  <2>1. \A y \in Txn : WillRelease(t, y) => WillRelease(t, y)'
    BY <1>x, <1>1, <1>3 DEF WillRelease
  <2>2. QED BY <1>6, <2>1, HeldSame DEF LocksCared
<1>12. WritesCared(t)
  <2>1. ASSUME NEW y \in Txn, NEW c \in Table, StagedIn(y, c)'
        PROVE  StagedIn(y, c) /\ y # x
    <3>1. PICK w \in VersionsOf(c)' : Staged(y, w)
      BY <2>1 DEF StagedIn
    <3>2. PICK v \in VersionsOf(c) : /\ w.txn = v.txn
                                     /\ IF Staged(x, v) THEN w.seq = q ELSE w = v
      BY <1>2
    <3>3. ~Staged(x, v)
      BY <1>q, <3>1, <3>2 DEF Staged
    <3>4. QED BY <3>1, <3>2, <3>3 DEF StagedIn, Staged
  <2>2. \A y \in Txn \ {x}, c \in Table : WillEnd(t, y, c) => WillEnd(t, y, c)'
    BY <1>x, <1>1, <1>3 DEF WillEnd
  <2>3. QED BY <2>1, <2>2 DEF WritesCared
<1>13. Types'
  BY <1>0, <1>2, <1>3, <1>5, LocksSameTypes DEF Types
<1>14. QED BY <1>8, <1>9, <1>10, <1>11, <1>12, <1>13, Whole

LEMMA GuardAbortKeeps == ASSUME SessionInv, NEW t \in Thread, GuardAbort(t) PROVE SessionInv'
<1>0. At(t, "guardAbort") /\ abort(Head(sess[t].open)) /\ Goto(t, "guardRelease")
      /\ UNCHANGED lockVars /\ UNCHANGED <<states, next_id, commit_seq>>
  BY DEF GuardAbort, txnVars
<1>1. /\ sess[t].at = "guardAbort" /\ ~Blocked(t) /\ SessionTypes /\ TxnTypes /\ StorageTypeOK
      /\ Names(t) /\ sess[t].open \in Seq(ClientTxn)
  BY <1>0, WorkerRuns, SessionFields
<1>o. PICK o \in Seq(ClientTxn) : o = sess[t].open /\ o # <<>>
  BY <1>1 DEF Names
<1>h. PICK h \in Txn : h \in ClientTxn /\ h = Head(o) /\ h = o[1]
  BY <1>o DEF ClientTxn
<1>2. /\ StorageTypeOK'
      /\ \A c \in Table : \A v \in VersionsOf(c)' : v \in VersionsOf(c) /\ ~Staged(h, v)
  BY <1>o, <1>h, <1>0, <1>1, AbortEffect
<1>3. /\ SessionTypes' /\ sess'[t].at = "guardRelease" /\ sess'[t].open = o
      /\ \A u \in Thread \ {t} : sess'[u] = sess[u]
  BY <1>o, <1>0, <1>1, GotoEffect DEF SessionAt
<1>4. ~Busy(t)'
  BY <1>3 DEF Busy, CommandAt
<1>5. /\ TxnTypes' /\ next_id' = next_id /\ commit_seq' >= commit_seq
      /\ \A y \in Txn : states'[y] = states[y]
  BY <1>0, TxnsSame
<1>6. UNCHANGED held /\ UNCHANGED lockPc /\ UNCHANGED call
  BY <1>0 DEF lockVars
<1>7. ~Blocked(t)' /\ \A u \in Thread \ {t} : call'[u] = call[u] /\ (Blocked(u)' <=> Blocked(u))
  BY <1>1, <1>6 DEF Blocked
<1>8. OnlyMoves(t, h)
  <2>1. next_id' >= next_id /\ 1..next_id \subseteq Txn
    BY <1>1, <1>5, TxnIds
  <2>2. QED BY <1>h, <1>3, <1>4, <1>5, <1>6, <1>7, <2>1, HeldSame DEF OnlyMoves
<1>9. Names(t)' /\ Stands(t)' /\ Owns(t)' /\ Waits(t)'
  BY <1>o, <1>3, <1>4, <1>7 DEF Names, Stands, Owns, Waits, InTxnAt
<1>10. LocksCared(t)
  <2>1. \A y \in Txn : WillRelease(t, y) => WillRelease(t, y)'
    BY <1>o, <1>1, <1>3 DEF WillRelease, InTxnAt
  <2>2. QED BY <1>6, <2>1, HeldSame DEF LocksCared
<1>11. WritesCared(t)
  <2>1. ASSUME NEW y \in Txn, NEW c \in Table, StagedIn(y, c)'
        PROVE  StagedIn(y, c) /\ y # h
    <3>1. PICK v \in VersionsOf(c)' : Staged(y, v)
      BY <2>1 DEF StagedIn
    <3>2. QED BY <1>2, <3>1 DEF StagedIn
  <2>2. ASSUME NEW y \in Txn \ {h}, NEW c \in Table, WillEnd(t, y, c)
        PROVE  WillEnd(t, y, c)'
    <3>1. PICK i \in DOMAIN o : o[i] = y
      BY <1>o, <1>1, <2>2 DEF WillEnd, InTxnAt
    <3>2. i # 1
      BY <1>h, <2>2, <3>1
    <3>3. QED BY <1>3, <3>1, <3>2 DEF WillEnd
  <2>3. QED BY <2>1, <2>2 DEF WritesCared
<1>12. Types'
  BY <1>0, <1>2, <1>3, <1>5, LocksSameTypes DEF Types
<1>13. QED BY <1>8, <1>9, <1>10, <1>11, <1>12, Whole

-----------------------------------------------------------------------------
(* Steps of the lock manager.                                              *)

LEMMA AnyStepTypes ==
    ASSUME SessionInv, AnyStep
    PROVE  LockTypes' /\ WaiterAccounting'
BY LockTypesStep, WaiterAccountingStep DEF SessionInv, Types

LEMMA ReleaseTypes ==
    ASSUME SessionInv, NEW t \in Thread, NEW x \in Txn, release(t, x)
    PROVE  /\ LockTypes' /\ WaiterAccounting' /\ ~Blocked(t)'
           /\ \A u \in Thread \ {t} : (Blocked(u)' <=> Blocked(u)) /\ call'[u] = call[u]
<1>1. ResourceKey \in SUBSET ResourceKey
  OBVIOUS
<1>2. AnyStep
  BY <1>1 DEF AnyStep, release
<1>3. lockPc \in [Thread -> PC] /\ lockPc[t] = "idle"
  BY DEF SessionInv, Types, LockTypes, release, Drop
<1>4. /\ UNCHANGED call
      /\ \E p \in {"idle", "notify"} : lockPc' = [lockPc EXCEPT ![t] = p]
  BY <1>3 DEF release, Drop
<1>5. QED BY <1>2, <1>3, <1>4, AnyStepTypes DEF Blocked

\* A lock step keeps the invariant if it puts its own command right, and leaves
\* the engine's part to whom it was left before.
LEMMA LockStep ==
    ASSUME SessionInv, UNCHANGED storageVars, UNCHANGED <<states, next_id, commit_seq>>,
           LockTypes', WaiterAccounting', SessionTypes',
           NEW t \in Thread, NEW x \in Txn, OnlyMoves(t, x),
           Names(t)', Stands(t)', Owns(t)', Waits(t)', LocksCared(t),
           \A y \in Txn, c \in Table : WillEnd(t, y, c) => WillEnd(t, y, c)'
    PROVE  SessionInv'
<1>1. Types'
  BY TxnsSame, StorageSameTypes DEF Types
<1>2. UNCHANGED tables
  BY DEF storageVars
<1>3. WritesCared(t)
  BY <1>2, TablesSame DEF WritesCared
<1>4. QED BY <1>1, <1>3, Whole

LEMMA ReleaseKeeps == ASSUME SessionInv, NEW t \in Thread, Release(t) PROVE SessionInv'
<1>0. At(t, "release") /\ release(t, sess[t].txn) /\ UNCHANGED storageVars
      /\ UNCHANGED <<states, next_id, commit_seq>>
      /\ sess' = [sess EXCEPT ![t] = NextIteration(sess[t].open)]
  BY DEF Release, txnVars
<1>1. /\ sess[t].at = "release" /\ Busy(t) /\ SessionTypes /\ TxnTypes /\ LockTypes
      /\ sess[t].txn \in Txn /\ sess[t].open \in Seq(ClientTxn)
  BY <1>0, WorkerRuns, SessionFields DEF CommandAt
<1>x. PICK x \in Txn : x = sess[t].txn
  BY <1>1
<1>o. PICK o \in Seq(ClientTxn) : o = sess[t].open
  BY <1>1
<1>2. /\ LockTypes' /\ WaiterAccounting' /\ ~Blocked(t)'
      /\ \A u \in Thread \ {t} : (Blocked(u)' <=> Blocked(u)) /\ call'[u] = call[u]
  BY <1>x, <1>0, ReleaseTypes
<1>3. /\ \A y \in Txn : HoldsLock(y)' => HoldsLock(y) /\ y # x
      /\ SoleKept(x)
  BY <1>x, <1>0, <1>1, ReleaseEffect
<1>4. /\ SessionTypes' /\ sess'[t].at = "next" /\ sess'[t].open = o
      /\ \A u \in Thread \ {t} : sess'[u] = sess[u]
  <2>1. PICK n \in SessionRec : n = NextIteration(o) /\ n.at = "next" /\ n.open = o
    BY NextIterationFields
  <2>2. QED BY <1>o, <1>0, <1>1, <2>1, SetSession
<1>5. Names(t)' /\ Stands(t)' /\ Owns(t)' /\ Waits(t)' /\ ~Busy(t)'
  BY <1>2, <1>4, AtTheTop
<1>6. OnlyMoves(t, x)
  <2>1. next_id' = next_id /\ commit_seq' >= commit_seq /\ \A y \in Txn : states'[y] = states[y]
    BY <1>0, TxnsSame
  <2>2. QED BY <1>x, <1>1, <1>2, <1>3, <1>4, <1>5, <2>1, WorkerMoves
<1>7. LocksCared(t)
  <2>1. \A y \in Txn \ {x} : WillRelease(t, y) => WillRelease(t, y)'
    BY <1>x, <1>o, <1>4 DEF WillRelease
  <2>2. QED BY <1>3, <2>1 DEF LocksCared
<1>8. \A y \in Txn, c \in Table : WillEnd(t, y, c) => WillEnd(t, y, c)'
  BY <1>o, <1>1, <1>4 DEF WillEnd, InTxnAt
<1>9. QED BY <1>0, <1>2, <1>4, <1>5, <1>6, <1>7, <1>8, LockStep

LEMMA GuardReleaseKeeps == ASSUME SessionInv, NEW t \in Thread, GuardRelease(t) PROVE SessionInv'
<1>0. At(t, "guardRelease") /\ release(t, Head(sess[t].open)) /\ UNCHANGED storageVars
      /\ UNCHANGED <<states, next_id, commit_seq>>
  BY DEF GuardRelease, txnVars
<1>1. /\ sess[t].at = "guardRelease" /\ SessionTypes /\ TxnTypes /\ LockTypes /\ Names(t)
      /\ sess[t] \in SessionRec /\ sess[t].open \in Seq(ClientTxn)
  BY <1>0, WorkerRuns, SessionFields
<1>o. PICK o \in Seq(ClientTxn) : o = sess[t].open /\ o # <<>>
  BY <1>1 DEF Names
<1>h. PICK h \in Txn : h \in ClientTxn /\ h = Head(o) /\ h = o[1]
  BY <1>o DEF ClientTxn
<1>m. Tail(o) \in Seq(ClientTxn)
  BY <1>o, HeadTailProperties
<1>l. PICK left \in Seq(ClientTxn) : left = Tail(o)
  BY <1>m
<1>a. PICK l \in {"next", "guardAbort"} : l = IF left = <<>> THEN "next" ELSE "guardAbort"
  OBVIOUS
<1> DEFINE r == [sess[t] EXCEPT !.open = left, !.at = l]
<1>2. sess' = [sess EXCEPT ![t] = r]
  BY <1>o, <1>l, <1>a DEF GuardRelease
<1>3. r \in SessionRec /\ r.at = l /\ r.open = left
  BY <1>1 DEF SessionRec, SessionAt
<1> HIDE DEF r
<1>4. /\ SessionTypes' /\ sess'[t] = r
      /\ \A u \in Thread \ {t} : sess'[u] = sess[u]
  BY <1>1, <1>2, <1>3, SetSession
<1>5. /\ LockTypes' /\ WaiterAccounting' /\ ~Blocked(t)'
      /\ \A u \in Thread \ {t} : (Blocked(u)' <=> Blocked(u)) /\ call'[u] = call[u]
  BY <1>o, <1>h, <1>0, ReleaseTypes
<1>6. /\ \A y \in Txn : HoldsLock(y)' => HoldsLock(y) /\ y # h
      /\ SoleKept(h)
  BY <1>o, <1>h, <1>0, <1>1, ReleaseEffect
<1>7. ~Busy(t)'
  BY <1>3, <1>4 DEF Busy, CommandAt
<1>8. OnlyMoves(t, h)
  <2>1. next_id' = next_id /\ commit_seq' >= commit_seq /\ \A y \in Txn : states'[y] = states[y]
    BY <1>0, TxnsSame
  <2>2. next_id' >= next_id /\ 1..next_id \subseteq Txn
    BY <1>1, <2>1, TxnIds
  <2>3. QED BY <1>h, <1>4, <1>5, <1>6, <1>7, <2>1, <2>2 DEF OnlyMoves
<1>9. Names(t)' /\ Stands(t)' /\ Owns(t)' /\ Waits(t)'
  BY <1>a, <1>3, <1>4, <1>5, <1>7 DEF Names, Stands, Owns, Waits, InTxnAt
\* Another place of openTxns is still in what is left.
<1>10. ASSUME NEW i \in DOMAIN o, i # 1
       PROVE  i - 1 \in DOMAIN left /\ left[i - 1] = o[i]
  BY <1>o, <1>l, <1>10
<1>11. LocksCared(t)
  <2>1. ASSUME NEW y \in Txn \ {h}, WillRelease(t, y)
        PROVE  WillRelease(t, y)'
    <3>1. PICK i \in DOMAIN o : o[i] = y
      BY <1>o, <1>1, <2>1 DEF WillRelease, InTxnAt
    <3>2. i # 1
      BY <1>h, <3>1
    <3>3. QED BY <1>3, <1>4, <1>10, <3>1, <3>2 DEF WillRelease
  <2>2. QED BY <1>6, <2>1 DEF LocksCared
<1>12. ASSUME NEW y \in Txn, NEW c \in Table, WillEnd(t, y, c)
       PROVE  WillEnd(t, y, c)'
  <2>1. PICK i \in DOMAIN o : o[i] = y /\ i # 1
    BY <1>o, <1>1, <1>12 DEF WillEnd, InTxnAt
  <2>2. QED BY <1>3, <1>4, <1>10, <2>1 DEF WillEnd
<1>13. QED BY <1>0, <1>4, <1>5, <1>8, <1>9, <1>11, <1>12, LockStep

\* An auto-commit that has not got its lock yet holds nothing: its id is its own,
\* and in nobody's openTxns.
LEMMA HoldsNothingYet ==
    ASSUME SessionInv, NEW t \in Thread, sess[t].at \in {"lock", "blocked"}, sess[t].auto
    PROVE  ~HoldsLock(sess[t].txn)
<1>1. Busy(t) /\ Names(t) /\ TxnTypes /\ SessionTypes
  BY WorkerRuns DEF CommandAt
<1>x. PICK x \in Txn : x = sess[t].txn
  BY <1>1 DEF Names
<1>2. x \in 1..next_id /\ x \notin ClientTxn /\ \A u \in Thread : u # t /\ Busy(u) => sess[u].txn # x
  BY <1>x, <1>1, TxnIds DEF Names
<1>3. ASSUME NEW u \in Thread, WillRelease(u, x)
      PROVE  FALSE
  <2>1. sess[u].open \in Seq(ClientTxn)
    BY <1>1, SessionFields
  <2>2. sess[u].at \in InTxnAt \cup {"release"} => Busy(u) /\ u # t
    BY DEF InTxnAt, Busy, CommandAt
  <2>3. PICK i \in DOMAIN sess[u].open : sess[u].open[i] = x
    BY <1>2, <1>3, <2>2 DEF WillRelease
  <2>4. QED BY <1>2, <2>1, <2>3
<1>4. QED BY <1>x, <1>3 DEF SessionInv, Locked

\* The command of t gets the lock it has asked for or waited for.
LEMMA GrantedCommand ==
    ASSUME SessionInv, UNCHANGED storageVars, UNCHANGED <<states, next_id, commit_seq>>,
           NEW t \in Thread, sess[t].at \in {"lock", "blocked"},
           NEW x \in Txn, x = sess[t].txn,
           grantableUnlocked(x, <<sess[t].table, NoRow>>, ModeOf(sess[t].op)),
           grantUnlocked(x, <<sess[t].table, NoRow>>, ModeOf(sess[t].op)),
           Goto(t, "run"), LockTypes', WaiterAccounting', ~Blocked(t)',
           \A u \in Thread \ {t} : (Blocked(u)' <=> Blocked(u)) /\ call'[u] = call[u]
    PROVE  SessionInv'
<1>1. /\ TxnTypes /\ SessionTypes /\ LockTypes /\ Stands(t) /\ Busy(t) /\ sess[t].table \in Table
  BY WorkerRuns DEF CommandAt
<1>2. /\ SessionTypes' /\ sess'[t].at = "run"
      /\ sess'[t].op = sess[t].op /\ sess'[t].txn = x
      /\ sess'[t].auto = sess[t].auto /\ sess'[t].table = sess[t].table
      /\ sess'[t].open = sess[t].open
      /\ \A u \in Thread \ {t} : sess'[u] = sess[u]
  BY <1>1, GotoEffect DEF SessionAt, CommandAt
<1>m. PICK m \in LockMode : m = ModeOf(sess[t].op)
  BY DEF LockMode, ModeOf
<1>k. PICK k \in ResourceKey : k = <<sess[t].table, NoRow>>
  BY <1>1, TableKey
<1>3. /\ \A y \in Txn : HoldsLock(y)' => HoldsLock(y) \/ y = x
      /\ SoleKept(x)
      /\ ~HoldsLock(x) /\ m = "Exclusive" => held'[k] = Sole(x)
  BY <1>m, <1>k, <1>1, GrantEffect
<1>4. Busy(t)'
  BY <1>2 DEF Busy, CommandAt
<1>5. /\ next_id' = next_id /\ commit_seq' >= commit_seq
      /\ \A y \in Txn : states'[y] = states[y]
  BY TxnsSame
<1>6. OnlyMoves(t, x)
  BY <1>1, <1>2, <1>3, <1>5, WorkerMoves
<1>7. Names(t)'
  BY <1>1, <1>2, <1>4, <1>5, GoesOn
<1>8. Stands(t)'
  <2>1. sess[t].auto => states[x] = "Active"
    BY <1>1 DEF Stands
  <2>2. QED BY <1>2, <1>5, <2>1 DEF Stands
<1>9. Owns(t)'
  <2> SUFFICES ASSUME sess[t].auto, sess[t].op # "select"
               PROVE  held'[k] = Sole(x)
    BY <1>k, <1>2 DEF Owns, Sole
  <2>1. ~HoldsLock(x)
    BY HoldsNothingYet
  <2>2. m = "Exclusive"
    BY <1>m DEF ModeOf
  <2>3. QED BY <1>3, <2>1, <2>2
<1>10. Waits(t)'
  BY <1>2 DEF Waits
<1>11. LocksCared(t)
  <2>1. WillRelease(t, x)'
    BY <1>2 DEF WillRelease, InTxnAt
  <2>2. \A y \in Txn : WillRelease(t, y) => WillRelease(t, y)'
    BY <1>2 DEF WillRelease, InTxnAt
  <2>3. QED BY <1>3, <2>1, <2>2 DEF LocksCared
<1>12. \A y \in Txn, c \in Table : WillEnd(t, y, c) => WillEnd(t, y, c)'
  BY <1>2 DEF WillEnd, InTxnAt
<1>13. QED BY <1>2, <1>6, <1>7, <1>8, <1>9, <1>10, <1>11, <1>12, LockStep

\* It waits for it, or no longer.
LEMMA DeniedCommand ==
    ASSUME SessionInv, UNCHANGED storageVars, UNCHANGED <<states, next_id, commit_seq>>,
           NEW t \in Thread, NEW l \in {"blocked", "timedOut"},
           sess[t].at = IF l = "blocked" THEN "lock" ELSE "blocked",
           UNCHANGED held, Goto(t, l), LockTypes', WaiterAccounting',
           Blocked(t)' <=> l = "blocked",
           l = "blocked" => /\ call'[t].txn = sess[t].txn
                            /\ call'[t].key = <<sess[t].table, NoRow>>
                            /\ call'[t].mode = ModeOf(sess[t].op),
           \A u \in Thread \ {t} : (Blocked(u)' <=> Blocked(u)) /\ call'[u] = call[u]
    PROVE  SessionInv'
<1>1. /\ SessionTypes /\ Stands(t) /\ Busy(t) /\ sess[t].txn \in Txn
  BY WorkerRuns DEF CommandAt
<1>x. PICK x \in Txn : x = sess[t].txn
  BY <1>1
<1>2. /\ SessionTypes' /\ sess'[t].at = l
      /\ sess'[t].op = sess[t].op /\ sess'[t].txn = x
      /\ sess'[t].auto = sess[t].auto /\ sess'[t].table = sess[t].table
      /\ sess'[t].open = sess[t].open
      /\ \A u \in Thread \ {t} : sess'[u] = sess[u]
  BY <1>x, <1>1, GotoEffect DEF SessionAt, CommandAt
<1>3. Busy(t)'
  BY <1>2 DEF Busy, CommandAt
<1>4. /\ next_id' = next_id /\ commit_seq' >= commit_seq
      /\ \A y \in Txn : states'[y] = states[y]
  BY TxnsSame
<1>5. OnlyMoves(t, x)
  BY <1>x, <1>1, <1>2, <1>4, HeldSame, WorkerMoves
<1>6. Names(t)'
  BY <1>x, <1>1, <1>2, <1>3, <1>4, GoesOn
<1>7. Stands(t)'
  <2>1. sess[t].auto => states[x] = "Active"
    BY <1>x, <1>1 DEF Stands
  <2>2. QED BY <1>2, <1>4, <2>1 DEF Stands
<1>8. Owns(t)'
  BY <1>2 DEF Owns, InTxnAt
<1>9. Waits(t)'
  BY <1>x, <1>2 DEF Waits
<1>10. LocksCared(t)
  <2>1. \A y \in Txn : WillRelease(t, y) => WillRelease(t, y)'
    BY <1>2 DEF WillRelease, InTxnAt
  <2>2. QED BY <2>1, HeldSame DEF LocksCared
<1>11. \A y \in Txn, c \in Table : WillEnd(t, y, c) => WillEnd(t, y, c)'
  BY <1>2 DEF WillEnd, InTxnAt
<1>12. QED BY <1>2, <1>5, <1>6, <1>7, <1>8, <1>9, <1>10, <1>11, LockStep

LEMMA LockTableKeeps == ASSUME SessionInv, NEW t \in Thread, LockTable(t) PROVE SessionInv'
<1>x. PICK x \in Txn : x = sess[t].txn
  BY WorkerRuns DEF LockTable, CommandAt
<1> DEFINE k == <<sess[t].table, NoRow>>
           m == ModeOf(sess[t].op)
           c == [txn |-> x, key |-> k, mode |-> m, bounded |-> TRUE]
<1>0. At(t, "lock") /\ RequestLock(t, c) /\ UNCHANGED storageVars
      /\ UNCHANGED <<states, next_id, commit_seq>>
      /\ Goto(t, IF grantableUnlocked(x, k, m) THEN "run" ELSE "blocked")
  BY <1>x DEF LockTable, tryAcquireKey, txnVars, ModeOf
<1>1. sess[t].at = "lock" /\ ~Blocked(t) /\ LockTypes /\ sess[t].table \in Table
  BY <1>0, WorkerRuns DEF CommandAt
<1>2. c \in Call /\ c.txn = x /\ c.key = k /\ c.mode = m
  BY <1>1, TableKey DEF Call, LockMode, ModeOf
<1>3. LockTypes' /\ WaiterAccounting'
  <2> HIDE DEF c
  <2>1. AnyStep
    BY <1>0, <1>2 DEF AnyStep
  <2>2. QED BY <2>1, AnyStepTypes
<1> HIDE DEF c, k, m
<1>4. CASE grantableUnlocked(x, k, m)
  <2>1. grantUnlocked(x, k, m) /\ UNCHANGED <<waiters, lockPc, call>> /\ Goto(t, "run")
    BY <1>0, <1>2, <1>4 DEF RequestLock
  <2>2. ~Blocked(t)' /\ \A u \in Thread \ {t} : (Blocked(u)' <=> Blocked(u)) /\ call'[u] = call[u]
    BY <1>1, <2>1 DEF Blocked
  <2>3. QED BY <1>x, <1>0, <1>1, <1>3, <1>4, <2>1, <2>2, GrantedCommand DEF k, m
<1>5. CASE ~grantableUnlocked(x, k, m)
  <2>1. /\ lockPc' = [lockPc EXCEPT ![t] = "waiting"] /\ call' = [call EXCEPT ![t] = c]
        /\ UNCHANGED held /\ Goto(t, "blocked")
    BY <1>0, <1>2, <1>5 DEF RequestLock
  <2>2. /\ Blocked(t)' /\ call'[t] = c
        /\ \A u \in Thread \ {t} : (Blocked(u)' <=> Blocked(u)) /\ call'[u] = call[u]
    BY <1>1, <2>1 DEF Blocked, LockTypes
  <2>3. /\ call'[t].txn = sess[t].txn
        /\ call'[t].key = <<sess[t].table, NoRow>>
        /\ call'[t].mode = ModeOf(sess[t].op)
    BY <1>x, <1>2, <2>2 DEF k, m
  <2>4. QED BY <1>0, <1>1, <1>3, <2>1, <2>2, <2>3, DeniedCommand
<1>6. QED BY <1>4, <1>5

\* What is known of a command that is blocked.
LEMMA BlockedCommand ==
    ASSUME SessionInv, NEW t \in Thread, sess[t].at = "blocked"
    PROVE  /\ Blocked(t) /\ sess[t].txn \in Txn
           /\ call[t].txn = sess[t].txn /\ call[t].key = <<sess[t].table, NoRow>>
           /\ call[t].mode = ModeOf(sess[t].op) /\ call[t] # NoCall /\ LockTypes
<1>1. LockTypes /\ Waits(t) /\ sess[t].txn \in Txn
  BY WorkerRuns DEF CommandAt
<1>2. QED BY <1>1 DEF Waits, LockTypes

LEMMA WaitForLockKeeps == ASSUME SessionInv, NEW t \in Thread, WaitForLock(t) PROVE SessionInv'
<1>0. sess[t].at = "blocked" /\ UNCHANGED storageVars /\ UNCHANGED txnVars
      /\ UNCHANGED <<states, next_id, commit_seq>> /\ Recheck(t)
      /\ (IF call'[t] = NoCall THEN Goto(t, "run") ELSE UNCHANGED sess)
  BY DEF WaitForLock, txnVars
<1>1. /\ Blocked(t) /\ sess[t].txn \in Txn
      /\ call[t].txn = sess[t].txn /\ call[t].key = <<sess[t].table, NoRow>>
      /\ call[t].mode = ModeOf(sess[t].op) /\ call[t] # NoCall /\ LockTypes
  BY <1>0, BlockedCommand
<1>2. LockTypes' /\ WaiterAccounting'
  <2>1. AnyStep
    BY <1>0 DEF AnyStep
  <2>2. QED BY <2>1, AnyStepTypes
<1> DEFINE g == grantableUnlocked(call[t].txn, call[t].key, call[t].mode)
<1>3. CASE ~g
  <2>1. /\ lockPc' = [lockPc EXCEPT ![t] = "waiting"] /\ UNCHANGED held /\ UNCHANGED call
        /\ lockPc[t] = "woken"
    BY <1>0, <1>3 DEF Recheck
  <2>2. \A u \in Thread : Blocked(u)' <=> Blocked(u)
    BY <1>1, <2>1 DEF Blocked, LockTypes
  <2>3. UNCHANGED sess
    BY <1>0, <1>1, <2>1
  <2>4. QED BY <1>0, <1>2, <2>1, <2>2, <2>3, NothingMoves
<1>4. CASE g
  <2>1. grantUnlocked(call[t].txn, call[t].key, call[t].mode) /\ Return(t)
    BY <1>0, <1>4 DEF Recheck
  <2>2. /\ ~Blocked(t)' /\ call'[t] = NoCall
        /\ \A u \in Thread \ {t} : (Blocked(u)' <=> Blocked(u)) /\ call'[u] = call[u]
    BY <1>1, <2>1 DEF Return, Blocked, LockTypes
  <2>3. Goto(t, "run")
    BY <1>0, <2>2
  <2>4. /\ grantableUnlocked(sess[t].txn, <<sess[t].table, NoRow>>, ModeOf(sess[t].op))
        /\ grantUnlocked(sess[t].txn, <<sess[t].table, NoRow>>, ModeOf(sess[t].op))
    BY <1>1, <1>4, <2>1
  <2>5. QED BY <1>0, <1>1, <1>2, <2>2, <2>3, <2>4, GrantedCommand
<1>5. QED BY <1>3, <1>4

LEMMA LockTimesOutKeeps == ASSUME SessionInv, NEW t \in Thread, LockTimesOut(t) PROVE SessionInv'
<1>0. sess[t].at = "blocked" /\ TimeOut(t) /\ Goto(t, "timedOut") /\ UNCHANGED storageVars
      /\ UNCHANGED <<states, next_id, commit_seq>>
  BY DEF LockTimesOut, txnVars
<1>1. LockTypes
  BY WorkerRuns
<1>2. LockTypes' /\ WaiterAccounting'
  <2>1. AnyStep
    BY <1>0 DEF AnyStep
  <2>2. QED BY <2>1, AnyStepTypes
<1>3. UNCHANGED held /\ Return(t)
  BY <1>0 DEF TimeOut
<1>4. /\ ~Blocked(t)'
      /\ \A u \in Thread \ {t} : (Blocked(u)' <=> Blocked(u)) /\ call'[u] = call[u]
  BY <1>1, <1>3 DEF Return, Blocked, LockTypes
<1>5. QED BY <1>0, <1>2, <1>3, <1>4, DeniedCommand

LEMMA NotifyKeeps == ASSUME SessionInv, NEW t \in Thread, Notify(t) PROVE SessionInv'
<1>1. NotifyAll(t) /\ UNCHANGED storageVars /\ UNCHANGED txnVars /\ UNCHANGED sess
  BY DEF Notify
<1>2. AnyStep /\ LockTypes
  BY <1>1, WorkerRuns DEF AnyStep
<1>3. UNCHANGED held /\ UNCHANGED call /\ \A u \in Thread : Blocked(u)' <=> Blocked(u)
  BY <1>1, <1>2 DEF NotifyAll, Blocked, LockTypes
<1>4. QED BY <1>1, <1>2, <1>3, AnyStepTypes, NothingMoves

-----------------------------------------------------------------------------
(* The theorems.                                                           *)

LEMMA SessionInit == Init => SessionInv
<1> SUFFICES ASSUME Init PROVE SessionInv
  OBVIOUS
<1>1. /\ LockInit /\ sess = [t \in Thread |-> NewSession]
      /\ tables = [tb \in Table |-> [k \in Key |-> <<>>]]
      /\ auto_id = [tb \in Table |-> 0] /\ visible_seq = 0
      /\ states = [x \in Txn |-> "NotFound"] /\ next_id = 0 /\ commit_seq = 0
  BY DEF Init, StorageInit, TxnInit
<1>2. LockTypes /\ WaiterAccounting
  <2>1. LockTypes
    BY <1>1, NoCallAssumption DEF LockInit, LockTypes, NoLock, Lock, LockMode, PC, Blocked
  <2>2. ASSUME NEW k \in ResourceKey, NEW x \in Txn
        PROVE  waiters[k][x] = Cardinality(BlockedOn(k, x))
    <3>1. BlockedOn(k, x) = {}
      BY <1>1 DEF LockInit, BlockedOn, Blocked
    <3>2. QED BY <1>1, <3>1, FS_EmptySet DEF LockInit
  <2>3. QED BY <2>1, <2>2 DEF WaiterAccounting
<1>3. StorageTypeOK
  <2>1. <<>> \in Seq(Version) /\ 0 \in 0..MaxKey
    BY KeyAssumption
  <2>2. QED BY <1>1, <2>1 DEF StorageTypeOK
<1>4. NewSession \in SessionRec /\ NewSession.at = "next"
  BY DEF NewSession, SessionRec, SessionAt
<1>5. TxnTypes /\ SessionTypes
  BY <1>1, <1>4, TxnAssumption DEF TxnTypes, TxnState, SessionTypes
<1>6. \A tb \in Table : VersionsOf(tb) = {}
  <2> SUFFICES ASSUME NEW tb \in Table, NEW v \in VersionsOf(tb)
               PROVE  FALSE
    OBVIOUS
  <2>1. PICK k \in Key : \E i \in DOMAIN tables[tb][k] : v = tables[tb][k][i]
    BY VersionAt
  <2>2. tables[tb][k] = <<>>
    BY <1>1
  <2>3. QED BY <2>1, <2>2
<1>7. \A t \in Thread : Names(t) /\ Stands(t) /\ Owns(t) /\ Waits(t)
  BY <1>1, <1>4 DEF Names, Stands, Owns, Waits, Busy, CommandAt, InTxnAt, LockInit, Blocked
<1>8. \A y \in Txn : Locked(y) /\ Written(y)
  BY <1>1, <1>6 DEF Locked, Written, StagedIn, HoldsLock, LockInit, NoLock
<1>9. QED BY <1>2, <1>3, <1>5, <1>7, <1>8 DEF SessionInv, Types

LEMMA SessionStep == SessionInv /\ [Next]_vars => SessionInv'
<1> SUFFICES ASSUME SessionInv, Next \/ UNCHANGED vars PROVE SessionInv'
  OBVIOUS
<1>1. CASE UNCHANGED vars
  BY <1>1, NothingMoves, LocksSameTypes DEF vars, lockVars, Blocked
<1>2. ASSUME NEW t \in Thread, Work(t) PROVE SessionInv'
  BY <1>2, DetectCycleKeeps, LockTableKeeps, AbortTxnKeeps, SelectKeeps, InsertKeeps,
     CollectRowsKeeps, WriteRowKeeps, CommitTxnKeeps, ReadSeqKeeps, StampEngineKeeps,
     ReleaseKeeps, GuardAbortKeeps, GuardReleaseKeeps, NotifyKeeps
     DEF Work
<1>3. ASSUME NEW t \in Thread, NEW c \in Commands[t], NextCommand(t, c[1], c[2], c[3])
      PROVE  SessionInv'
  <2>1. c[1] \in CommandType /\ c[2] \in Table /\ c[3] \in ClientTxn \cup {0}
    BY CommandsAssumption
  <2>2. QED BY <1>3, <2>1, NextCommandKeeps
<1>4. CASE Next
  BY <1>2, <1>3, <1>4, EndSessionKeeps, WaitForLockKeeps, LockTimesOutKeeps DEF Next
<1>5. QED BY <1>1, <1>4

LEMMA SessionInvariant == Spec => []SessionInv
BY SessionInit, SessionStep, PTL DEF Spec

LEMMA StagedByTable == \A y, tb : HasStaged(y, tb) <=> StagedIn(y, tb)
BY DEF HasStaged, StagedIn, VersionsOf

\* Whatever holds a lock or has uncommitted writes is in a running command or in
\* openTxns of a session that is not over, however sessions share ids, time out and
\* deadlock (LeakGuard).
THEOREM LeakGuardHolds == Spec => []LeakGuard
<1>1. ASSUME SessionInv PROVE LeakGuard
  <2>1. ASSUME NEW y \in Txn, HoldsLock(y) \/ \E tb \in Table : HasStaged(y, tb)
        PROVE  \E t \in Thread : y = sess[t].txn \/ y \in Range(sess[t].open)
    <3>1. CASE HoldsLock(y)
      <4>1. PICK t \in Thread : WillRelease(t, y)
        BY <1>1, <3>1 DEF SessionInv, Locked
      <4>2. QED BY <4>1 DEF WillRelease, Range
    <3>2. CASE \E tb \in Table : HasStaged(y, tb)
      <4>1. PICK tb \in Table : StagedIn(y, tb)
        BY <3>2, StagedByTable
      <4>2. PICK t \in Thread : WillEnd(t, y, tb)
        BY <1>1, <4>1 DEF SessionInv, Written
      <4>3. QED BY <4>2 DEF WillEnd, Range
    <3>3. QED BY <2>1, <3>1, <3>2
  <2>2. QED BY <2>1 DEF LeakGuard
<1>2. QED BY <1>1, SessionInvariant, PTL

\* The uncommitted versions of an auto-commit are in the one table it has to
\* itself, until they are stamped (AutoWritesUnderLock).
THEOREM AutoWritesUnderLockHolds == Spec => []AutoWritesUnderLock
<1>1. ASSUME SessionInv PROVE AutoWritesUnderLock
  <2>1. ASSUME NEW y \in Txn \ ClientTxn, NEW tb \in Table, HasStaged(y, tb)
        PROVE  held[<<tb, NoRow>>] = [mode |-> "Exclusive", holders |-> {y}]
    <3>1. PICK t \in Thread : WillEnd(t, y, tb)
      BY <1>1, <2>1, StagedByTable DEF SessionInv, Written
    <3>2. /\ Names(t) /\ Owns(t) /\ sess[t].open \in Seq(ClientTxn) /\ sess[t].auto \in BOOLEAN
      BY <1>1, WorkerRuns, SessionFields
    <3>3. \A i \in DOMAIN sess[t].open : sess[t].open[i] # y
      BY <3>2
    <3>4. /\ sess[t].at \in InTxnAt /\ sess[t].txn = y
          /\ sess[t].auto => sess[t].table = tb /\ sess[t].op # "select"
      BY <3>1, <3>3 DEF WillEnd
    <3>5. sess[t].auto
      BY <3>2, <3>4 DEF Names, Busy, CommandAt, InTxnAt
    <3>6. QED BY <3>2, <3>4, <3>5 DEF Owns, Sole
  <2>2. QED BY <2>1 DEF AutoWritesUnderLock
<1>2. QED BY <1>1, SessionInvariant, PTL

\* The waiter records stay exact for this caller too (WaiterAccounting).
THEOREM SessionWaiterAccounting == Spec => []WaiterAccounting
<1>1. SessionInv => WaiterAccounting
  BY DEF SessionInv, Types
<1>2. QED BY <1>1, SessionInvariant, PTL

\* Only the walker of a step moves its walk.
LEMMA WalkMoves ==
    ASSUME NEW t, DetectCycle(t), WalkTypes
    PROVE  \E w : walk' = [walk EXCEPT ![t] = w]
<1>1. walk = [walk EXCEPT ![t] = walk[t]]
  BY DEF WalkTypes
<1>2. CASE UNCHANGED walk
  BY <1>1, <1>2
<1>3. QED BY <1>2 DEF DetectCycle, NotWaiting, ChainEnds, CycleClosed, BeginWalk, ReadHolders, VisitHolder

LEMMA OnlyWalkersWalk == [Next]_vars => UNCHANGED walk \/ \E t \in Thread : DetectCycle(t)
<1> SUFFICES ASSUME Next PROVE UNCHANGED walk \/ \E t \in Thread : DetectCycle(t)
  BY DEF vars, detectorVars
<1>1. ASSUME NEW t \in Thread, Work(t) PROVE DetectCycle(t) \/ UNCHANGED walk
  <2>1. CASE LockTable(t) \/ AbortTxn(t) \/ Select(t) \/ Insert(t)
    BY <2>1 DEF LockTable, AbortTxn, Select, Insert, detectorVars
  <2>2. CASE CollectRows(t) \/ WriteRow(t) \/ CommitTxn(t) \/ ReadSeq(t) \/ StampEngine(t)
    BY <2>2 DEF CollectRows, WriteRow, CommitTxn, ReadSeq, StampEngine, detectorVars
  <2>3. CASE Release(t) \/ GuardAbort(t) \/ GuardRelease(t) \/ Notify(t)
    BY <2>3 DEF Release, GuardAbort, GuardRelease, Notify, detectorVars
  <2>4. QED BY <1>1, <2>1, <2>2, <2>3 DEF Work
<1>2. ASSUME NEW t \in Thread, EndSession(t) \/ WaitForLock(t) \/ LockTimesOut(t)
      PROVE  UNCHANGED walk
  BY <1>2 DEF EndSession, WaitForLock, LockTimesOut, detectorVars
<1>3. ASSUME NEW t \in Thread, NEW c \in Commands[t], NextCommand(t, c[1], c[2], c[3])
      PROVE  UNCHANGED walk
  BY <1>3 DEF NextCommand, detectorVars
<1>4. QED BY <1>1, <1>2, <1>3 DEF Next

LEMMA WalkTypesInvariant == Spec => []WalkTypes
<1>1. Init => WalkTypes
  BY DEF Init, DetectorInit, WalkTypes
<1>2. WalkTypes /\ [Next]_vars => WalkTypes'
  <2> SUFFICES ASSUME WalkTypes, [Next]_vars PROVE WalkTypes'
    OBVIOUS
  <2>1. CASE UNCHANGED walk
    BY <2>1 DEF WalkTypes
  <2>2. ASSUME NEW t \in Thread, DetectCycle(t) PROVE WalkTypes'
    BY <2>2, WalkMoves DEF WalkTypes
  <2>3. QED BY <2>1, <2>2, OnlyWalkersWalk
<1>3. QED BY <1>1, <1>2, PTL DEF Spec

\* The pre-check comes before its command waits, so a walk begins only for an id
\* that another session waits with at that moment: a session that uses ids of its
\* own is never found to be in a deadlock (PreCheckNeedsSecondRequest).
THEOREM PreCheckNeedsSecondRequestHolds == Spec => PreCheckNeedsSecondRequest
<1> DEFINE A == \A t \in Thread :
                   walk[t] = NoWalk /\ walk'[t] # NoWalk =>
                      \E u \in Thread \ {t} : sess[u].at = "blocked" /\ sess[u].txn = sess[t].txn
<1>1. SessionInv /\ WalkTypes /\ [Next]_vars => A
  <2> SUFFICES ASSUME SessionInv, WalkTypes, [Next]_vars, NEW t \in Thread,
                      walk[t] = NoWalk, walk'[t] # NoWalk
               PROVE  \E u \in Thread \ {t} : sess[u].at = "blocked" /\ sess[u].txn = sess[t].txn
    OBVIOUS
  <2>1. PICK s \in Thread : DetectCycle(s)
    BY OnlyWalkersWalk
  <2>2. s = t
    BY <2>1, WalkMoves DEF WalkTypes
  <2>3. walk[t].at = "none" /\ At(t, "check")
    BY <2>1, <2>2 DEF NoWalk, DetectCycle
  <2>4. BeginWalk(t, sess[t].txn)
    BY <2>1, <2>2, <2>3 DEF DetectCycle, NotWaiting, ChainEnds, CycleClosed, ReadHolders, VisitHolder
  <2>x. PICK x \in Txn : x = sess[t].txn
    BY <2>3, WorkerRuns DEF CommandAt
  <2>5. PICK k \in ResourceKey : waiters[k][x] > 0
    BY <2>x, <2>4 DEF BeginWalk, WaitTables
  <2>6. BlockedOn(k, x) # {}
    BY <2>5, FS_EmptySet DEF SessionInv, Types, WaiterAccounting
  <2>7. PICK u \in Thread : Blocked(u) /\ call[u].txn = x
    BY <2>6 DEF BlockedOn
  <2>8. sess[u].at = "blocked" /\ sess[u].txn = x
    BY <2>7, WorkerRuns DEF Waits
  <2>9. QED BY <2>x, <2>3, <2>8 DEF At
<1>2. QED BY <1>1, SessionInvariant, WalkTypesInvariant, PTL DEF Spec, PreCheckNeedsSecondRequest
=============================================================================
