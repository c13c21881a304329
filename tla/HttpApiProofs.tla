---------------------------- MODULE HttpApiProofs ----------------------------
(***************************************************************************)
(* What holds of the HTTP front-end with its transactions, locks and       *)
(* versions, for any number of I/O threads, transactions, tables and keys. *)
(* The inductive invariant, ApiInv, ties each request to the state of its  *)
(* transaction:                                                            *)
(*                                                                         *)
(*    Names(t)   whose transaction the request of t works for: one of a    *)
(*               client, or, of an auto-commit statement, its own          *)
(*    Stands(t)  how far the transaction is at each step of the handler    *)
(*    Owns(t)    what locks and staged versions it has at that step        *)
(*    Waits(t)   a blocked request is blocked in the lock manager, for     *)
(*               its table and in its mode                                 *)
(*    Stamps, Covers, Leaves     the properties, for all transactions      *)
(*                                                                         *)
(* Every step works for one transaction x.  The lemma Frame says what a    *)
(* step may do to be harmless to the requests of the others; what is left  *)
(* to show of an action is then about x and the thread that runs it.       *)
(***************************************************************************)
EXTENDS HttpApi, LockManagerProofs, InMemoryStorageProofs

-----------------------------------------------------------------------------
(* The invariant.                                                          *)

JobAt == {"check", "lock", "blocked", "run", "write", "autoRelease", "autoCommit",
          "seq", "stamp", "abortTxn", "release"}
JobRec == [op : Statement \cup {"commit", "rollback"}, at : JobAt, txn : Txn,
           auto : BOOLEAN, table : Table \cup {"none"}, todo : SUBSET Key,
           failed : BOOLEAN, seq : Nat]

TxnTypes ==
    /\ states \in [Txn -> TxnState]
    /\ next_id \in 0..MaxTxn
    /\ commit_seq \in Nat
    /\ issued \in SUBSET (1..next_id)

JobTypes == job \in [Thread -> {Idle} \cup JobRec]

\* What a transaction holds of a table, and the writes it has staged there.
Holds(x, tb) == x \in held[<<tb, NoRow>>].holders
HoldsX(x, tb) == Holds(x, tb) /\ held[<<tb, NoRow>>].mode = "Exclusive"
StagedIn(x, tb) == \E v \in VersionsOf(tb) : Staged(x, v)

ModeOf(op) == IF op = "select" THEN "Shared" ELSE "Exclusive"

Busy(t) == job[t] # Idle

Names(t) ==
    Busy(t) =>
        /\ job[t].txn \in 1..next_id
        /\ ~job[t].auto => job[t].txn \in issued
        /\ job[t].auto => job[t].txn \notin issued /\ job[t].op \in Statement
        /\ job[t].auto => \A u \in Thread : u # t /\ Busy(u) => job[u].txn # job[t].txn

StatementAt == {"check", "lock", "blocked", "run", "write", "autoRelease", "autoCommit"}

Stands(t) ==
    Busy(t) =>
        /\ job[t].at \in StatementAt => job[t].op \in Statement /\ job[t].table \in Table
        /\ job[t].at \in StatementAt /\ job[t].auto => states[job[t].txn] = "Active"
        /\ job[t].at \in {"autoRelease", "autoCommit"} => job[t].auto
        /\ job[t].at = "write" => job[t].op \in {"update", "delete"}
        /\ job[t].at \in {"seq", "stamp"} =>
              /\ states[job[t].txn] = "Committed" /\ commit_seq > 0
              /\ job[t].op = "commit" \/ job[t].auto
        /\ job[t].at = "stamp" => job[t].seq \in 1..commit_seq
        /\ job[t].at = "release" => states[job[t].txn] # "Active"
        /\ job[t].failed => job[t].at = "autoRelease"

Owns(t) ==
    Busy(t) =>
        /\ job[t].at \in {"run", "write"} /\ states[job[t].txn] = "Active" =>
              /\ Holds(job[t].txn, job[t].table)
              /\ job[t].op # "select" => HoldsX(job[t].txn, job[t].table)
        /\ job[t].auto /\ job[t].at \in {"autoCommit", "seq", "stamp"} => ~HoldsLock(job[t].txn)
        /\ job[t].auto /\ (\/ job[t].at \in {"check", "lock", "blocked", "run", "abortTxn", "release"}
                           \/ job[t].failed)
              => \A tb \in Table : ~StagedIn(job[t].txn, tb)

Waits(t) ==
    /\ (job[t].at = "blocked") <=> Blocked(t)
    /\ Blocked(t) => /\ call[t].txn = job[t].txn
                     /\ call[t].key = <<job[t].table, NoRow>>
                     /\ call[t].mode = ModeOf(job[t].op)

\* Every version is of a transaction that was begun; one that others see is of a
\* Committed one and within the sequences.
Stamps ==
    /\ \A tb \in Table : \A v \in VersionsOf(tb) :
          /\ v.txn \in 1..next_id
          /\ v.seq > 0 => states[v.txn] = "Committed"
          /\ v.seq <= visible_seq
    /\ visible_seq <= commit_seq

Covers(x) == x \in issued /\ states[x] = "Active" =>
                 \A tb \in Table : StagedIn(x, tb) => HoldsX(x, tb)

Leaves(x) == x \notin issued /\ ~InFlight(x) =>
                 ~HoldsLock(x) /\ \A tb \in Table : ~StagedIn(x, tb)

Types == LockTypes /\ WaiterAccounting /\ StorageTypeOK /\ TxnTypes /\ JobTypes

ApiInv ==
    /\ Types
    /\ \A t \in Thread : Names(t) /\ Stands(t) /\ Owns(t) /\ Waits(t)
    /\ Stamps
    /\ \A x \in Txn : Covers(x) /\ Leaves(x)

-----------------------------------------------------------------------------
(* What the calls into the components do, in these terms.                  *)

LEMMA TxnIds ==
    ASSUME TxnTypes
    PROVE  /\ 1..next_id \subseteq Txn /\ issued \subseteq Txn
           /\ next_id \in Nat
           /\ next_id < MaxTxn => NewTxn \in Txn /\ NewTxn \notin 1..next_id
BY TxnAssumption DEF TxnTypes, NewTxn

LEMMA TableKey ==
    ASSUME NEW tb \in Table
    PROVE  <<tb, NoRow>> \in ResourceKey
BY DEF ResourceKey

\* A request that is being run has all its fields; a thread that has none is at
\* "idle".
LEMMA JobFields ==
    ASSUME JobTypes, NEW t \in Thread
    PROVE  /\ Busy(t) <=> job[t].at # "idle"
           /\ Busy(t) => /\ job[t] \in JobRec /\ job[t].at \in JobAt
                         /\ job[t].txn \in Txn /\ job[t].auto \in BOOLEAN
                         /\ job[t].failed \in BOOLEAN /\ job[t].seq \in Nat
                         /\ job[t].todo \in SUBSET Key
BY DEF JobTypes, Busy, JobRec, JobAt, Idle

\* A grant to x takes nothing from anybody, and gives only x something.
LEMMA GrantEffect ==
    ASSUME LockTypes, NEW x \in Txn, NEW tb \in Table, NEW m \in LockMode,
           grantableUnlocked(x, <<tb, NoRow>>, m), grantUnlocked(x, <<tb, NoRow>>, m)
    PROVE  /\ \A y \in Txn, c \in Table : /\ Holds(y, c) => Holds(y, c)'
                                          /\ HoldsX(y, c) => HoldsX(y, c)'
           /\ \A y \in Txn : HoldsLock(y)' => HoldsLock(y) \/ y = x
           /\ Holds(x, tb)'
           /\ m = "Exclusive" => HoldsX(x, tb)'
<1> DEFINE k == <<tb, NoRow>>
<1>1. k \in ResourceKey
  BY TableKey
<1>2. \A l \in ResourceKey : held'[l] = IF l = k THEN GrantedLock(x, k, m) ELSE held[l]
  BY <1>1 DEF grantUnlocked, LockTypes
<1>3. held[k] \in Lock
  BY <1>1 DEF LockTypes
<1>g. grantableUnlocked(x, k, m)
  OBVIOUS
<1> HIDE DEF k
<1>4. /\ x \in GrantedLock(x, k, m).holders
      /\ m = "Exclusive" => GrantedLock(x, k, m).mode = "Exclusive"
      /\ \A y \in held[k].holders :
            /\ y \in GrantedLock(x, k, m).holders
            /\ held[k].mode = "Exclusive" => GrantedLock(x, k, m).mode = "Exclusive"
      /\ GrantedLock(x, k, m).holders \subseteq held[k].holders \cup {x}
  BY <1>3, <1>g DEF GrantedLock, grantableUnlocked, Lock, LockMode
<1>5. ASSUME NEW y \in Txn, NEW c \in Table
      PROVE  (Holds(y, c) => Holds(y, c)') /\ (HoldsX(y, c) => HoldsX(y, c)')
  <2>1. <<c, NoRow>> \in ResourceKey
    BY TableKey
  <2>2. QED BY <1>2, <1>4, <2>1 DEF Holds, HoldsX
<1>6. ASSUME NEW y \in Txn, HoldsLock(y)'
      PROVE  HoldsLock(y) \/ y = x
  BY <1>2, <1>4, <1>6, <1>1 DEF HoldsLock
<1>7. Holds(x, tb)' /\ (m = "Exclusive" => HoldsX(x, tb)')
  BY <1>1, <1>2, <1>4 DEF Holds, HoldsX, k
<1>8. QED BY <1>5, <1>6, <1>7

\* A release by x takes everything from x and nothing from anybody else.
LEMMA ReleaseEffect ==
    ASSUME LockTypes, NEW t, NEW x \in Txn, release(t, x)
    PROVE  /\ \A y \in Txn \ {x}, c \in Table : /\ Holds(y, c) => Holds(y, c)'
                                                /\ HoldsX(y, c) => HoldsX(y, c)'
           /\ \A y \in Txn : HoldsLock(y)' => HoldsLock(y)
           /\ ~HoldsLock(x)'
<1>1. \A l \in ResourceKey :
         held'[l] = IF x \notin held[l].holders THEN held[l]
                    ELSE IF held[l].holders = {x} THEN NoLock
                    ELSE [held[l] EXCEPT !.holders = @ \ {x}]
  BY DEF release, Drop, Dropped
<1>2. ASSUME NEW l \in ResourceKey
      PROVE  /\ held'[l].holders = held[l].holders \ {x}
             /\ \A y \in held[l].holders \ {x} : held'[l].mode = held[l].mode
  <2>1. held[l] \in Lock
    BY DEF LockTypes
  <2>2. CASE x \notin held[l].holders
    BY <1>1, <2>2
  <2>3. CASE held[l].holders = {x}
    <3>1. held'[l] = NoLock
      BY <1>1, <2>3
    <3>2. QED BY <2>3, <3>1 DEF NoLock
  <2>4. CASE x \in held[l].holders /\ held[l].holders # {x}
    <3>1. held'[l] = [held[l] EXCEPT !.holders = @ \ {x}]
      BY <1>1, <2>4
    <3>2. QED BY <2>1, <3>1 DEF Lock
  <2>5. QED BY <2>2, <2>3, <2>4
<1>3. ASSUME NEW y \in Txn \ {x}, NEW c \in Table
      PROVE  (Holds(y, c) => Holds(y, c)') /\ (HoldsX(y, c) => HoldsX(y, c)')
  <2>1. <<c, NoRow>> \in ResourceKey
    BY TableKey
  <2>2. QED BY <1>2, <2>1 DEF Holds, HoldsX
<1>4. QED BY <1>2, <1>3 DEF HoldsLock

\* As long as held_ is the same, so is what everybody holds.
LEMMA HeldSame ==
    ASSUME UNCHANGED held
    PROVE  /\ \A y \in Txn, c \in Table : /\ Holds(y, c) => Holds(y, c)'
                                          /\ HoldsX(y, c) => HoldsX(y, c)'
           /\ \A y \in Txn : HoldsLock(y)' => HoldsLock(y)
BY DEF Holds, HoldsX, HoldsLock

LEMMA TablesSame ==
    ASSUME UNCHANGED tables
    PROVE  /\ \A y \in Txn, c \in Table : StagedIn(y, c)' => StagedIn(y, c)
           /\ \A c \in Table : VersionsOf(c)' = VersionsOf(c)
BY DEF StagedIn, VersionsOf

-----------------------------------------------------------------------------
(* The others.                                                             *)

\* A step for x changes the state of no other transaction, and that of x only to
\* close it;
StatesKept(x) ==
    /\ \A y \in Txn \ {x} : states'[y] = states[y]
    /\ x \in 1..next_id => \/ states'[x] = states[x]
                           \/ states[x] = "Active" /\ states'[x] # "Active"

\* takes no lock from another one, nor from x while a client may go on with it,
\* and gives none to another one;
LocksKept(x) ==
    /\ \A y \in Txn, c \in Table :
          y # x \/ (y \in issued /\ states'[y] = "Active") =>
              /\ Holds(y, c) => Holds(y, c)'
              /\ HoldsX(y, c) => HoldsX(y, c)'
    /\ \A y \in Txn \ {x} : HoldsLock(y)' => HoldsLock(y)

\* and stages nothing for another one.
StagedKept(x) == \A y \in Txn \ {x}, c \in Table : StagedIn(y, c)' => StagedIn(y, c)

\* The request of t works for x, and only it moves.
OnlyMoves(t, x) ==
    /\ \A u \in Thread \ {t} : /\ job'[u] = job[u] /\ call'[u] = call[u]
                               /\ Blocked(u)' <=> Blocked(u)
    /\ Busy(t) => job[t].txn = x
    /\ Busy(t)' => job'[t].txn = x
    /\ Busy(t) \/ x \in issued \/ x \notin 1..next_id
    /\ issued' = issued \/ (x \notin 1..next_id /\ issued' = issued \cup {x})
    /\ next_id' >= next_id /\ commit_seq' >= commit_seq

\* Such a step leaves the requests of the other threads, and the other
\* transactions, as the invariant wants them.
LEMMA Frame ==
    ASSUME ApiInv, Types', NEW t \in Thread, NEW x \in Txn,
           StatesKept(x), LocksKept(x), StagedKept(x), OnlyMoves(t, x)
    PROVE  /\ \A u \in Thread \ {t} : Names(u)' /\ Stands(u)' /\ Owns(u)' /\ Waits(u)'
           /\ \A y \in Txn \ {x} : Covers(y)' /\ Leaves(y)'
<1>t. TxnTypes /\ JobTypes /\ TxnTypes' /\ JobTypes'
  BY DEF ApiInv, Types
<1>n. next_id \in Nat /\ next_id' \in Nat /\ commit_seq \in Nat /\ commit_seq' \in Nat
  BY <1>t, TxnAssumption DEF TxnTypes
<1>l. 1..next_id \subseteq 1..next_id' /\ 1..commit_seq \subseteq 1..commit_seq'
  BY <1>n DEF OnlyMoves
<1>1. ASSUME NEW u \in Thread \ {t}, Busy(u)
      PROVE  /\ job'[u] = job[u]
             /\ job[u].txn \in 1..next_id /\ job[u].txn \in Txn
             /\ job[u].auto => job[u].txn # x
  <2>1. job'[u] = job[u] /\ job[u].txn \in 1..next_id /\ job[u].txn \in Txn
    BY <1>1, <1>t, TxnIds DEF OnlyMoves, ApiInv, Names
  <2>2. ASSUME job[u].auto PROVE job[u].txn # x
    <3>1. Names(u)
      BY DEF ApiInv
    <3>2. CASE Busy(t)
      BY <1>1, <2>2, <3>1, <3>2 DEF OnlyMoves, Names
    <3>3. CASE ~Busy(t)
      BY <1>1, <2>1, <2>2, <3>1, <3>3 DEF OnlyMoves, Names
    <3>4. QED BY <3>2, <3>3
  <2>3. QED BY <2>1, <2>2
<1>2. ASSUME NEW u \in Thread \ {t}
      PROVE  Busy(u)' <=> Busy(u)
  BY DEF OnlyMoves, Busy
<1>3. ASSUME NEW u \in Thread \ {t}
      PROVE  Names(u)'
  <2> SUFFICES ASSUME Busy(u)
               PROVE  Names(u)'
    BY <1>2 DEF Names
  <2>1. /\ job[u].txn \in 1..next_id'
        /\ ~job[u].auto => job[u].txn \in issued'
        /\ job[u].auto => job[u].txn \notin issued' /\ job[u].op \in Statement
    BY <1>1, <1>l DEF ApiInv, Names, OnlyMoves
  <2>2. ASSUME job[u].auto, NEW w \in Thread, w # u, Busy(w)'
        PROVE  job'[w].txn # job[u].txn
    <3>1. CASE w = t
      BY <1>1, <2>2, <3>1 DEF OnlyMoves
    <3>2. CASE w # t
      BY <1>2, <2>2, <3>2 DEF OnlyMoves, ApiInv, Names
    <3>3. QED BY <3>1, <3>2
  <2>3. QED BY <1>1, <2>1, <2>2 DEF Names
<1>s. ASSUME NEW u \in Thread \ {t}, Busy(u)
      PROVE  /\ \/ states'[job[u].txn] = states[job[u].txn]
                \/ states[job[u].txn] = "Active" /\ states'[job[u].txn] # "Active"
             /\ job[u].auto => states'[job[u].txn] = states[job[u].txn]
  BY <1>1, <1>s DEF StatesKept
<1>4. ASSUME NEW u \in Thread \ {t}
      PROVE  Stands(u)'
  <2> SUFFICES ASSUME Busy(u)
               PROVE  Stands(u)'
    BY <1>2 DEF Stands
  <2>1. Stands(u) /\ job'[u] = job[u]
    BY <1>1 DEF ApiInv
  <2>2. commit_seq > 0 => commit_seq' > 0
    BY <1>n DEF OnlyMoves
  <2>3. QED BY <1>l, <1>s, <2>1, <2>2 DEF Stands
<1>5. ASSUME NEW u \in Thread \ {t}
      PROVE  Owns(u)'
  <2> SUFFICES ASSUME Busy(u)
               PROVE  Owns(u)'
    BY <1>2 DEF Owns
  <2>1. Owns(u) /\ job'[u] = job[u] /\ Names(u) /\ Stands(u)
    BY <1>1 DEF ApiInv
  <2>2. ASSUME job[u].at \in {"run", "write"}, states'[job[u].txn] = "Active"
        PROVE  /\ Holds(job[u].txn, job[u].table)'
               /\ job[u].op # "select" => HoldsX(job[u].txn, job[u].table)'
    <3>1. states[job[u].txn] = "Active"
      BY <1>s, <2>2
    <3>2. job[u].table \in Table
      BY <2>1, <2>2 DEF Stands, StatementAt
    <3>3. job[u].txn # x \/ (job[u].txn \in issued /\ states'[job[u].txn] = "Active")
      BY <1>1, <2>1, <2>2 DEF Names
    <3>4. /\ Holds(job[u].txn, job[u].table) => Holds(job[u].txn, job[u].table)'
          /\ HoldsX(job[u].txn, job[u].table) => HoldsX(job[u].txn, job[u].table)'
      <4>1. job[u].txn \in Txn
        BY <1>1
      <4>2. ASSUME NEW y \in Txn, NEW c \in Table, y # x \/ (y \in issued /\ states'[y] = "Active")
            PROVE  /\ Holds(y, c) => Holds(y, c)'
                   /\ HoldsX(y, c) => HoldsX(y, c)'
        BY <4>2 DEF LocksKept
      <4>3. QED BY <2>1, <3>2, <3>3, <4>1, <4>2 DEF Holds, HoldsX
    <3>5. QED BY <2>1, <2>2, <3>1, <3>4 DEF Owns
  <2>3. ASSUME job[u].auto
        PROVE  /\ HoldsLock(job[u].txn)' => HoldsLock(job[u].txn)
               /\ \A c \in Table : StagedIn(job[u].txn, c)' => StagedIn(job[u].txn, c)
    <3>1. job[u].txn \in Txn \ {x}
      BY <1>1, <2>3
    <3>2. QED BY <2>1, <3>1 DEF LocksKept, StagedKept, HoldsLock, StagedIn
  <2>4. QED BY <2>1, <2>2, <2>3 DEF Owns, Holds, HoldsX, HoldsLock, StagedIn
<1>6. ASSUME NEW u \in Thread \ {t}
      PROVE  Waits(u)'
  BY DEF OnlyMoves, ApiInv, Waits
<1>7. ASSUME NEW y \in Txn \ {x}
      PROVE  Covers(y)'
  <2>1. Covers(y)
    BY DEF ApiInv
  <2>2. (y \in issued' <=> y \in issued) /\ states'[y] = states[y]
    BY DEF OnlyMoves, StatesKept
  <2>3. \A c \in Table : /\ StagedIn(y, c)' => StagedIn(y, c)
                         /\ HoldsX(y, c) => HoldsX(y, c)'
    BY DEF StagedKept, LocksKept
  <2>4. QED BY <2>1, <2>2, <2>3 DEF Covers
<1>8. ASSUME NEW y \in Txn \ {x}
      PROVE  Leaves(y)'
  <2>1. Leaves(y)
    BY DEF ApiInv
  <2>2. y \in issued' <=> y \in issued
    BY DEF OnlyMoves
  <2>3. ASSUME InFlight(y) PROVE InFlight(y)'
    <3>1. PICK u \in Thread : Busy(u) /\ job[u].txn = y
      BY <2>3 DEF InFlight, Busy
    <3>2. u # t
      BY <3>1 DEF OnlyMoves
    <3>3. job'[u] = job[u]
      BY <3>2 DEF OnlyMoves
    <3>4. QED BY <3>1, <3>3 DEF InFlight, Busy
  <2>4. /\ HoldsLock(y)' => HoldsLock(y)
        /\ \A c \in Table : StagedIn(y, c)' => StagedIn(y, c)
    BY DEF StagedKept, LocksKept
  <2>5. QED BY <2>1, <2>2, <2>3, <2>4 DEF Leaves
<1>9. QED BY <1>3, <1>4, <1>5, <1>6, <1>7, <1>8

\* What remains to be shown of an action.
LEMMA Whole ==
    ASSUME ApiInv, Types', NEW t \in Thread, NEW x \in Txn,
           StatesKept(x), LocksKept(x), StagedKept(x), OnlyMoves(t, x),
           Names(t)', Stands(t)', Owns(t)', Waits(t)', Stamps', Covers(x)', Leaves(x)'
    PROVE  ApiInv'
<1>1. /\ \A u \in Thread \ {t} : Names(u)' /\ Stands(u)' /\ Owns(u)' /\ Waits(u)'
      /\ \A y \in Txn \ {x} : Covers(y)' /\ Leaves(y)'
  BY Frame
<1>2. QED BY <1>1 DEF ApiInv

-----------------------------------------------------------------------------
(* Steps that call neither the lock manager nor the engine.                *)

LEMMA SetJob ==
    ASSUME JobTypes, NEW t \in Thread, NEW r \in {Idle} \cup JobRec,
           job' = [job EXCEPT ![t] = r]
    PROVE  /\ JobTypes' /\ job'[t] = r
           /\ Busy(t)' <=> r # Idle
           /\ \A u \in Thread \ {t} : job'[u] = job[u]
BY DEF JobTypes, Busy

LEMMA RequestFields ==
    ASSUME NEW op \in Statement \cup {"commit", "rollback"}, NEW at \in JobAt, NEW x \in Txn,
           NEW a \in BOOLEAN, NEW tb \in Table \cup {"none"}
    PROVE  /\ Request(op, at, x, a, tb) \in JobRec
           /\ Request(op, at, x, a, tb) # Idle
BY DEF Request, JobRec, Idle, JobAt

LEMMA IdleIsNoRequest == Idle \notin JobRec
BY DEF Idle, JobRec

\* The request goes on at another step of its handler.
LEMMA GotoEffect ==
    ASSUME JobTypes, NEW t \in Thread, Busy(t), NEW l \in JobAt, Goto(t, l)
    PROVE  /\ JobTypes' /\ Busy(t)'
           /\ job'[t] = [job[t] EXCEPT !.at = l] /\ job'[t].at = l
           /\ job'[t].op = job[t].op /\ job'[t].txn = job[t].txn
           /\ job'[t].auto = job[t].auto /\ job'[t].table = job[t].table
           /\ job'[t].failed = job[t].failed /\ job'[t].seq = job[t].seq
           /\ \A u \in Thread \ {t} : job'[u] = job[u]
           /\ UNCHANGED <<issued, asked>>
<1> DEFINE r == [job[t] EXCEPT !.at = l]
<1>1. job[t] \in JobRec
  BY JobFields
<1>2. /\ r \in JobRec /\ r.at = l
      /\ r.op = job[t].op /\ r.txn = job[t].txn /\ r.auto = job[t].auto
      /\ r.table = job[t].table /\ r.failed = job[t].failed /\ r.seq = job[t].seq
  BY <1>1 DEF JobRec
<1>3. job' = [job EXCEPT ![t] = r] /\ UNCHANGED <<issued, asked>>
  BY DEF Goto
<1> HIDE DEF r
<1>4. r # Idle
  BY <1>2, IdleIsNoRequest
<1>5. QED BY <1>2, <1>3, <1>4, SetJob DEF r

\* The request is answered.
LEMMA RespondEffect ==
    ASSUME JobTypes, NEW t \in Thread, Respond(t)
    PROVE  /\ JobTypes' /\ ~Busy(t)' /\ job'[t] = Idle
           /\ \A u \in Thread \ {t} : job'[u] = job[u]
           /\ UNCHANGED <<issued, asked>>
BY SetJob DEF Respond

\* A thread without a request says nothing about any transaction.
LEMMA NothingToSay ==
    ASSUME NEW t \in Thread, job'[t] = Idle, ~Blocked(t)'
    PROVE  Names(t)' /\ Stands(t)' /\ Owns(t)' /\ Waits(t)'
BY DEF Names, Stands, Owns, Waits, Busy, Idle

LEMMA HandlerRuns ==
    ASSUME ApiInv, NEW t \in Thread, NEW l, At(t, l)
    PROVE  /\ job[t].at = l /\ ~Blocked(t)
           /\ l = "idle" => ~Busy(t)
           /\ l # "idle" => /\ Busy(t) /\ job[t] \in JobRec /\ job[t].txn \in Txn
                            /\ job[t].txn \in 1..next_id
<1>1. job[t].at = l /\ ~Blocked(t) /\ (Busy(t) <=> l # "idle") /\ (Busy(t) => job[t] \in JobRec /\ job[t].txn \in Txn)
  BY JobFields DEF At, Blocked, ApiInv, Types
<1>2. Names(t)
  BY DEF ApiInv
<1>3. QED BY <1>1, <1>2 DEF Names

LEMMA LocksSameTypes ==
    ASSUME ApiInv, UNCHANGED lockVars
    PROVE  LockTypes' /\ WaiterAccounting'
BY LockTypesStep, WaiterAccountingStep DEF ApiInv, Types

LEMMA StorageSameTypes ==
    ASSUME ApiInv, UNCHANGED storageVars
    PROVE  StorageTypeOK'
BY DEF ApiInv, Types, StorageTypeOK, storageVars

\* The versions stay within the sequences when none is written.
LEMMA StampsSame ==
    ASSUME ApiInv, UNCHANGED storageVars, NEW x, StatesKept(x), TxnTypes',
           next_id' >= next_id, commit_seq' >= commit_seq
    PROVE  Stamps'
<1>1. /\ next_id \in Nat /\ next_id' \in Nat /\ commit_seq \in Nat /\ commit_seq' \in Nat
      /\ visible_seq \in Nat /\ 1..next_id \subseteq Txn
  BY TxnAssumption, TxnIds DEF ApiInv, Types, TxnTypes, StorageTypeOK
<1>2. ASSUME NEW c \in Table, NEW v \in VersionsOf(c)'
      PROVE  /\ v.txn \in 1..next_id'
             /\ v.seq > 0 => states'[v.txn] = "Committed"
             /\ v.seq <= visible_seq'
  <2>1. v \in VersionsOf(c)
    BY TablesSame DEF storageVars
  <2>2. /\ v.txn \in 1..next_id
        /\ v.seq > 0 => states[v.txn] = "Committed"
        /\ v.seq <= visible_seq
    BY <2>1 DEF ApiInv, Stamps
  <2>3. states[v.txn] = "Committed" => states'[v.txn] = "Committed"
    BY <1>1, <2>2 DEF StatesKept
  <2>4. QED BY <1>1, <2>2, <2>3 DEF storageVars
<1>3. visible_seq' <= commit_seq'
  BY <1>1 DEF ApiInv, Stamps, storageVars
<1>4. QED BY <1>2, <1>3 DEF Stamps

\* A transaction that was not begun has staged nothing.
LEMMA NotBegun ==
    ASSUME ApiInv, NEW x, x \notin 1..next_id
    PROVE  \A c \in Table : ~StagedIn(x, c)
BY DEF ApiInv, Stamps, StagedIn, Staged

LEMMA LocksKeptSame ==
    ASSUME UNCHANGED held
    PROVE  \A x \in Txn : LocksKept(x)
BY HeldSame DEF LocksKept

LEMMA StagedKeptSame ==
    ASSUME UNCHANGED tables
    PROVE  \A x \in Txn : StagedKept(x)
BY TablesSame DEF StagedKept

\* A step of that kind keeps the invariant if it puts its own request right.
LEMMA QuietStep ==
    ASSUME ApiInv, UNCHANGED <<lockVars, storageVars>>, NEW t \in Thread, NEW x \in Txn,
           TxnTypes', JobTypes', StatesKept(x), OnlyMoves(t, x),
           x \in issued' \/ Busy(t)',
           Names(t)', Stands(t)', Owns(t)', Waits(t)'
    PROVE  ApiInv'
<1>1. Types'
  BY LocksSameTypes, StorageSameTypes DEF Types
<1>2. UNCHANGED held /\ UNCHANGED tables
  BY DEF lockVars, storageVars
<1>3. LocksKept(x) /\ StagedKept(x)
  BY <1>2, LocksKeptSame, StagedKeptSame
<1>4. Stamps'
  BY StampsSame DEF OnlyMoves
<1>5. Covers(x)'
  <2> SUFFICES ASSUME x \in issued', states'[x] = "Active", NEW c \in Table, StagedIn(x, c)'
               PROVE  HoldsX(x, c)'
    BY DEF Covers
  <2>1. StagedIn(x, c)
    BY <1>2, TablesSame
  <2>2. x \in 1..next_id
    BY <2>1, NotBegun
  <2>3. CASE x \in issued
    <3>1. states[x] = "Active"
      BY <2>2 DEF StatesKept
    <3>2. HoldsX(x, c)
      BY <2>1, <2>3, <3>1 DEF ApiInv, Covers
    <3>3. QED BY <1>2, <3>2, HeldSame
  <2>4. CASE x \notin issued
    BY <2>2, <2>4 DEF OnlyMoves
  <2>5. QED BY <2>3, <2>4
<1>6. Leaves(x)'
  BY DEF Leaves, InFlight, Busy, OnlyMoves
<1>7. QED BY <1>1, <1>3, <1>4, <1>5, <1>6, Whole

LEMMA BeginKeeps == ASSUME ApiInv, NEW t \in Thread, Begin(t) PROVE ApiInv'
<1>1. At(t, "idle") /\ next_id < MaxTxn /\ beginTxn /\ issued' = issued \cup {NewTxn}
      /\ UNCHANGED job /\ UNCHANGED <<lockVars, storageVars>>
  BY DEF Begin, Accept, beginTxn
<1>2. ~Busy(t) /\ ~Blocked(t)
  BY <1>1, HandlerRuns
<1>3. TxnTypes /\ JobTypes
  BY DEF ApiInv, Types
<1>4. NewTxn \in Txn /\ NewTxn \notin 1..next_id /\ next_id \in Nat
  BY <1>1, <1>3, TxnIds
<1>5. /\ states' = [states EXCEPT ![NewTxn] = "Active"]
      /\ next_id' = next_id + 1 /\ commit_seq' = commit_seq
  BY <1>1 DEF beginTxn, NewTxn
<1>6. TxnTypes' /\ JobTypes'
  <2>1. states' \in [Txn -> TxnState]
    BY <1>3, <1>5 DEF TxnTypes, TxnState
  <2>2. next_id' \in 0..MaxTxn /\ commit_seq' \in Nat /\ issued' \in SUBSET (1..next_id')
    BY <1>1, <1>3, <1>4, <1>5, TxnAssumption DEF TxnTypes, NewTxn
  <2>3. QED BY <1>1, <1>3, <2>1, <2>2 DEF TxnTypes, JobTypes
<1>7. StatesKept(NewTxn)
  BY <1>3, <1>4, <1>5 DEF StatesKept, TxnTypes
<1>8. OnlyMoves(t, NewTxn) /\ ~Busy(t)'
  BY <1>1, <1>2, <1>3, <1>4, <1>5 DEF OnlyMoves, Busy, Blocked, lockVars, TxnTypes
<1>9. Names(t)' /\ Stands(t)' /\ Owns(t)' /\ Waits(t)'
  BY <1>1, <1>2, <1>8, NothingToSay DEF Busy, Blocked, lockVars
<1>10. QED BY <1>1, <1>4, <1>6, <1>7, <1>8, <1>9, QuietStep

\* What commitTxn and abortTxn do to the transaction they are called for.
LEMMA CloseEffect ==
    ASSUME TxnTypes, NEW x \in Txn, commitTxn(x) \/ abortTxn(x), UNCHANGED issued
    PROVE  /\ TxnTypes' /\ StatesKept(x) /\ states'[x] # "Active"
           /\ next_id' = next_id /\ commit_seq' >= commit_seq
           /\ abortTxn(x) => commit_seq' = commit_seq
           /\ ~Closable(x) => states' = states
           /\ Closable(x) /\ commitTxn(x) => states'[x] = "Committed" /\ commit_seq' > 0
<1>1. commit_seq \in Nat /\ commit_seq + 1 \in Nat /\ commit_seq + 1 > 0 /\ commit_seq + 1 >= commit_seq /\ commit_seq >= commit_seq
  BY DEF TxnTypes
<1>2. ASSUME NEW st \in {"Committed", "Aborted"}, states' = [states EXCEPT ![x] = st], Closable(x)
      PROVE  states' \in [Txn -> TxnState] /\ StatesKept(x) /\ states'[x] = st
  BY <1>2 DEF TxnTypes, TxnState, StatesKept, Closable
<1>3. CASE ~Closable(x)
  <2>1. UNCHANGED <<states, next_id, commit_seq>>
    BY <1>3 DEF commitTxn, abortTxn, txnVars
  <2>2. QED BY <1>1, <1>3, <2>1 DEF TxnTypes, StatesKept, Closable
<1>4. CASE Closable(x) /\ commitTxn(x)
  <2>1. /\ states' = [states EXCEPT ![x] = "Committed"]
        /\ commit_seq' = commit_seq + 1 /\ next_id' = next_id
    BY <1>4 DEF commitTxn
  <2>2. ~abortTxn(x)
    BY <1>1, <2>1 DEF abortTxn
  <2>3. QED BY <1>1, <1>2, <1>4, <2>1, <2>2 DEF TxnTypes
<1>5. CASE Closable(x) /\ abortTxn(x)
  <2>1. /\ states' = [states EXCEPT ![x] = "Aborted"]
        /\ commit_seq' = commit_seq /\ next_id' = next_id
    BY <1>5 DEF abortTxn
  <2>2. ~commitTxn(x)
    BY <1>1, <1>5, <2>1 DEF commitTxn
  <2>3. QED BY <1>1, <1>2, <1>5, <2>1, <2>2 DEF TxnTypes
<1>6. QED BY <1>3, <1>4, <1>5

LEMMA CommitKeeps ==
    ASSUME ApiInv, NEW t \in Thread, NEW x \in issued, Commit(t, x) PROVE ApiInv'
<1> DEFINE r == Request("commit", "seq", x, FALSE, "none")
<1>1. At(t, "idle") /\ commitTxn(x) /\ UNCHANGED issued /\ UNCHANGED <<lockVars, storageVars>>
      /\ job' = IF Closable(x) THEN [job EXCEPT ![t] = r] ELSE job
  BY DEF Commit, Accept
<1>2. ~Busy(t) /\ ~Blocked(t)
  BY <1>1, HandlerRuns
<1>3. TxnTypes /\ JobTypes /\ x \in Txn /\ x \in 1..next_id
  <2>1. TxnTypes /\ JobTypes
    BY DEF ApiInv, Types
  <2>2. QED BY <2>1, TxnIds DEF TxnTypes
<1>4. /\ TxnTypes' /\ StatesKept(x)
      /\ next_id' = next_id /\ commit_seq' >= commit_seq /\ next_id >= next_id
      /\ Closable(x) => states'[x] = "Committed" /\ commit_seq' > 0
  BY <1>1, <1>3, CloseEffect, TxnIds
<1>5. /\ r \in JobRec /\ r # Idle /\ r.txn = x /\ r.at = "seq" /\ r.op = "commit"
      /\ r.auto = FALSE /\ r.failed = FALSE
  BY <1>3, RequestFields DEF JobAt, Request
<1> HIDE DEF r
<1>6. CASE Closable(x)
  <2>1. /\ JobTypes' /\ job'[t] = r /\ Busy(t)'
        /\ \A u \in Thread \ {t} : job'[u] = job[u]
    BY <1>1, <1>3, <1>5, <1>6, SetJob
  <2>2. OnlyMoves(t, x)
    BY <1>1, <1>2, <1>3, <1>4, <1>5, <2>1 DEF OnlyMoves, Blocked, lockVars
  <2>3. Names(t)'
    BY <1>1, <1>3, <1>4, <1>5, <2>1 DEF Names
  <2>4. Stands(t)'
    BY <1>4, <1>5, <1>6, <2>1 DEF Stands, StatementAt
  <2>5. Owns(t)'
    BY <1>5, <2>1 DEF Owns
  <2>6. Waits(t)'
    BY <1>1, <1>2, <1>5, <2>1 DEF Waits, Blocked, lockVars
  <2>7. QED BY <1>1, <1>3, <1>4, <2>1, <2>2, <2>3, <2>4, <2>5, <2>6, QuietStep
<1>7. CASE ~Closable(x)
  <2>1. JobTypes' /\ job' = job /\ ~Busy(t)'
    BY <1>1, <1>2, <1>3, <1>7 DEF JobTypes, Busy
  <2>2. OnlyMoves(t, x)
    BY <1>1, <1>2, <1>3, <1>4, <2>1 DEF OnlyMoves, Blocked, lockVars
  <2>3. Names(t)' /\ Stands(t)' /\ Owns(t)' /\ Waits(t)'
    BY <1>1, <1>2, <2>1, NothingToSay DEF Busy, Blocked, lockVars
  <2>4. QED BY <1>1, <1>3, <1>4, <2>1, <2>2, <2>3, QuietStep
<1>8. QED BY <1>6, <1>7

LEMMA QueryKeeps ==
    ASSUME ApiInv, NEW t \in Thread, NEW op \in Statement, NEW tb \in Table, NEW x \in issued,
           Query(t, op, tb, x)
    PROVE  ApiInv'
<1> DEFINE r == Request(op, "check", x, FALSE, tb)
<1>1. At(t, "idle") /\ UNCHANGED issued /\ UNCHANGED <<lockVars, storageVars>>
      /\ UNCHANGED <<states, next_id, commit_seq>> /\ job' = [job EXCEPT ![t] = r]
  BY DEF Query, Accept, txnVars
<1>2. ~Busy(t) /\ ~Blocked(t)
  BY <1>1, HandlerRuns
<1>3. TxnTypes /\ JobTypes /\ x \in Txn /\ x \in 1..next_id
  <2>1. TxnTypes /\ JobTypes
    BY DEF ApiInv, Types
  <2>2. QED BY <2>1, TxnIds DEF TxnTypes
<1>4. TxnTypes' /\ StatesKept(x) /\ next_id >= next_id /\ commit_seq >= commit_seq
  BY <1>1, <1>3, TxnIds DEF TxnTypes, StatesKept
<1>5. /\ r \in JobRec /\ r # Idle /\ r.txn = x /\ r.at = "check" /\ r.op = op /\ r.table = tb
      /\ r.auto = FALSE /\ r.failed = FALSE
  BY <1>3, RequestFields DEF JobAt, Request
<1> HIDE DEF r
<1>6. /\ JobTypes' /\ job'[t] = r /\ Busy(t)'
      /\ \A u \in Thread \ {t} : job'[u] = job[u]
  BY <1>1, <1>3, <1>5, SetJob
<1>7. OnlyMoves(t, x)
  BY <1>1, <1>2, <1>3, <1>4, <1>5, <1>6 DEF OnlyMoves, Blocked, lockVars
<1>8. Names(t)' /\ Stands(t)' /\ Owns(t)' /\ Waits(t)'
  <2>1. Names(t)'
    BY <1>1, <1>3, <1>5, <1>6 DEF Names
  <2>2. Stands(t)'
    BY <1>5, <1>6 DEF Stands
  <2>3. Owns(t)'
    BY <1>5, <1>6 DEF Owns
  <2>4. Waits(t)'
    BY <1>1, <1>2, <1>5, <1>6 DEF Waits, Blocked, lockVars
  <2>5. QED BY <2>1, <2>2, <2>3, <2>4
<1>9. QED BY <1>1, <1>3, <1>4, <1>6, <1>7, <1>8, QuietStep

LEMMA QueryAutoKeeps ==
    ASSUME ApiInv, NEW t \in Thread, NEW op \in Statement, NEW tb \in Table, QueryAuto(t, op, tb)
    PROVE  ApiInv'
<1>0. TxnTypes /\ next_id < MaxTxn
  BY DEF ApiInv, Types, QueryAuto, beginTxn
<1>x. PICK x \in Txn : x = NewTxn
  BY <1>0, TxnIds
<1> DEFINE r == Request(op, "check", x, TRUE, tb)
<1>1. At(t, "idle") /\ next_id < MaxTxn /\ UNCHANGED issued /\ UNCHANGED <<lockVars, storageVars>>
      /\ job' = [job EXCEPT ![t] = r]
  BY <1>x DEF QueryAuto, Accept, beginTxn
<1>2. ~Busy(t) /\ ~Blocked(t)
  BY <1>1, HandlerRuns
<1>3. TxnTypes /\ JobTypes
  BY DEF ApiInv, Types
<1>4. x \in Txn /\ x \notin 1..next_id /\ next_id \in Nat /\ x \in 1..(next_id + 1)
      /\ x \notin issued
  BY <1>x, <1>1, <1>3, TxnIds DEF TxnTypes, NewTxn
<1>5. /\ states' = [states EXCEPT ![x] = "Active"]
      /\ next_id' = next_id + 1 /\ commit_seq' = commit_seq
  BY <1>x DEF QueryAuto, beginTxn, NewTxn
<1>6. /\ r \in JobRec /\ r # Idle /\ r.txn = x /\ r.at = "check" /\ r.op = op /\ r.table = tb
      /\ r.auto = TRUE /\ r.failed = FALSE
  BY <1>4, RequestFields DEF JobAt, Request
<1> HIDE DEF r
<1>7. TxnTypes' /\ states'[x] = "Active" /\ StatesKept(x)
  <2>1. states' \in [Txn -> TxnState] /\ states'[x] = "Active"
    BY <1>3, <1>4, <1>5 DEF TxnTypes, TxnState
  <2>2. next_id' \in 0..MaxTxn /\ commit_seq' \in Nat /\ issued' \in SUBSET (1..next_id')
    BY <1>1, <1>3, <1>4, <1>5, TxnAssumption DEF TxnTypes
  <2>3. StatesKept(x)
    BY <1>3, <1>4, <1>5 DEF StatesKept, TxnTypes
  <2>4. QED BY <2>1, <2>2, <2>3 DEF TxnTypes
<1>8. /\ JobTypes' /\ job'[t] = r /\ Busy(t)'
      /\ \A u \in Thread \ {t} : job'[u] = job[u]
  BY <1>1, <1>3, <1>6, SetJob
<1>9. OnlyMoves(t, x)
  BY <1>1, <1>2, <1>3, <1>4, <1>5, <1>6, <1>8 DEF OnlyMoves, Blocked, lockVars, TxnTypes
<1>10. Names(t)'
  <2>1. ASSUME NEW u \in Thread, u # t, Busy(u)'
        PROVE  job'[u].txn # x
    <3>1. Busy(u) /\ job'[u] = job[u]
      BY <1>8, <2>1 DEF Busy
    <3>2. job[u].txn \in 1..next_id
      BY <3>1 DEF ApiInv, Names
    <3>3. QED BY <1>4, <3>1, <3>2
  <2>2. QED BY <1>1, <1>4, <1>5, <1>6, <1>8, <2>1 DEF Names
<1>11. Stands(t)'
  BY <1>6, <1>7, <1>8 DEF Stands
<1>12. Owns(t)'
  <2>1. \A c \in Table : ~StagedIn(x, c)'
    BY <1>1, <1>4, NotBegun, TablesSame DEF storageVars
  <2>2. QED BY <1>6, <1>8, <2>1 DEF Owns, StagedIn
<1>13. Waits(t)'
  BY <1>1, <1>2, <1>6, <1>8 DEF Waits, Blocked, lockVars
<1>14. QED BY <1>1, <1>4, <1>7, <1>8, <1>9, <1>10, <1>11, <1>12, <1>13, QuietStep

\* The request of t goes on, for the same transaction.
LEMMA GoesOn ==
    ASSUME ApiInv, NEW t \in Thread, Busy(t), Busy(t)',
           job'[t].op = job[t].op, job'[t].txn = job[t].txn, job'[t].auto = job[t].auto,
           \A u \in Thread \ {t} : job'[u] = job[u],
           UNCHANGED issued, next_id' = next_id
    PROVE  Names(t)'
<1>1. Names(t)
  BY DEF ApiInv
<1>2. \A u \in Thread \ {t} : Busy(u)' <=> Busy(u)
  BY DEF Busy
<1>3. QED BY <1>1, <1>2 DEF Names

\* As long as the locks and the transactions' lives are the same, only the request moves.
LEMMA RequestMoves ==
    ASSUME ApiInv, NEW t \in Thread, Busy(t), Busy(t)' => job'[t].txn = job[t].txn,
           \A u \in Thread \ {t} : job'[u] = job[u],
           \A u \in Thread \ {t} : (Blocked(u)' <=> Blocked(u)) /\ call'[u] = call[u],
           UNCHANGED issued, next_id' = next_id, commit_seq' >= commit_seq
    PROVE  OnlyMoves(t, job[t].txn)
<1>1. next_id >= next_id
  BY TxnIds DEF ApiInv, Types
<1>2. QED BY <1>1 DEF OnlyMoves

LEMMA TxnsSame ==
    ASSUME ApiInv, UNCHANGED <<states, next_id, commit_seq, issued>>
    PROVE  /\ TxnTypes' /\ \A x \in Txn : StatesKept(x)
           /\ next_id' = next_id /\ commit_seq' >= commit_seq
BY DEF ApiInv, Types, TxnTypes, StatesKept

LEMMA ReadSeqKeeps == ASSUME ApiInv, NEW t \in Thread, ReadSeq(t) PROVE ApiInv'
<1> DEFINE r == [job[t] EXCEPT !.at = "stamp", !.seq = commit_seq]
<1>1. At(t, "seq") /\ UNCHANGED issued /\ UNCHANGED <<lockVars, storageVars>>
      /\ UNCHANGED <<states, next_id, commit_seq>> /\ job' = [job EXCEPT ![t] = r]
  BY DEF ReadSeq, txnVars, visibleSeq
<1>2. /\ job[t].at = "seq" /\ Busy(t) /\ ~Blocked(t)
      /\ job[t] \in JobRec /\ job[t].txn \in Txn /\ job[t].txn \in 1..next_id
  BY <1>1, HandlerRuns
<1>3. TxnTypes /\ JobTypes /\ commit_seq \in Nat
  BY DEF ApiInv, Types, TxnTypes
<1>4. /\ r \in JobRec /\ r.at = "stamp" /\ r.seq = commit_seq
      /\ r.op = job[t].op /\ r.txn = job[t].txn /\ r.auto = job[t].auto
      /\ r.table = job[t].table /\ r.failed = job[t].failed
  BY <1>2, <1>3 DEF JobRec, JobAt
<1> HIDE DEF r
<1>5. /\ JobTypes' /\ job'[t] = r /\ Busy(t)'
      /\ \A u \in Thread \ {t} : job'[u] = job[u]
  BY <1>1, <1>3, <1>4, IdleIsNoRequest, SetJob
<1>6. /\ TxnTypes' /\ StatesKept(job[t].txn)
      /\ next_id' = next_id /\ commit_seq' >= commit_seq
  BY <1>1, <1>2, TxnsSame
<1>7. OnlyMoves(t, job[t].txn)
  BY <1>1, <1>2, <1>4, <1>5, <1>6, RequestMoves DEF Blocked, lockVars
<1>8. Names(t)'
  BY <1>1, <1>2, <1>4, <1>5, GoesOn
<1>9. Stands(t) /\ Owns(t)
  BY DEF ApiInv
<1>10. Stands(t)'
  <2>1. states[job[t].txn] = "Committed" /\ commit_seq > 0 /\ (job[t].op = "commit" \/ job[t].auto)
        /\ ~job[t].failed
    BY <1>2, <1>9 DEF Stands, StatementAt
  <2>2. commit_seq \in 1..commit_seq
    BY <1>3, <2>1
  <2>3. QED BY <1>1, <1>4, <1>5, <2>1, <2>2 DEF Stands, StatementAt
<1>11. Owns(t)'
  <2>1. job[t].auto => ~HoldsLock(job[t].txn)
    BY <1>2, <1>9 DEF Owns
  <2>2. UNCHANGED held
    BY <1>1 DEF lockVars
  <2>3. ~job[t].failed
    BY <1>2, <1>9 DEF Stands
  <2>4. QED BY <1>4, <1>5, <2>1, <2>2, <2>3 DEF Owns, HoldsLock
<1>12. Waits(t)'
  BY <1>1, <1>2, <1>4, <1>5 DEF Waits, Blocked, lockVars
<1>13. QED BY <1>1, <1>2, <1>5, <1>6, <1>7, <1>8, <1>10, <1>11, <1>12, QuietStep

LEMMA AbortTxnKeeps == ASSUME ApiInv, NEW t \in Thread, AbortTxn(t) PROVE ApiInv'
<1>1. At(t, "abortTxn") /\ abortTxn(job[t].txn) /\ Goto(t, "release")
      /\ UNCHANGED <<lockVars, storageVars>>
  BY DEF AbortTxn
<1>2. /\ job[t].at = "abortTxn" /\ Busy(t) /\ ~Blocked(t) /\ job[t].txn \in Txn
  BY <1>1, HandlerRuns
<1>3. TxnTypes /\ JobTypes /\ Stands(t) /\ Owns(t)
  BY DEF ApiInv, Types
<1>4. /\ JobTypes' /\ Busy(t)' /\ job'[t].at = "release"
      /\ job'[t].op = job[t].op /\ job'[t].txn = job[t].txn
      /\ job'[t].auto = job[t].auto /\ job'[t].failed = job[t].failed
      /\ \A u \in Thread \ {t} : job'[u] = job[u]
      /\ UNCHANGED issued
  BY <1>1, <1>2, <1>3, GotoEffect DEF JobAt
<1>5. /\ TxnTypes' /\ StatesKept(job[t].txn) /\ states'[job[t].txn] # "Active"
      /\ next_id' = next_id /\ commit_seq' >= commit_seq
  BY <1>1, <1>2, <1>3, <1>4, CloseEffect
<1>6. OnlyMoves(t, job[t].txn)
  BY <1>1, <1>2, <1>4, <1>5, RequestMoves DEF Blocked, lockVars
<1>7. Names(t)'
  BY <1>2, <1>4, <1>5, GoesOn
<1>8. ~job[t].failed
  BY <1>2, <1>3 DEF Stands
<1>9. Stands(t)'
  BY <1>4, <1>5, <1>8 DEF Stands, StatementAt
<1>10. Owns(t)'
  <2>1. job[t].auto => \A c \in Table : ~StagedIn(job[t].txn, c)
    BY <1>2, <1>3 DEF Owns
  <2>2. UNCHANGED tables
    BY <1>1 DEF storageVars
  <2>3. QED BY <1>4, <1>8, <2>1, <2>2 DEF Owns, StagedIn, VersionsOf
<1>11. Waits(t)'
  BY <1>1, <1>2, <1>4 DEF Waits, Blocked, lockVars
<1>12. QED BY <1>1, <1>2, <1>4, <1>5, <1>6, <1>7, <1>9, <1>10, <1>11, QuietStep

LEMMA AutoCommitKeeps == ASSUME ApiInv, NEW t \in Thread, AutoCommit(t) PROVE ApiInv'
<1>1. At(t, "autoCommit") /\ commitTxn(job[t].txn) /\ Goto(t, "seq")
      /\ UNCHANGED <<lockVars, storageVars>>
  BY DEF AutoCommit
<1>2. /\ job[t].at = "autoCommit" /\ Busy(t) /\ ~Blocked(t) /\ job[t].txn \in Txn
  BY <1>1, HandlerRuns
<1>3. TxnTypes /\ JobTypes /\ Stands(t) /\ Owns(t)
  BY DEF ApiInv, Types
<1>4. /\ JobTypes' /\ Busy(t)' /\ job'[t].at = "seq"
      /\ job'[t].op = job[t].op /\ job'[t].txn = job[t].txn
      /\ job'[t].auto = job[t].auto /\ job'[t].failed = job[t].failed
      /\ \A u \in Thread \ {t} : job'[u] = job[u]
      /\ UNCHANGED issued
  BY <1>1, <1>2, <1>3, GotoEffect DEF JobAt
<1>5. job[t].auto /\ ~job[t].failed /\ Closable(job[t].txn)
  BY <1>2, <1>3 DEF Stands, StatementAt, Closable
<1>6. /\ TxnTypes' /\ StatesKept(job[t].txn) /\ states'[job[t].txn] = "Committed"
      /\ commit_seq' > 0 /\ next_id' = next_id /\ commit_seq' >= commit_seq
  BY <1>1, <1>2, <1>3, <1>4, <1>5, CloseEffect
<1>7. OnlyMoves(t, job[t].txn)
  BY <1>1, <1>2, <1>4, <1>6, RequestMoves DEF Blocked, lockVars
<1>8. Names(t)'
  BY <1>2, <1>4, <1>6, GoesOn
<1>9. Stands(t)'
  BY <1>4, <1>5, <1>6 DEF Stands, StatementAt
<1>10. Owns(t)'
  <2>1. ~HoldsLock(job[t].txn)
    BY <1>2, <1>3, <1>5 DEF Owns
  <2>2. UNCHANGED held
    BY <1>1 DEF lockVars
  <2>3. QED BY <1>4, <1>5, <2>1, <2>2 DEF Owns, HoldsLock
<1>11. Waits(t)'
  BY <1>1, <1>2, <1>4 DEF Waits, Blocked, lockVars
<1>12. QED BY <1>1, <1>2, <1>4, <1>6, <1>7, <1>8, <1>9, <1>10, <1>11, QuietStep

\* A step that leaves everything but the walks as it is.
LEMMA NothingMoves ==
    ASSUME ApiInv, UNCHANGED <<lockVars, storageVars, txnVars, httpVars>>
    PROVE  ApiInv'
<1>1. /\ UNCHANGED <<held, waiters, lockPc, call>> /\ UNCHANGED <<tables, auto_id, visible_seq>>
      /\ UNCHANGED <<states, next_id, commit_seq>> /\ UNCHANGED <<job, issued, asked>>
  BY DEF lockVars, storageVars, txnVars, httpVars
<1>2. Types'
  BY <1>1, LocksSameTypes, StorageSameTypes DEF ApiInv, Types, TxnTypes, JobTypes
<1>3. ASSUME NEW t \in Thread
      PROVE  Names(t)' /\ Stands(t)' /\ Owns(t)' /\ Waits(t)'
  <2>1. Names(t) /\ Stands(t) /\ Owns(t) /\ Waits(t)
    BY DEF ApiInv
  <2>2. Names(t)'
    BY <1>1, <2>1 DEF Names, Busy
  <2>3. Stands(t)'
    BY <1>1, <2>1 DEF Stands, Busy
  <2>4. Owns(t)'
    BY <1>1, <2>1 DEF Owns, Busy, Holds, HoldsX, HoldsLock, StagedIn, VersionsOf
  <2>5. Waits(t)'
    BY <1>1, <2>1 DEF Waits, Blocked
  <2>6. QED BY <2>2, <2>3, <2>4, <2>5
<1>4. Stamps'
  BY <1>1 DEF ApiInv, Stamps, VersionsOf
<1>5. ASSUME NEW x \in Txn
      PROVE  Covers(x)' /\ Leaves(x)'
  <2>1. Covers(x) /\ Leaves(x)
    BY DEF ApiInv
  <2>2. Covers(x)'
    BY <1>1, <2>1 DEF Covers, Holds, HoldsX, StagedIn, VersionsOf
  <2>3. Leaves(x)'
    BY <1>1, <2>1 DEF Leaves, InFlight, HoldsLock, StagedIn, VersionsOf
  <2>4. QED BY <2>2, <2>3
<1>6. QED BY <1>2, <1>3, <1>4, <1>5 DEF ApiInv

LEMMA DetectCycleKeeps == ASSUME ApiInv, NEW t \in Thread, DetectCycle(t) PROVE ApiInv'
<1>1. At(t, "check") /\ UNCHANGED <<lockVars, storageVars>> /\ UNCHANGED txnVars
      /\ (Goto(t, "lock") \/ Goto(t, "abortTxn") \/ UNCHANGED httpVars)
  BY DEF DetectCycle
<1>2. CASE UNCHANGED httpVars
  BY <1>1, <1>2, NothingMoves
<1>3. ASSUME NEW l \in {"lock", "abortTxn"}, Goto(t, l)
      PROVE  ApiInv'
  <2>1. /\ job[t].at = "check" /\ Busy(t) /\ ~Blocked(t) /\ job[t].txn \in Txn
    BY <1>1, HandlerRuns
  <2>2. TxnTypes /\ JobTypes /\ Stands(t) /\ Owns(t)
    BY DEF ApiInv, Types
  <2>3. /\ JobTypes' /\ Busy(t)' /\ job'[t].at = l
        /\ job'[t].op = job[t].op /\ job'[t].txn = job[t].txn /\ job'[t].table = job[t].table
        /\ job'[t].auto = job[t].auto /\ job'[t].failed = job[t].failed
        /\ \A u \in Thread \ {t} : job'[u] = job[u]
        /\ UNCHANGED issued
    BY <1>3, <2>1, <2>2, GotoEffect DEF JobAt
  <2>4. /\ TxnTypes' /\ StatesKept(job[t].txn) /\ states' = states
        /\ next_id' = next_id /\ commit_seq' >= commit_seq
    BY <1>1, <2>1, <2>3, TxnsSame DEF txnVars
  <2>5. OnlyMoves(t, job[t].txn)
    BY <1>1, <2>1, <2>3, <2>4, RequestMoves DEF Blocked, lockVars
  <2>6. Names(t)'
    BY <2>1, <2>3, <2>4, GoesOn
  <2>7. /\ ~job[t].failed /\ job[t].op \in Statement /\ job[t].table \in Table
        /\ job[t].auto => states[job[t].txn] = "Active"
    BY <2>1, <2>2 DEF Stands, StatementAt
  <2>8. Stands(t)'
    BY <2>3, <2>4, <2>7 DEF Stands, StatementAt
  <2>9. Owns(t)'
    <3>1. job[t].auto => \A c \in Table : ~StagedIn(job[t].txn, c)
      BY <2>1, <2>2 DEF Owns
    <3>2. UNCHANGED tables
      BY <1>1 DEF storageVars
    <3>3. QED BY <2>3, <2>7, <3>1, <3>2 DEF Owns, StagedIn, VersionsOf
  <2>10. Waits(t)'
    BY <1>1, <2>1, <2>3 DEF Waits, Blocked, lockVars
  <2>11. QED BY <1>1, <2>1, <2>3, <2>4, <2>5, <2>6, <2>8, <2>9, <2>10, QuietStep
<1>4. QED BY <1>1, <1>2, <1>3

-----------------------------------------------------------------------------
(* The statements.                                                         *)

\* What a statement's request becomes: answered, at its auto-commit block, or at
\* the next row to write.
AfterStatement(j, r) ==
    \/ r = Idle /\ ~j.auto
    \/ /\ r \in JobRec
       /\ r.op = j.op /\ r.txn = j.txn /\ r.auto = j.auto /\ r.table = j.table
       /\ \/ r.at = "autoRelease" /\ r.auto
          \/ r.at = "write" /\ r.op \in {"update", "delete"} /\ ~r.failed

LEMMA ExecutedEffect ==
    ASSUME NEW j \in JobRec
    PROVE  /\ Executed(j) \in JobRec \cup {Idle}
           /\ ~j.auto => Executed(j) = Idle
           /\ j.auto => /\ Executed(j) \in JobRec /\ Executed(j).at = "autoRelease"
                        /\ Executed(j).op = j.op /\ Executed(j).txn = j.txn
                        /\ Executed(j).auto = j.auto /\ Executed(j).table = j.table
                        /\ Executed(j).failed = j.failed
BY DEF Executed, JobRec, JobAt

\* A statement writes, if anything, staged versions of its transaction to its
\* table, whose lock it has.
LEMMA StatementStep ==
    ASSUME ApiInv, NEW t \in Thread, NEW l \in {"run", "write"}, At(t, l),
           UNCHANGED lockVars, UNCHANGED <<states, next_id, commit_seq, issued>>,
           StorageTypeOK', visible_seq' = visible_seq,
           \A c \in Table : \A v \in VersionsOf(c)' :
              \/ v \in VersionsOf(c)
              \/ /\ c = job[t].table /\ job[t].op # "select"
                 /\ v.txn = job[t].txn /\ v.seq = 0,
           NEW r \in {Idle} \cup JobRec, job' = [job EXCEPT ![t] = r], AfterStatement(job[t], r),
           r # Idle /\ r.failed => l = "run" /\ UNCHANGED tables
    PROVE  ApiInv'
<1>x. PICK x \in Txn : x = job[t].txn
  BY HandlerRuns
<1>1. /\ job[t].at = l /\ Busy(t) /\ ~Blocked(t) /\ job[t] \in JobRec
      /\ x \in Txn /\ x \in 1..next_id
  BY <1>x, HandlerRuns
<1>2. TxnTypes /\ JobTypes /\ StorageTypeOK /\ Names(t) /\ Stands(t) /\ Owns(t)
  BY DEF ApiInv, Types
<1>3. /\ JobTypes' /\ job'[t] = r /\ (Busy(t)' <=> r # Idle)
      /\ \A u \in Thread \ {t} : job'[u] = job[u]
  BY <1>2, SetJob
<1>4. /\ TxnTypes' /\ StatesKept(x)
      /\ next_id' = next_id /\ commit_seq' >= commit_seq
  BY <1>1, TxnsSame
<1>5. Types'
  BY <1>3, <1>4, LocksSameTypes DEF Types
<1>6. OnlyMoves(t, x)
  <2>1. Busy(t)' => job'[t].txn = job[t].txn
    BY <1>3 DEF AfterStatement
  <2>2. \A u \in Thread \ {t} : (Blocked(u)' <=> Blocked(u)) /\ call'[u] = call[u]
    BY DEF Blocked, lockVars
  <2>3. OnlyMoves(t, job[t].txn)
    BY <1>1, <1>3, <1>4, <2>1, <2>2, RequestMoves
  <2>4. QED BY <1>x, <2>3
<1>7. UNCHANGED held /\ UNCHANGED lockPc /\ UNCHANGED call
  BY DEF lockVars
<1>8. LocksKept(x)
  BY <1>1, <1>7, LocksKeptSame
<1>9. ASSUME NEW y \in Txn, NEW c \in Table, StagedIn(y, c)'
      PROVE  StagedIn(y, c) \/ (y = x /\ c = job[t].table /\ job[t].op # "select")
  <2>1. PICK v \in VersionsOf(c)' : Staged(y, v)
    BY <1>9 DEF StagedIn
  <2>2. QED BY <1>x, <2>1 DEF StagedIn, Staged
<1>10. StagedKept(x)
  BY <1>9 DEF StagedKept
<1>11. Names(t)'
  <2>1. CASE r = Idle
    BY <1>3, <2>1 DEF Names
  <2>2. CASE r # Idle
    BY <1>1, <1>3, <1>4, <2>2, GoesOn DEF AfterStatement
  <2>3. QED BY <2>1, <2>2
<1>12. /\ job[t].op \in Statement /\ job[t].table \in Table
       /\ job[t].auto => states[x] = "Active"
  BY <1>x, <1>1, <1>2 DEF Stands, StatementAt
<1>13. Stands(t)'
  <2>1. CASE r = Idle
    BY <1>3, <2>1 DEF Stands
  <2>2. CASE r # Idle /\ r.at = "autoRelease" /\ r.auto
    BY <1>x, <1>3, <1>12, <2>2 DEF Stands, StatementAt, AfterStatement
  <2>3. CASE r # Idle /\ r.at = "write" /\ r.op \in {"update", "delete"} /\ ~r.failed
    BY <1>x, <1>3, <1>12, <2>3 DEF Stands, StatementAt, AfterStatement
  <2>4. QED BY <2>1, <2>2, <2>3 DEF AfterStatement
<1>14. states[x] = "Active" => /\ Holds(x, job[t].table)
                               /\ job[t].op # "select" => HoldsX(x, job[t].table)
  BY <1>x, <1>1, <1>2 DEF Owns
<1>15. Owns(t)'
  <2>1. CASE r = Idle
    BY <1>3, <2>1 DEF Owns
  <2>2. CASE r # Idle /\ r.at = "autoRelease" /\ r.auto
    <3>1. r.txn = x
      BY <1>x, <2>2 DEF AfterStatement
    <3>2. ASSUME r.failed
          PROVE  \A c \in Table : ~StagedIn(x, c)
      BY <1>x, <1>1, <1>2, <2>2, <3>2 DEF Owns, AfterStatement
    <3>3. ASSUME r.failed
          PROVE  UNCHANGED tables
      BY <2>2, <3>3
    <3>4. QED BY <1>3, <2>2, <3>1, <3>2, <3>3 DEF Owns, StagedIn, VersionsOf
  <2>3. CASE r # Idle /\ r.at = "write" /\ r.op \in {"update", "delete"} /\ ~r.failed
    <3>1. r.txn = x /\ r.table = job[t].table /\ r.op = job[t].op
      BY <1>x, <2>3 DEF AfterStatement
    <3>2. QED BY <1>3, <1>7, <1>14, <2>3, <3>1 DEF Owns, Holds, HoldsX
  <2>4. QED BY <2>1, <2>2, <2>3 DEF AfterStatement
<1>16. Waits(t)'
  <2>1. r.at # "blocked"
    BY DEF AfterStatement, Idle
  <2>2. QED BY <1>1, <1>3, <1>7, <2>1 DEF Waits, Blocked
<1>17. Stamps'
  <2>1. visible_seq \in Nat
    BY <1>2 DEF StorageTypeOK
  <2>2. ASSUME NEW c \in Table, NEW v \in VersionsOf(c)'
        PROVE  /\ v.txn \in 1..next_id'
               /\ v.seq > 0 => states'[v.txn] = "Committed"
               /\ v.seq <= visible_seq'
    <3>1. CASE v \in VersionsOf(c)
      BY <3>1 DEF ApiInv, Stamps
    <3>2. CASE v.txn = x /\ v.seq = 0
      BY <1>1, <1>4, <2>1, <3>2
    <3>3. QED BY <1>x, <3>1, <3>2
  <2>3. QED BY <2>2 DEF ApiInv, Stamps
<1>18. Covers(x)'
  <2>1. ASSUME x \in issued, states[x] = "Active", NEW c \in Table, StagedIn(x, c)
        PROVE  HoldsX(x, c)
    BY <2>1 DEF ApiInv, Covers
  <2>2. QED BY <1>7, <1>9, <1>12, <1>14, <2>1 DEF Covers, Holds, HoldsX
<1>19. Leaves(x)'
  <2>1. CASE r = Idle
    <3>1. x \in issued
      BY <1>x, <1>1, <1>2, <2>1, IdleIsNoRequest DEF AfterStatement, Names
    <3>2. QED BY <3>1 DEF Leaves
  <2>2. CASE r # Idle
    <3>1. Busy(t)' /\ job'[t].txn = x
      BY <1>x, <1>3, <2>2 DEF AfterStatement
    <3>2. QED BY <3>1 DEF Leaves, InFlight, Busy
  <2>3. QED BY <2>1, <2>2
<1>20. QED
  BY <1>4, <1>5, <1>6, <1>8, <1>10, <1>11, <1>13, <1>15, <1>16, <1>17, <1>18, <1>19, Whole

LEMMA SelectKeeps == ASSUME ApiInv, NEW t \in Thread, Select(t) PROVE ApiInv'
<1> DEFINE r == Executed(job[t])
<1>1. At(t, "run") /\ job' = [job EXCEPT ![t] = r] /\ UNCHANGED lockVars
      /\ UNCHANGED <<states, next_id, commit_seq, issued>> /\ UNCHANGED storageVars
  BY DEF Select, txnVars
<1>2. job[t] \in JobRec /\ job[t].at = "run" /\ Busy(t) /\ Stands(t)
  BY <1>1, HandlerRuns DEF ApiInv
<1>3. StorageTypeOK' /\ UNCHANGED tables /\ visible_seq' = visible_seq
  BY <1>1, StorageSameTypes DEF storageVars
<1>4. r \in {Idle} \cup JobRec /\ AfterStatement(job[t], r)
  BY <1>2, ExecutedEffect DEF AfterStatement
<1>5. r # Idle => ~r.failed
  BY <1>2, ExecutedEffect DEF Stands
<1> HIDE DEF r
<1>6. \A c \in Table : VersionsOf(c)' = VersionsOf(c)
  BY <1>3, TablesSame
<1>7. QED BY <1>1, <1>3, <1>4, <1>5, <1>6, StatementStep

LEMMA InsertKeeps == ASSUME ApiInv, NEW t \in Thread, Insert(t) PROVE ApiInv'
<1> DEFINE r == Executed(job[t])
<1>1. At(t, "run") /\ job[t].op = "insert" /\ job' = [job EXCEPT ![t] = r] /\ UNCHANGED lockVars
      /\ UNCHANGED <<states, next_id, commit_seq, issued>>
  BY DEF Insert, txnVars
<1>2. job[t] \in JobRec /\ job[t].at = "run" /\ Busy(t) /\ job[t].txn \in Txn /\ Stands(t) /\ StorageTypeOK
  BY <1>1, HandlerRuns DEF ApiInv, Types
<1>3. job[t].table \in Table
  BY <1>2 DEF Stands, StatementAt
<1>4. PICK k : put(job[t].txn, job[t].table, k) \/ putAuto(job[t].txn, job[t].table)
  BY DEF Insert
<1>5. /\ StorageTypeOK' /\ visible_seq' = visible_seq
      /\ \A c \in Table : \A v \in VersionsOf(c)' :
            v \in VersionsOf(c) \/ (c = job[t].table /\ v.txn = job[t].txn /\ v.seq = 0)
  BY <1>2, <1>3, <1>4, WriteEffect
<1>6. r \in {Idle} \cup JobRec /\ AfterStatement(job[t], r)
  BY <1>2, ExecutedEffect DEF AfterStatement
<1>7. r # Idle => ~r.failed
  BY <1>2, ExecutedEffect DEF Stands
<1> HIDE DEF r
<1>8. QED BY <1>1, <1>5, <1>6, <1>7, StatementStep

LEMMA CollectRowsKeeps == ASSUME ApiInv, NEW t \in Thread, CollectRows(t) PROVE ApiInv'
<1>1. At(t, "run") /\ job[t].op \in {"update", "delete"} /\ UNCHANGED lockVars
      /\ UNCHANGED <<states, next_id, commit_seq, issued>> /\ UNCHANGED storageVars
  BY DEF CollectRows, txnVars
<1>2. job[t] \in JobRec /\ job[t].at = "run" /\ Busy(t) /\ Stands(t)
  BY <1>1, HandlerRuns DEF ApiInv
<1>3. StorageTypeOK' /\ UNCHANGED tables /\ visible_seq' = visible_seq
  BY <1>1, StorageSameTypes DEF storageVars
<1>4. PICK rows \in SUBSET scan(job[t].txn, job[t].table) :
          job' = [job EXCEPT ![t] =
                    IF rows = {} THEN Executed([@ EXCEPT !.failed = TRUE])
                    ELSE [@ EXCEPT !.at = "write", !.todo = rows]]
  BY DEF CollectRows
<1>5. rows \in SUBSET Key
  BY DEF scan
<1> DEFINE f == [job[t] EXCEPT !.failed = TRUE]
           w == [job[t] EXCEPT !.at = "write", !.todo = rows]
           r == IF rows = {} THEN Executed(f) ELSE w
<1>6. job' = [job EXCEPT ![t] = r]
  BY <1>4
<1>7. /\ f \in JobRec /\ f.op = job[t].op /\ f.txn = job[t].txn
      /\ f.auto = job[t].auto /\ f.table = job[t].table
  BY <1>2 DEF JobRec
<1>8. /\ w \in JobRec /\ w.op = job[t].op /\ w.txn = job[t].txn /\ w.at = "write"
      /\ w.auto = job[t].auto /\ w.table = job[t].table /\ w.failed = job[t].failed
  BY <1>2, <1>5 DEF JobRec, JobAt
<1> HIDE DEF f, w
<1>9. ~job[t].failed
  BY <1>2 DEF Stands
<1>10. r \in {Idle} \cup JobRec /\ AfterStatement(job[t], r)
  <2>1. CASE rows = {}
    BY <1>7, <2>1, ExecutedEffect DEF AfterStatement
  <2>2. CASE rows # {}
    BY <1>1, <1>8, <1>9, <2>2 DEF AfterStatement
  <2>3. QED BY <2>1, <2>2
<1> HIDE DEF r
<1>11. \A c \in Table : VersionsOf(c)' = VersionsOf(c)
  BY <1>3, TablesSame
<1>12. QED BY <1>1, <1>3, <1>6, <1>10, <1>11, StatementStep

LEMMA WriteRowKeeps == ASSUME ApiInv, NEW t \in Thread, WriteRow(t) PROVE ApiInv'
<1> DEFINE k == Min(job[t].todo)
           left == job[t].todo \ {k}
           e == [job[t] EXCEPT !.todo = {}]
           w == [job[t] EXCEPT !.todo = left]
           r == IF left = {} THEN Executed(e) ELSE w
<1>1. At(t, "write") /\ UNCHANGED lockVars /\ UNCHANGED <<states, next_id, commit_seq, issued>>
      /\ (put(job[t].txn, job[t].table, k) \/ remove(job[t].txn, job[t].table, k))
      /\ job' = [job EXCEPT ![t] = r]
  BY DEF WriteRow, txnVars
<1>2. job[t] \in JobRec /\ job[t].at = "write" /\ Busy(t) /\ job[t].txn \in Txn /\ Stands(t) /\ StorageTypeOK
  BY <1>1, HandlerRuns DEF ApiInv, Types
<1>3. job[t].table \in Table /\ job[t].op \in {"update", "delete"} /\ ~job[t].failed
  BY <1>2 DEF Stands, StatementAt
<1>4. left \in SUBSET Key
  BY <1>2 DEF JobRec
<1> HIDE DEF k, left
<1>5. /\ StorageTypeOK' /\ visible_seq' = visible_seq
      /\ \A c \in Table : \A v \in VersionsOf(c)' :
            v \in VersionsOf(c) \/ (c = job[t].table /\ v.txn = job[t].txn /\ v.seq = 0)
  BY <1>1, <1>2, <1>3, WriteEffect
<1>6. /\ e \in JobRec /\ e.op = job[t].op /\ e.txn = job[t].txn
      /\ e.auto = job[t].auto /\ e.table = job[t].table /\ e.failed = job[t].failed
  BY <1>2 DEF JobRec
<1>7. /\ w \in JobRec /\ w.op = job[t].op /\ w.txn = job[t].txn /\ w.at = "write"
      /\ w.auto = job[t].auto /\ w.table = job[t].table /\ w.failed = job[t].failed
  BY <1>2, <1>4 DEF JobRec
<1> HIDE DEF e, w
<1>8. /\ r \in {Idle} \cup JobRec /\ AfterStatement(job[t], r)
      /\ r # Idle => ~r.failed
  <2>1. CASE left = {}
    BY <1>3, <1>6, <2>1, ExecutedEffect DEF AfterStatement
  <2>2. CASE left # {}
    BY <1>3, <1>7, <2>2 DEF AfterStatement
  <2>3. QED BY <2>1, <2>2
<1> HIDE DEF r
<1>9. QED BY <1>1, <1>3, <1>5, <1>8, StatementStep

-----------------------------------------------------------------------------
(* The engine's commit and abort.                                          *)

LEMMA StampEngineKeeps == ASSUME ApiInv, NEW t \in Thread, StampEngine(t) PROVE ApiInv'
<1>0. At(t, "stamp") /\ commit(job[t].txn, job[t].seq) /\ UNCHANGED lockVars
      /\ UNCHANGED <<states, next_id, commit_seq>>
      /\ (IF job[t].op = "commit" THEN Goto(t, "release") ELSE Respond(t))
  BY DEF StampEngine, txnVars
<1>x. PICK x \in Txn : x = job[t].txn
  BY <1>0, HandlerRuns
<1>1. /\ job[t].at = "stamp" /\ Busy(t) /\ ~Blocked(t) /\ x \in 1..next_id
  BY <1>x, <1>0, HandlerRuns
<1>2. TxnTypes /\ JobTypes /\ StorageTypeOK /\ Names(t) /\ Stands(t) /\ Owns(t)
  BY DEF ApiInv, Types
<1>3. PICK q \in 1..commit_seq : q = job[t].seq
  BY <1>1, <1>2 DEF Stands
<1>4. /\ states[x] = "Committed" /\ ~job[t].failed
      /\ job[t].op = "commit" \/ job[t].auto
      /\ job[t].op = "commit" => ~job[t].auto /\ x \in issued
      /\ job[t].auto => ~HoldsLock(x)
  BY <1>x, <1>1, <1>2 DEF Stands, Names, Owns, Statement
<1>5. commit_seq \in Nat /\ visible_seq \in Nat /\ q \in Nat /\ q > 0 /\ q <= commit_seq
  BY <1>2 DEF TxnTypes, StorageTypeOK
<1>6. /\ StorageTypeOK'
      /\ visible_seq' >= visible_seq /\ visible_seq' >= q
      /\ visible_seq' \in {visible_seq, q}
      /\ \A c \in Table : \A w \in VersionsOf(c)' :
            \E v \in VersionsOf(c) : /\ w.txn = v.txn
                                     /\ IF Staged(x, v) THEN w.seq = q ELSE w = v
  BY <1>x, <1>0, <1>2, <1>3, <1>5, CommitEffect
<1>7. /\ JobTypes' /\ UNCHANGED issued /\ (\A u \in Thread \ {t} : job'[u] = job[u])
      /\ job[t].op = "commit" => /\ Busy(t)' /\ job'[t].at = "release"
                                 /\ job'[t].op = job[t].op /\ job'[t].txn = x
                                 /\ job'[t].auto = job[t].auto /\ job'[t].failed = job[t].failed
      /\ job[t].op # "commit" => job'[t] = Idle /\ ~Busy(t)'
  <2>1. CASE job[t].op = "commit"
    BY <1>x, <1>0, <1>1, <1>2, <2>1, GotoEffect DEF JobAt
  <2>2. CASE job[t].op # "commit"
    BY <1>0, <1>2, <2>2, RespondEffect
  <2>3. QED BY <2>1, <2>2
<1>8. /\ TxnTypes' /\ StatesKept(x)
      /\ next_id' = next_id /\ commit_seq' >= commit_seq
  BY <1>0, <1>7, TxnsSame
<1>9. Types'
  BY <1>0, <1>6, <1>7, <1>8, LocksSameTypes DEF Types
<1>10. UNCHANGED held /\ UNCHANGED lockPc /\ UNCHANGED call
  BY <1>0 DEF lockVars
<1>11. OnlyMoves(t, x)
  <2>1. Busy(t)' => job'[t].txn = job[t].txn
    BY <1>x, <1>7
  <2>2. \A u \in Thread \ {t} : (Blocked(u)' <=> Blocked(u)) /\ call'[u] = call[u]
    BY <1>10 DEF Blocked
  <2>3. OnlyMoves(t, job[t].txn)
    BY <1>1, <1>7, <1>8, <2>1, <2>2, RequestMoves
  <2>4. QED BY <1>x, <2>3
<1>12. LocksKept(x)
  BY <1>10, LocksKeptSame
<1>13. ASSUME NEW y \in Txn, NEW c \in Table, StagedIn(y, c)'
       PROVE  StagedIn(y, c) /\ y # x
  <2>1. PICK w \in VersionsOf(c)' : Staged(y, w)
    BY <1>13 DEF StagedIn
  <2>2. PICK v \in VersionsOf(c) : /\ w.txn = v.txn
                                   /\ IF Staged(x, v) THEN w.seq = q ELSE w = v
    BY <1>6
  <2>3. ~Staged(x, v)
    BY <1>5, <2>1, <2>2 DEF Staged
  <2>4. QED BY <2>1, <2>2, <2>3 DEF StagedIn, Staged
<1>14. StagedKept(x)
  BY <1>13 DEF StagedKept
<1>15. Names(t)' /\ Stands(t)' /\ Owns(t)' /\ Waits(t)'
  <2>1. ~Blocked(t)'
    BY <1>1, <1>10 DEF Blocked
  <2>2. CASE job[t].op # "commit"
    BY <1>7, <2>1, <2>2, NothingToSay
  <2>3. CASE job[t].op = "commit"
    <3>1. Names(t)'
      BY <1>x, <1>1, <1>7, <1>8, <2>3, GoesOn
    <3>2. Stands(t)'
      BY <1>0, <1>4, <1>7, <2>3 DEF Stands, StatementAt
    <3>3. Owns(t)'
      BY <1>4, <1>7, <2>3 DEF Owns
    <3>4. Waits(t)'
      BY <1>7, <2>1, <2>3 DEF Waits
    <3>5. QED BY <3>1, <3>2, <3>3, <3>4
  <2>4. QED BY <2>2, <2>3
<1>16. Stamps'
  <2>1. ASSUME NEW c \in Table, NEW w \in VersionsOf(c)'
        PROVE  /\ w.txn \in 1..next_id'
               /\ w.seq > 0 => states'[w.txn] = "Committed"
               /\ w.seq <= visible_seq'
    <3>1. PICK v \in VersionsOf(c) : /\ w.txn = v.txn
                                     /\ IF Staged(x, v) THEN w.seq = q ELSE w = v
      BY <1>6
    <3>2. /\ v.txn \in 1..next_id
          /\ v.seq > 0 => states[v.txn] = "Committed"
          /\ v.seq <= visible_seq /\ v.seq \in Nat
      BY <1>2, VersionTypes DEF ApiInv, Stamps
    <3>3. CASE Staged(x, v)
      BY <1>0, <1>4, <1>6, <3>1, <3>2, <3>3 DEF Staged
    <3>4. CASE ~Staged(x, v)
      <4>1. visible_seq' \in Nat
        BY <1>5, <1>6
      <4>2. QED BY <1>0, <1>5, <1>6, <3>1, <3>2, <3>4, <4>1
    <3>5. QED BY <3>3, <3>4
  <2>2. visible_seq' <= commit_seq'
    BY <1>0, <1>5, <1>6 DEF ApiInv, Stamps
  <2>3. QED BY <2>1, <2>2 DEF Stamps
<1>17. Covers(x)'
  BY <1>0, <1>4 DEF Covers
<1>18. Leaves(x)'
  <2>1. CASE job[t].auto
    BY <1>4, <1>10, <1>13, <2>1 DEF Leaves, HoldsLock
  <2>2. CASE ~job[t].auto
    BY <1>4, <1>7, <2>2 DEF Leaves
  <2>3. QED BY <2>1, <2>2
<1>19. QED
  BY <1>8, <1>9, <1>11, <1>12, <1>14, <1>15, <1>16, <1>17, <1>18, Whole

LEMMA RollbackKeeps ==
    ASSUME ApiInv, NEW t \in Thread, NEW x \in issued, Rollback(t, x) PROVE ApiInv'
<1> DEFINE r == Request("rollback", "abortTxn", x, FALSE, "none")
<1>1. At(t, "idle") /\ abort(x) /\ UNCHANGED lockVars /\ UNCHANGED <<states, next_id, commit_seq, issued>>
      /\ job' = [job EXCEPT ![t] = r]
  BY DEF Rollback, Accept, txnVars
<1>2. ~Busy(t) /\ ~Blocked(t)
  BY <1>1, HandlerRuns
<1>3. TxnTypes /\ JobTypes /\ StorageTypeOK /\ x \in Txn /\ x \in 1..next_id
  <2>1. TxnTypes /\ JobTypes /\ StorageTypeOK
    BY DEF ApiInv, Types
  <2>2. QED BY <2>1, TxnIds DEF TxnTypes
<1>4. /\ StorageTypeOK' /\ visible_seq' = visible_seq
      /\ \A c \in Table : \A v \in VersionsOf(c)' : v \in VersionsOf(c) /\ ~Staged(x, v)
  BY <1>1, <1>3, AbortEffect
<1>5. /\ r \in JobRec /\ r # Idle /\ r.txn = x /\ r.at = "abortTxn" /\ r.op = "rollback"
      /\ r.auto = FALSE /\ r.failed = FALSE
  BY <1>3, RequestFields DEF JobAt, Request
<1> HIDE DEF r
<1>6. /\ JobTypes' /\ job'[t] = r /\ Busy(t)'
      /\ \A u \in Thread \ {t} : job'[u] = job[u]
  BY <1>1, <1>3, <1>5, SetJob
<1>7. /\ TxnTypes' /\ StatesKept(x)
      /\ next_id' = next_id /\ commit_seq' >= commit_seq /\ next_id >= next_id
  BY <1>1, <1>3, TxnsSame, TxnIds
<1>8. Types'
  BY <1>1, <1>4, <1>6, <1>7, LocksSameTypes DEF Types
<1>9. UNCHANGED held /\ UNCHANGED lockPc /\ UNCHANGED call
  BY <1>1 DEF lockVars
<1>10. OnlyMoves(t, x)
  BY <1>1, <1>2, <1>5, <1>6, <1>7, <1>9 DEF OnlyMoves, Blocked
<1>11. LocksKept(x)
  BY <1>3, <1>9, LocksKeptSame
<1>12. StagedKept(x)
  BY <1>4 DEF StagedKept, StagedIn
<1>13. Names(t)' /\ Stands(t)' /\ Owns(t)' /\ Waits(t)'
  <2>1. Names(t)'
    BY <1>1, <1>3, <1>5, <1>6 DEF Names
  <2>2. Stands(t)'
    BY <1>5, <1>6 DEF Stands, StatementAt
  <2>3. Owns(t)'
    BY <1>5, <1>6 DEF Owns
  <2>4. Waits(t)'
    BY <1>2, <1>5, <1>6, <1>9 DEF Waits, Blocked
  <2>5. QED BY <2>1, <2>2, <2>3, <2>4
<1>14. Stamps'
  BY <1>1, <1>4 DEF ApiInv, Stamps
<1>15. Covers(x)' /\ Leaves(x)'
  BY <1>1, <1>4 DEF Covers, Leaves, StagedIn
<1>16. QED
  BY <1>3, <1>7, <1>8, <1>10, <1>11, <1>12, <1>13, <1>14, <1>15, Whole

-----------------------------------------------------------------------------
(* Steps of the lock manager.                                              *)

\* A lock step keeps the invariant if it puts its own request right.
LEMMA LockStep ==
    ASSUME ApiInv, UNCHANGED storageVars, UNCHANGED <<states, next_id, commit_seq, issued>>,
           LockTypes', WaiterAccounting', JobTypes', NEW t \in Thread, NEW x \in Txn,
           LocksKept(x), OnlyMoves(t, x),
           Names(t)', Stands(t)', Owns(t)', Waits(t)',
           x \in issued \/ Busy(t)' \/ (~HoldsLock(x)' /\ \A c \in Table : ~StagedIn(x, c))
    PROVE  ApiInv'
<1>1. /\ TxnTypes' /\ StatesKept(x) /\ commit_seq' >= commit_seq /\ next_id' >= next_id
  <2>1. next_id >= next_id
    BY TxnIds DEF ApiInv, Types
  <2>2. QED BY <2>1, TxnsSame
<1>2. Types'
  BY <1>1, StorageSameTypes DEF Types
<1>3. UNCHANGED tables
  BY DEF storageVars
<1>4. StagedKept(x)
  BY <1>3, StagedKeptSame
<1>5. Stamps'
  BY <1>1, StampsSame
<1>6. Covers(x)'
  <2> SUFFICES ASSUME x \in issued, states[x] = "Active", NEW c \in Table, StagedIn(x, c)'
               PROVE  HoldsX(x, c)'
    BY DEF Covers
  <2>1. HoldsX(x, c)
    BY <1>3, TablesSame DEF ApiInv, Covers
  <2>2. QED BY <2>1 DEF LocksKept
<1>7. Leaves(x)'
  BY <1>3, TablesSame DEF Leaves, InFlight, Busy, OnlyMoves
<1>8. QED BY <1>1, <1>2, <1>4, <1>5, <1>6, <1>7, Whole

LEMMA AnyStepTypes ==
    ASSUME ApiInv, AnyStep
    PROVE  LockTypes' /\ WaiterAccounting'
BY LockTypesStep, WaiterAccountingStep DEF ApiInv, Types

LEMMA ReleaseTypes ==
    ASSUME ApiInv, NEW t \in Thread, NEW x \in Txn, release(t, x)
    PROVE  /\ LockTypes' /\ WaiterAccounting' /\ ~Blocked(t)'
           /\ UNCHANGED call /\ \A u \in Thread \ {t} : lockPc'[u] = lockPc[u]
<1>1. ResourceKey \in SUBSET ResourceKey
  OBVIOUS
<1>2. AnyStep
  BY <1>1 DEF AnyStep, release
<1>3. lockPc \in [Thread -> PC] /\ lockPc[t] = "idle"
  BY DEF ApiInv, Types, LockTypes, release, Drop
<1>4. /\ UNCHANGED call
      /\ \E p \in {"idle", "notify"} : lockPc' = [lockPc EXCEPT ![t] = p]
  BY <1>3 DEF release, Drop
<1>5. QED BY <1>2, <1>3, <1>4, AnyStepTypes DEF Blocked

LEMMA ReleaseAndRespondKeeps == ASSUME ApiInv, NEW t \in Thread, ReleaseAndRespond(t) PROVE ApiInv'
<1>0. At(t, "release") /\ release(t, job[t].txn) /\ Respond(t) /\ UNCHANGED storageVars
      /\ UNCHANGED <<states, next_id, commit_seq>>
  BY DEF ReleaseAndRespond, txnVars
<1>x. PICK x \in Txn : x = job[t].txn
  BY <1>0, HandlerRuns
<1>1. job[t].at = "release" /\ Busy(t)
  BY <1>0, HandlerRuns
<1>2. TxnTypes /\ JobTypes /\ LockTypes /\ Names(t) /\ Stands(t) /\ Owns(t)
  BY DEF ApiInv, Types
<1>3. /\ states[x] # "Active"
      /\ x \in issued \/ \A c \in Table : ~StagedIn(x, c)
  BY <1>x, <1>1, <1>2 DEF Stands, Owns, Names
<1>4. /\ LockTypes' /\ WaiterAccounting' /\ ~Blocked(t)'
      /\ UNCHANGED call /\ \A u \in Thread \ {t} : lockPc'[u] = lockPc[u]
  BY <1>x, <1>0, ReleaseTypes
<1>5. /\ JobTypes' /\ ~Busy(t)' /\ job'[t] = Idle
      /\ \A u \in Thread \ {t} : job'[u] = job[u]
      /\ UNCHANGED issued
  BY <1>0, <1>2, RespondEffect
<1>6. LocksKept(x) /\ ~HoldsLock(x)'
  BY <1>x, <1>0, <1>2, <1>3, ReleaseEffect DEF LocksKept
<1>7. OnlyMoves(t, x)
  <2>1. \A u \in Thread \ {t} : (Blocked(u)' <=> Blocked(u)) /\ call'[u] = call[u]
    BY <1>4 DEF Blocked
  <2>2. next_id' = next_id /\ commit_seq' >= commit_seq
    BY <1>0, <1>5, TxnsSame
  <2>3. OnlyMoves(t, job[t].txn)
    BY <1>1, <1>5, <2>1, <2>2, RequestMoves
  <2>4. QED BY <1>x, <2>3
<1>8. Names(t)' /\ Stands(t)' /\ Owns(t)' /\ Waits(t)'
  BY <1>4, <1>5, NothingToSay
<1>9. QED BY <1>0, <1>3, <1>4, <1>5, <1>6, <1>7, <1>8, LockStep

LEMMA AutoReleaseKeeps == ASSUME ApiInv, NEW t \in Thread, AutoRelease(t) PROVE ApiInv'
<1>0. At(t, "autoRelease") /\ release(t, job[t].txn) /\ UNCHANGED storageVars
      /\ UNCHANGED <<states, next_id, commit_seq>>
      /\ (IF job[t].failed THEN Respond(t) ELSE Goto(t, "autoCommit"))
  BY DEF AutoRelease, txnVars
<1>x. PICK x \in Txn : x = job[t].txn
  BY <1>0, HandlerRuns
<1>1. job[t].at = "autoRelease" /\ Busy(t)
  BY <1>0, HandlerRuns
<1>2. TxnTypes /\ JobTypes /\ LockTypes /\ Names(t) /\ Stands(t) /\ Owns(t)
  BY DEF ApiInv, Types
<1>3. /\ job[t].auto /\ x \notin issued /\ states[x] = "Active"
      /\ job[t].op \in Statement /\ job[t].table \in Table
      /\ job[t].failed => \A c \in Table : ~StagedIn(x, c)
  BY <1>x, <1>1, <1>2 DEF Stands, Owns, Names, StatementAt
<1>4. /\ LockTypes' /\ WaiterAccounting' /\ ~Blocked(t)'
      /\ UNCHANGED call /\ \A u \in Thread \ {t} : lockPc'[u] = lockPc[u]
  BY <1>x, <1>0, ReleaseTypes
<1>5. LocksKept(x) /\ ~HoldsLock(x)'
  BY <1>x, <1>0, <1>2, <1>3, ReleaseEffect DEF LocksKept
<1>6. /\ JobTypes' /\ UNCHANGED issued /\ (\A u \in Thread \ {t} : job'[u] = job[u])
      /\ ~job[t].failed => /\ Busy(t)' /\ job'[t].at = "autoCommit"
                           /\ job'[t].op = job[t].op /\ job'[t].txn = x
                           /\ job'[t].auto = job[t].auto /\ job'[t].failed = job[t].failed
                           /\ job'[t].table = job[t].table
      /\ job[t].failed => job'[t] = Idle /\ ~Busy(t)'
  <2>1. CASE ~job[t].failed
    BY <1>x, <1>0, <1>1, <1>2, <2>1, GotoEffect DEF JobAt
  <2>2. CASE job[t].failed
    BY <1>0, <1>2, <2>2, RespondEffect
  <2>3. QED BY <2>1, <2>2
<1>7. /\ OnlyMoves(t, x) /\ next_id' = next_id
  <2>1. \A u \in Thread \ {t} : (Blocked(u)' <=> Blocked(u)) /\ call'[u] = call[u]
    BY <1>4 DEF Blocked
  <2>2. next_id' = next_id /\ commit_seq' >= commit_seq
    BY <1>0, <1>6, TxnsSame
  <2>3. Busy(t)' => job'[t].txn = job[t].txn
    BY <1>x, <1>6
  <2>4. OnlyMoves(t, job[t].txn)
    BY <1>1, <1>6, <2>1, <2>2, <2>3, RequestMoves
  <2>5. QED BY <1>x, <2>2, <2>4
<1>8. Names(t)' /\ Stands(t)' /\ Owns(t)' /\ Waits(t)'
  <2>1. CASE job[t].failed
    BY <1>4, <1>6, <2>1, NothingToSay
  <2>2. CASE ~job[t].failed
    <3>1. Names(t)'
      BY <1>x, <1>1, <1>6, <1>7, <2>2, GoesOn
    <3>2. Stands(t)'
      BY <1>0, <1>3, <1>6, <2>2 DEF Stands, StatementAt
    <3>3. Owns(t)'
      BY <1>5, <1>6, <2>2 DEF Owns, HoldsLock
    <3>4. Waits(t)'
      BY <1>4, <1>6, <2>2 DEF Waits
    <3>5. QED BY <3>1, <3>2, <3>3, <3>4
  <2>3. QED BY <2>1, <2>2
<1>9. QED BY <1>0, <1>3, <1>4, <1>5, <1>6, <1>7, <1>8, LockStep

\* The request of t gets the lock it has asked for or waited for.
LEMMA GrantedRequest ==
    ASSUME ApiInv, UNCHANGED storageVars, UNCHANGED <<states, next_id, commit_seq>>,
           NEW t \in Thread, job[t].at \in {"lock", "blocked"},
           NEW x \in Txn, x = job[t].txn,
           grantableUnlocked(x, <<job[t].table, NoRow>>, ModeOf(job[t].op)),
           grantUnlocked(x, <<job[t].table, NoRow>>, ModeOf(job[t].op)),
           Goto(t, "run"), LockTypes', WaiterAccounting', ~Blocked(t)',
           \A u \in Thread \ {t} : (Blocked(u)' <=> Blocked(u)) /\ call'[u] = call[u]
    PROVE  ApiInv'
<1>1. TxnTypes /\ JobTypes /\ LockTypes /\ Names(t) /\ Stands(t) /\ Owns(t)
  BY DEF ApiInv, Types
<1>2. Busy(t)
  BY <1>1, JobFields
<1>3. /\ job[t].op \in Statement /\ job[t].table \in Table /\ ~job[t].failed
      /\ job[t].auto => states[x] = "Active"
      /\ job[t].auto => \A c \in Table : ~StagedIn(x, c)
  BY <1>1, <1>2 DEF Stands, Owns, StatementAt
<1>4. /\ JobTypes' /\ Busy(t)' /\ job'[t].at = "run"
      /\ job'[t].op = job[t].op /\ job'[t].txn = x
      /\ job'[t].auto = job[t].auto /\ job'[t].table = job[t].table
      /\ job'[t].failed = job[t].failed
      /\ \A u \in Thread \ {t} : job'[u] = job[u]
      /\ UNCHANGED issued
  BY <1>1, <1>2, GotoEffect DEF JobAt
<1>5. PICK m \in LockMode : m = ModeOf(job[t].op)
  BY DEF LockMode, ModeOf
<1>6. PICK tb \in Table : tb = job[t].table
  BY <1>3
<1>7. /\ LocksKept(x) /\ Holds(x, tb)'
      /\ m = "Exclusive" => HoldsX(x, tb)'
  BY <1>1, <1>5, <1>6, GrantEffect DEF LocksKept
<1>8. OnlyMoves(t, x) /\ next_id' = next_id
  <2>1. next_id' = next_id /\ commit_seq' >= commit_seq
    BY <1>4, TxnsSame
  <2>2. OnlyMoves(t, job[t].txn)
    BY <1>2, <1>4, <2>1, RequestMoves
  <2>3. QED BY <2>1, <2>2
<1>9. Names(t)'
  BY <1>2, <1>4, <1>8, GoesOn
<1>10. Stands(t)'
  BY <1>3, <1>4 DEF Stands, StatementAt
<1>11. Owns(t)'
  <2>1. \A c \in Table : StagedIn(x, c)' => StagedIn(x, c)
    BY TablesSame DEF storageVars
  <2>2. Holds(x, tb)' /\ (job[t].op # "select" => HoldsX(x, tb)')
    BY <1>5, <1>7 DEF ModeOf
  <2>3. QED BY <1>3, <1>4, <1>6, <2>1, <2>2 DEF Owns, StagedIn, Holds, HoldsX
<1>12. Waits(t)'
  BY <1>4 DEF Waits
<1>13. QED BY <1>4, <1>7, <1>8, <1>9, <1>10, <1>11, <1>12, LockStep

LEMMA LockTableKeeps == ASSUME ApiInv, NEW t \in Thread, LockTable(t) PROVE ApiInv'
<1>x. PICK x \in Txn : x = job[t].txn
  BY HandlerRuns DEF LockTable
<1> DEFINE k == <<job[t].table, NoRow>>
           m == ModeOf(job[t].op)
           c == [txn |-> x, key |-> k, mode |-> m, bounded |-> TRUE]
<1>0. At(t, "lock") /\ RequestLock(t, c) /\ UNCHANGED storageVars
      /\ UNCHANGED <<states, next_id, commit_seq>>
      /\ Goto(t, IF grantableUnlocked(x, k, m) THEN "run" ELSE "blocked")
  BY <1>x DEF LockTable, tryAcquireKey, txnVars, ModeOf
<1>1. job[t].at = "lock" /\ Busy(t) /\ ~Blocked(t)
  BY <1>0, HandlerRuns
<1>2. TxnTypes /\ JobTypes /\ LockTypes /\ Stands(t) /\ Owns(t)
  BY DEF ApiInv, Types
<1>3. /\ job[t].op \in Statement /\ job[t].table \in Table /\ ~job[t].failed
      /\ job[t].auto => states[x] = "Active"
      /\ job[t].auto => \A d \in Table : ~StagedIn(x, d)
  BY <1>x, <1>1, <1>2 DEF Stands, Owns, StatementAt
<1>4. c \in Call /\ c.txn = x /\ c.key = k /\ c.mode = m
  BY <1>3, TableKey DEF Call, LockMode, ModeOf
<1>5. LockTypes' /\ WaiterAccounting'
  <2> HIDE DEF c
  <2>1. AnyStep
    BY <1>0, <1>4 DEF AnyStep
  <2>2. QED BY <2>1, AnyStepTypes
<1> HIDE DEF c, k, m
<1>6. CASE grantableUnlocked(x, k, m)
  <2>1. grantUnlocked(x, k, m) /\ UNCHANGED <<waiters, lockPc, call>> /\ Goto(t, "run")
    BY <1>0, <1>4, <1>6 DEF RequestLock
  <2>2. ~Blocked(t)' /\ \A u \in Thread \ {t} : (Blocked(u)' <=> Blocked(u)) /\ call'[u] = call[u]
    BY <1>1, <2>1 DEF Blocked
  <2>3. QED BY <1>x, <1>0, <1>1, <1>5, <1>6, <2>1, <2>2, GrantedRequest DEF k, m
<1>7. CASE ~grantableUnlocked(x, k, m)
  <2>1. /\ lockPc' = [lockPc EXCEPT ![t] = "waiting"] /\ call' = [call EXCEPT ![t] = c]
        /\ UNCHANGED held /\ Goto(t, "blocked")
    BY <1>0, <1>4, <1>7 DEF RequestLock
  <2>2. /\ Blocked(t)' /\ call'[t] = c
        /\ \A u \in Thread \ {t} : (Blocked(u)' <=> Blocked(u)) /\ call'[u] = call[u]
    BY <1>2, <2>1 DEF Blocked, LockTypes
  <2>3. /\ JobTypes' /\ Busy(t)' /\ job'[t].at = "blocked"
        /\ job'[t].op = job[t].op /\ job'[t].txn = x
        /\ job'[t].auto = job[t].auto /\ job'[t].table = job[t].table
        /\ job'[t].failed = job[t].failed
        /\ \A u \in Thread \ {t} : job'[u] = job[u]
        /\ UNCHANGED issued
    BY <1>x, <1>1, <1>2, <2>1, GotoEffect DEF JobAt
  <2>4. OnlyMoves(t, x) /\ next_id' = next_id
    <3>1. next_id' = next_id /\ commit_seq' >= commit_seq
      BY <1>0, <2>3, TxnsSame
    <3>2. OnlyMoves(t, job[t].txn)
      BY <1>x, <1>1, <2>2, <2>3, <3>1, RequestMoves
    <3>3. QED BY <1>x, <3>1, <3>2
  <2>5. LocksKept(x)
    BY <2>1, LocksKeptSame
  <2>6. Names(t)'
    BY <1>x, <1>1, <2>3, <2>4, GoesOn
  <2>7. Stands(t)'
    BY <1>0, <1>3, <2>3 DEF Stands, StatementAt
  <2>8. Owns(t)'
    <3>1. UNCHANGED tables
      BY <1>0 DEF storageVars
    <3>2. QED BY <1>3, <2>3, <3>1 DEF Owns, StagedIn, VersionsOf
  <2>9. Waits(t)'
    BY <1>x, <1>4, <2>2, <2>3 DEF Waits, k, m
  <2>10. QED BY <1>0, <1>5, <2>3, <2>4, <2>5, <2>6, <2>7, <2>8, <2>9, LockStep
<1>8. QED BY <1>6, <1>7

\* What is known of a request that is blocked.
LEMMA BlockedRequest ==
    ASSUME ApiInv, NEW t \in Thread, job[t].at = "blocked"
    PROVE  /\ Busy(t) /\ Blocked(t) /\ job[t].txn \in Txn
           /\ call[t].txn = job[t].txn /\ call[t].key = <<job[t].table, NoRow>>
           /\ call[t].mode = ModeOf(job[t].op) /\ call[t] # NoCall
           /\ LockTypes /\ JobTypes /\ Names(t) /\ Stands(t) /\ Owns(t)
<1>1. LockTypes /\ JobTypes /\ Names(t) /\ Stands(t) /\ Owns(t) /\ Waits(t)
  BY DEF ApiInv, Types
<1>2. Busy(t) /\ job[t].txn \in Txn
  BY <1>1, JobFields
<1>3. QED BY <1>1, <1>2 DEF Waits, LockTypes

\* A lock step that changes only who sleeps and who is awake.
LEMMA WakeupKeeps ==
    ASSUME ApiInv, AnyStep, UNCHANGED <<held, call, storageVars>>,
           \A u \in Thread : Blocked(u)' <=> Blocked(u),
           UNCHANGED txnVars, UNCHANGED httpVars
    PROVE  ApiInv'
<1>1. /\ UNCHANGED <<held, call>> /\ UNCHANGED <<tables, auto_id, visible_seq>>
      /\ UNCHANGED <<states, next_id, commit_seq>> /\ UNCHANGED <<job, issued, asked>>
  BY DEF storageVars, txnVars, httpVars
<1>2. Types'
  BY <1>1, AnyStepTypes, StorageSameTypes DEF ApiInv, Types, TxnTypes, JobTypes
<1>3. ASSUME NEW t \in Thread
      PROVE  Names(t)' /\ Stands(t)' /\ Owns(t)' /\ Waits(t)'
  <2>1. Names(t) /\ Stands(t) /\ Owns(t) /\ Waits(t)
    BY DEF ApiInv
  <2>2. Names(t)'
    BY <1>1, <2>1 DEF Names, Busy
  <2>3. Stands(t)'
    BY <1>1, <2>1 DEF Stands, Busy
  <2>4. Owns(t)'
    BY <1>1, <2>1 DEF Owns, Busy, Holds, HoldsX, HoldsLock, StagedIn, VersionsOf
  <2>5. Waits(t)'
    BY <1>1, <2>1 DEF Waits
  <2>6. QED BY <2>2, <2>3, <2>4, <2>5
<1>4. Stamps'
  BY <1>1 DEF ApiInv, Stamps, VersionsOf
<1>5. ASSUME NEW x \in Txn
      PROVE  Covers(x)' /\ Leaves(x)'
  <2>1. Covers(x) /\ Leaves(x)
    BY DEF ApiInv
  <2>2. Covers(x)'
    BY <1>1, <2>1 DEF Covers, Holds, HoldsX, StagedIn, VersionsOf
  <2>3. Leaves(x)'
    BY <1>1, <2>1 DEF Leaves, InFlight, HoldsLock, StagedIn, VersionsOf
  <2>4. QED BY <2>2, <2>3
<1>6. QED BY <1>2, <1>3, <1>4, <1>5 DEF ApiInv

LEMMA WaitForLockKeeps == ASSUME ApiInv, NEW t \in Thread, WaitForLock(t) PROVE ApiInv'
<1>0. job[t].at = "blocked" /\ UNCHANGED storageVars /\ UNCHANGED txnVars
      /\ UNCHANGED <<states, next_id, commit_seq>>
  BY DEF WaitForLock, txnVars
<1>1. /\ Busy(t) /\ Blocked(t) /\ job[t].txn \in Txn
      /\ call[t].txn = job[t].txn /\ call[t].key = <<job[t].table, NoRow>>
      /\ call[t].mode = ModeOf(job[t].op) /\ call[t] # NoCall /\ LockTypes
  BY <1>0, BlockedRequest
<1>2. ASSUME SpuriousWakeup(t), UNCHANGED httpVars PROVE ApiInv'
  <2>1. AnyStep
    BY <1>2 DEF AnyStep
  <2>2. /\ UNCHANGED held /\ UNCHANGED call
        /\ \A u \in Thread : Blocked(u)' <=> Blocked(u)
    BY <1>1, <1>2 DEF SpuriousWakeup, Blocked, LockTypes
  <2>3. QED BY <1>0, <1>2, <2>1, <2>2, WakeupKeeps
<1>3. ASSUME Recheck(t), IF call'[t] = NoCall THEN Goto(t, "run") ELSE UNCHANGED httpVars
      PROVE  ApiInv'
  <2>1. AnyStep
    BY <1>3 DEF AnyStep
  <2> DEFINE g == grantableUnlocked(call[t].txn, call[t].key, call[t].mode)
  <2>2. CASE ~g
    <3>1. /\ lockPc' = [lockPc EXCEPT ![t] = "waiting"] /\ UNCHANGED held /\ UNCHANGED call
          /\ lockPc[t] = "woken"
      BY <1>3, <2>2 DEF Recheck
    <3>2. \A u \in Thread : Blocked(u)' <=> Blocked(u)
      BY <1>1, <3>1 DEF Blocked, LockTypes
    <3>3. UNCHANGED httpVars
      BY <1>1, <1>3, <3>1
    <3>4. QED BY <1>0, <2>1, <3>1, <3>2, <3>3, WakeupKeeps
  <2>3. CASE g
    <3>1. grantUnlocked(call[t].txn, call[t].key, call[t].mode) /\ Return(t)
      BY <1>3, <2>3 DEF Recheck
    <3>2. /\ ~Blocked(t)' /\ call'[t] = NoCall
          /\ \A u \in Thread \ {t} : (Blocked(u)' <=> Blocked(u)) /\ call'[u] = call[u]
      BY <1>1, <3>1 DEF Return, Blocked, LockTypes
    <3>3. Goto(t, "run")
      BY <1>3, <3>2
    <3>4. LockTypes' /\ WaiterAccounting'
      BY <2>1, AnyStepTypes
    <3>5. /\ grantableUnlocked(job[t].txn, <<job[t].table, NoRow>>, ModeOf(job[t].op))
          /\ grantUnlocked(job[t].txn, <<job[t].table, NoRow>>, ModeOf(job[t].op))
      BY <1>1, <2>3, <3>1
    <3>6. QED BY <1>0, <1>1, <3>2, <3>3, <3>4, <3>5, GrantedRequest
  <2>4. QED BY <2>2, <2>3
<1>4. QED BY <1>2, <1>3 DEF WaitForLock

LEMMA LockTimesOutKeeps == ASSUME ApiInv, NEW t \in Thread, LockTimesOut(t) PROVE ApiInv'
<1>0. job[t].at = "blocked" /\ TimeOut(t) /\ Goto(t, "abortTxn") /\ UNCHANGED storageVars
      /\ UNCHANGED <<states, next_id, commit_seq>>
  BY DEF LockTimesOut, txnVars
<1>1. /\ Busy(t) /\ Blocked(t) /\ job[t].txn \in Txn
      /\ LockTypes /\ JobTypes /\ Stands(t) /\ Owns(t)
  BY <1>0, BlockedRequest
<1>x. PICK x \in Txn : x = job[t].txn
  BY <1>1
<1>2. LockTypes' /\ WaiterAccounting'
  <2>1. AnyStep
    BY <1>0 DEF AnyStep
  <2>2. QED BY <2>1, AnyStepTypes
<1>3. UNCHANGED held /\ Return(t)
  BY <1>0 DEF TimeOut
<1>4. /\ ~Blocked(t)'
      /\ \A u \in Thread \ {t} : (Blocked(u)' <=> Blocked(u)) /\ call'[u] = call[u]
  BY <1>1, <1>3 DEF Return, Blocked, LockTypes
<1>5. /\ JobTypes' /\ Busy(t)' /\ job'[t].at = "abortTxn"
      /\ job'[t].op = job[t].op /\ job'[t].txn = x
      /\ job'[t].auto = job[t].auto /\ job'[t].table = job[t].table
      /\ job'[t].failed = job[t].failed
      /\ \A u \in Thread \ {t} : job'[u] = job[u]
      /\ UNCHANGED issued
  BY <1>x, <1>0, <1>1, GotoEffect DEF JobAt
<1>6. OnlyMoves(t, x) /\ next_id' = next_id
  <2>1. next_id' = next_id /\ commit_seq' >= commit_seq
    BY <1>0, <1>5, TxnsSame
  <2>2. OnlyMoves(t, job[t].txn)
    BY <1>x, <1>1, <1>4, <1>5, <2>1, RequestMoves
  <2>3. QED BY <1>x, <2>1, <2>2
<1>7. LocksKept(x)
  BY <1>3, LocksKeptSame
<1>8. Names(t)'
  BY <1>x, <1>1, <1>5, <1>6, GoesOn
<1>9. ~job[t].failed /\ (job[t].auto => \A c \in Table : ~StagedIn(x, c))
  BY <1>x, <1>0, <1>1 DEF Stands, Owns
<1>10. Stands(t)'
  BY <1>5, <1>9 DEF Stands, StatementAt
<1>11. Owns(t)'
  <2>1. UNCHANGED tables
    BY <1>0 DEF storageVars
  <2>2. QED BY <1>5, <1>9, <2>1 DEF Owns, StagedIn, VersionsOf
<1>12. Waits(t)'
  BY <1>4, <1>5 DEF Waits
<1>13. QED BY <1>0, <1>2, <1>5, <1>6, <1>7, <1>8, <1>10, <1>11, <1>12, LockStep

LEMMA NotifyKeeps == ASSUME ApiInv, NEW t \in Thread, Notify(t) PROVE ApiInv'
<1>1. NotifyAll(t) /\ UNCHANGED storageVars /\ UNCHANGED txnVars /\ UNCHANGED httpVars
  BY DEF Notify
<1>2. AnyStep
  BY <1>1 DEF AnyStep
<1>3. LockTypes
  BY DEF ApiInv, Types
<1>4. UNCHANGED held /\ UNCHANGED call /\ \A u \in Thread : Blocked(u)' <=> Blocked(u)
  BY <1>1, <1>3 DEF NotifyAll, Blocked, LockTypes
<1>5. QED BY <1>1, <1>2, <1>4, WakeupKeeps

-----------------------------------------------------------------------------
(* The theorems.                                                           *)

LEMMA ApiInit == Init => ApiInv
<1> SUFFICES ASSUME Init PROVE ApiInv
  OBVIOUS
<1>1. /\ LockInit /\ job = [t \in Thread |-> Idle] /\ issued = {}
      /\ tables = [tb \in Table |-> [k \in Key |-> <<>>]]
      /\ auto_id = [tb \in Table |-> 0] /\ visible_seq = 0
      /\ states = [x \in Txn |-> "NotFound"] /\ next_id = 0 /\ commit_seq = 0
  BY DEF Init, StorageInit, TxnInit
<1>2. LockTypes /\ WaiterAccounting
  <2>1. LockTypes
    BY <1>1, NoCallAssumption DEF LockInit, LockTypes, NoLock, Lock, LockMode, PC, Blocked
  <2>2. ASSUME NEW k \in ResourceKey, NEW x \in Txn
        PROVE  waiters[k][x] = Cardinality(BlockedOn(k, x))
    <3>1. BlockedOn(k, x) = {}
      BY <1>1 DEF LockInit, BlockedOn, Blocked
    <3>2. QED BY <1>1, <3>1, FS_EmptySet DEF LockInit
  <2>3. QED BY <2>1, <2>2 DEF WaiterAccounting
<1>3. StorageTypeOK
  <2>1. <<>> \in Seq(Version) /\ 0 \in 0..MaxKey
    BY KeyAssumption
  <2>2. QED BY <1>1, <2>1 DEF StorageTypeOK
<1>4. TxnTypes /\ JobTypes
  BY <1>1, TxnAssumption DEF TxnTypes, TxnState, JobTypes
<1>5. \A tb \in Table : VersionsOf(tb) = {}
  <2> SUFFICES ASSUME NEW tb \in Table, NEW v \in VersionsOf(tb)
               PROVE  FALSE
    OBVIOUS
  <2>1. PICK k \in Key : \E i \in DOMAIN tables[tb][k] : v = tables[tb][k][i]
    BY VersionAt
  <2>2. tables[tb][k] = <<>>
    BY <1>1
  <2>3. QED BY <2>1, <2>2
<1>6. \A t \in Thread : Names(t) /\ Stands(t) /\ Owns(t) /\ Waits(t)
  BY <1>1 DEF Names, Stands, Owns, Waits, Busy, Idle, LockInit, Blocked
<1>7. Stamps
  BY <1>1, <1>5 DEF Stamps
<1>8. \A x \in Txn : Covers(x) /\ Leaves(x)
  BY <1>1, <1>5 DEF Covers, Leaves, StagedIn, HoldsLock, LockInit, NoLock
<1>9. QED BY <1>2, <1>3, <1>4, <1>6, <1>7, <1>8 DEF ApiInv, Types

LEMMA ApiStep == ApiInv /\ [Next]_vars => ApiInv'
<1> SUFFICES ASSUME ApiInv, Next \/ UNCHANGED vars PROVE ApiInv'
  OBVIOUS
<1>1. CASE UNCHANGED vars
  BY <1>1, NothingMoves DEF vars
<1>2. ASSUME NEW t \in Thread, Work(t) PROVE ApiInv'
  BY <1>2, ReadSeqKeeps, StampEngineKeeps, AbortTxnKeeps, ReleaseAndRespondKeeps,
     DetectCycleKeeps, LockTableKeeps, SelectKeeps, InsertKeeps, CollectRowsKeeps,
     WriteRowKeeps, AutoReleaseKeeps, AutoCommitKeeps
     DEF Work
<1>3. CASE Next
  BY <1>2, <1>3, BeginKeeps, CommitKeeps, RollbackKeeps, QueryAutoKeeps, QueryKeeps,
     WaitForLockKeeps, LockTimesOutKeeps, NotifyKeeps
     DEF Next
<1>4. QED BY <1>1, <1>3

LEMMA ApiInvariant == Spec => []ApiInv
BY ApiInit, ApiStep, PTL DEF Spec

\* No write is visible to others unless its transaction is Committed: a stamp
\* follows a commitTxn that succeeded, and Committed is never left (OnlyCommittedVisible).
THEOREM OnlyCommittedVisibleHolds == Spec => []OnlyCommittedVisible
<1>1. ApiInv => OnlyCommittedVisible
  BY VersionsByTable DEF ApiInv, Stamps, OnlyCommittedVisible
<1>2. QED BY <1>1, ApiInvariant, PTL

\* A stamp is within what its readers have reached, and that within what the
\* transaction manager has issued (StampsWithinSeq).
THEOREM StampsWithinSeqHolds == Spec => []StampsWithinSeq
<1>1. ApiInv => StampsWithinSeq
  BY VersionsByTable DEF ApiInv, Stamps, StampsWithinSeq
<1>2. QED BY <1>1, ApiInvariant, PTL

\* The staged writes of an Active transaction of a client are under its Exclusive
\* lock, from the statement that wrote them to the end of the transaction, whatever
\* other requests of the same transaction do (WritesUnderLock).
THEOREM WritesUnderLockHolds == Spec => []WritesUnderLock
<1>1. ASSUME ApiInv PROVE WritesUnderLock
  <2> SUFFICES ASSUME NEW x \in issued, NEW tb \in Table, states[x] = "Active",
                      \E k \in Key : \E v \in Range(tables[tb][k]) : Staged(x, v)
               PROVE  x \in held[<<tb, NoRow>>].holders /\ held[<<tb, NoRow>>].mode = "Exclusive"
    BY DEF WritesUnderLock
  <2>1. StagedIn(x, tb)
    BY DEF StagedIn, VersionsOf
  <2>2. x \in Txn
    BY <1>1, TxnIds DEF ApiInv, Types
  <2>3. HoldsX(x, tb)
    BY <1>1, <2>1, <2>2 DEF ApiInv, Covers
  <2>4. QED BY <2>3 DEF HoldsX, Holds
<1>2. QED BY <1>1, ApiInvariant, PTL

\* An auto-commit statement that was answered, on whatever path, has left no lock,
\* no waiter record and no staged version (AutoCommitLeavesNothing).
THEOREM AutoCommitLeavesNothingHolds == Spec => []AutoCommitLeavesNothing
<1>1. ASSUME ApiInv PROVE AutoCommitLeavesNothing
  <2> SUFFICES ASSUME NEW x \in Txn \ issued, ~InFlight(x)
               PROVE  /\ ~HoldsLock(x) /\ WaitTables(x) = {}
                      /\ \A v \in Versions : ~Staged(x, v)
    BY DEF AutoCommitLeavesNothing
  <2>1. ~HoldsLock(x) /\ \A tb \in Table : ~StagedIn(x, tb)
    BY <1>1 DEF ApiInv, Leaves
  <2>2. \A v \in Versions : ~Staged(x, v)
    BY <2>1, VersionsByTable DEF StagedIn
  <2>3. ASSUME NEW k \in ResourceKey
        PROVE  waiters[k][x] = 0
    <3>1. ASSUME NEW t \in Thread, Blocked(t)
          PROVE  call[t].txn # x
      <4>1. job[t].at = "blocked"
        BY <1>1, <3>1 DEF ApiInv, Waits
      <4>2. Busy(t) /\ call[t].txn = job[t].txn
        BY <1>1, <4>1, BlockedRequest
      <4>3. QED BY <4>2 DEF InFlight, Busy
    <3>2. BlockedOn(k, x) = {}
      BY <3>1 DEF BlockedOn
    <3>3. QED BY <1>1, <3>2, FS_EmptySet DEF ApiInv, Types, WaiterAccounting
  <2>4. WaitTables(x) = {}
    BY <2>3 DEF WaitTables
  <2>5. QED BY <2>1, <2>2, <2>4
<1>2. QED BY <1>1, ApiInvariant, PTL

\* The waiter records stay exact for this caller too, who may use one transaction
\* from several threads at once (WaiterAccounting).
THEOREM ApiWaiterAccounting == Spec => []WaiterAccounting
<1>1. ApiInv => WaiterAccounting
  BY DEF ApiInv, Types
<1>2. QED BY <1>1, ApiInvariant, PTL
=============================================================================
