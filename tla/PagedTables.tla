----------------------------- MODULE PagedTables -----------------------------
(***************************************************************************)
(* The pages under LocalFileStorageProvider.hpp: its B+ trees, the page    *)
(* allocator they share, the header page and the roots in the metadata     *)
(* page.  Each action is one call of the provider, which holds mutex_ for  *)
(* the whole of it.  What a transaction sees is in EngineLoop; here it is  *)
(* where entries and pages are.                                            *)
(*                                                                         *)
(* A call may leave by an exception of its tree; the provider stays in use *)
(* (runSession catches it).  The process is closed or killed between calls,*)
(* and another one opens the file.                                         *)
(***************************************************************************)
EXTENDS OpenDB, BTree

CONSTANTS
    MaxKey,         \* bound: keys are 1..MaxKey
    MaxCalls,       \* bound: calls in a run
    MaxLife,        \* bound: processes in a run
    LastKill        \* bound: the last process that may be killed

ASSUME BoundsAssumption == {MaxKey, MaxCalls, MaxLife, LastKill} \subseteq Nat

VARIABLES
    pager,          \* the pager and the file's page 0 and data pages
    root,           \* table -> root_page_id_ of its tree, 0 without one
    info,           \* table -> tables_[t].rootPageId
    page1,          \* table -> root in the metadata page
    proc,           \* "up", or how the last process ended
    life,           \* how many processes there have been
    seq,            \* the last sequence a commit was given
    calls,          \* how many calls there have been
    log,            \* table -> the entries put accepted
    astray,         \* the tables whose root is not the top of their tree
    leaked          \* whether pages may have been lost

treeVars == <<pager, root, info, log, astray, leaked>>
vars == <<treeVars, page1, proc, life, seq, calls>>

Key == 1..MaxKey
Tables == {tb \in Table : root[tb] # 0}

Tree(tb) == [pager |-> pager, root |-> root[tb], log |-> log[tb], threw |-> FALSE]

Call ==
    /\ proc = "up" /\ calls < MaxCalls
    /\ calls' = calls + 1
    /\ UNCHANGED <<proc, life>>

\* A new file that open has just given its metadata page.
Init ==
    /\ pager = NewPager
    /\ root = [tb \in Table |-> 0] /\ info = root /\ page1 = info
    /\ proc = "up" /\ life = 1
    /\ seq = 0 /\ calls = 0
    /\ log = [tb \in Table |-> EmptyBag]
    /\ astray = {} /\ leaked = FALSE

-----------------------------------------------------------------------------
CreateTable(tb) ==
    LET t == createNew(pager) IN
    /\ Call
    /\ tb \notin Tables
    /\ pager' = t.pager
    /\ root' = [root EXCEPT ![tb] = t.root]
    /\ info' = [info EXCEPT ![tb] = t.root]
    /\ page1' = info'
    /\ UNCHANGED <<seq, log, astray, leaked>>

\* The pages that a tree has lost the way to are lost with it.
DropTable(tb) ==
    /\ Call
    /\ tb \in Tables
    /\ pager' = freeAllPages(Tree(tb))
    /\ root' = [root EXCEPT ![tb] = 0]
    /\ info' = [info EXCEPT ![tb] = 0]
    /\ page1' = info'
    /\ log' = [log EXCEPT ![tb] = EmptyBag]
    /\ astray' = astray \ {tb}
    /\ leaked' = (leaked \/ tb \in astray)
    /\ UNCHANGED seq

Entry(k, x, dead) == [key |-> k, seq |-> 0, txn |-> x, tombstone |-> dead]

\* What a staged entry does to its tree.
PutEntry(tb, t) ==
    /\ Call
    /\ tb \in Tables
    /\ pager' = t.pager
    /\ root' = [root EXCEPT ![tb] = t.root]
    /\ log' = [log EXCEPT ![tb] = t.log]
    /\ astray' = IF t.threw THEN astray \cup {tb} ELSE astray
    /\ leaked' = (leaked \/ t.threw)
    /\ UNCHANGED <<page1, seq>>

PutRow(x, tb, k) ==
    LET t == put(Tree(tb), Entry(k, x, FALSE)) IN
    /\ PutEntry(tb, t)
    /\ info' = IF t.threw THEN info ELSE [info EXCEPT ![tb] = t.root]

\* remove does not call syncRoot.
RemoveRow(x, tb, k) ==
    /\ PutEntry(tb, put(Tree(tb), Entry(k, x, TRUE)))
    /\ UNCHANGED info

\* commit of x in one tree: what scanAll finds of it, put again with the sequence.
\* After an exception nothing more happens.
CommitTree(t, x, s) ==
    LET staged == SelectSeq(scanAll(t), LAMBDA e : e.seq = 0 /\ e.txn = x)
    IN  FoldLeft(LAMBDA u, e : IF u.threw THEN u ELSE put(u, [e EXCEPT !.seq = s]), t, staged)

\* The trees of order[1], order[2], ... after the commit of x in each of them.
CommitTrees(x, s, order) ==
    LET step(done, tb) ==
            IF \E d \in Range(done) : d.threw THEN done
            ELSE LET p == IF done = <<>> THEN pager ELSE Last(done).pager
                 IN  Append(done, CommitTree([Tree(tb) EXCEPT !.pager = p], x, s))
    IN  FoldLeft(step, <<>>, order)

\* The order of the tables is that of a hash map.
Commit(x) ==
    \E order \in SetToSeqs(Tables) :
        LET done == CommitTrees(x, seq + 1, order)
            threw == \E d \in Range(done) : d.threw
            at(tb) == CHOOSE i \in DOMAIN order : order[i] = tb
            Reached(tb) == tb \in Tables /\ at(tb) \in DOMAIN done
        IN  /\ Call
            /\ done # <<>>
            /\ seq' = seq + 1
            /\ pager' = Last(done).pager
            /\ root' = [tb \in Table |-> IF Reached(tb) THEN done[at(tb)].root ELSE root[tb]]
            /\ log' = [tb \in Table |-> IF Reached(tb) THEN done[at(tb)].log ELSE log[tb]]
            /\ info' = [tb \in Table |-> IF Reached(tb) /\ ~done[at(tb)].threw
                                         THEN root'[tb] ELSE info[tb]]
            /\ astray' = astray \cup {tb \in Tables : Reached(tb) /\ done[at(tb)].threw}
            /\ page1' = IF threw THEN page1 ELSE info'
            /\ leaked' = (leaked \/ threw)

-----------------------------------------------------------------------------
(* The end of a process and the next one.                                  *)

Close ==
    /\ proc = "up" /\ life < MaxLife
    /\ proc' = "closed"
    /\ page1' = info
    /\ pager' = flushHeader(pager)
    /\ leaked' = (leaked \/ Len(saveFreeRuns(pager.free)) > kMaxPersistedRuns)
    /\ UNCHANGED <<root, info, life, seq, calls, log, astray>>

Kill ==
    /\ proc = "up" /\ life < MaxLife /\ life <= LastKill
    /\ proc' = "killed"
    /\ leaked' = TRUE
    /\ UNCHANGED <<pager, page1, root, info, life, seq, calls, log, astray>>

Open ==
    /\ proc # "up"
    /\ proc' = "up" /\ life' = life + 1
    /\ pager' = loadHeader(pager)
    /\ root' = page1 /\ info' = page1
    /\ astray' = astray \cup {tb \in Table : page1[tb] # root[tb]}
    /\ leaked' = (leaked \/ page1 # root)
    /\ UNCHANGED <<page1, seq, calls, log>>

Next ==
    \/ \E tb \in Table : CreateTable(tb) \/ DropTable(tb)
    \/ \E x \in Txn, tb \in Table, k \in Key : PutRow(x, tb, k) \/ RemoveRow(x, tb, k)
    \/ \E x \in Txn : Commit(x)
    \/ Close \/ Kill \/ Open

Spec == Init /\ [][Next]_vars

-----------------------------------------------------------------------------
(* Properties.                                                             *)

NodePages(tb) == {root[tb]} \cup Range(Children(Tree(tb), root[tb]))
Owned(tb) == IF tb \in Tables THEN NodePages(tb) \cup Range(LeafChain(Tree(tb))) ELSE {}

LeafEntries(tb, id) == Range(Node(Tree(tb), id).entries)
HoldingLeaves(tb, k) ==
    {id \in Range(LeafChain(Tree(tb))) : \E e \in LeafEntries(tb, id) : e.key = k}

\* The leaf chain that scan, scanAll and so commit go through has every entry that
\* put ever accepted, once for each time, whatever was split, dropped, closed or
\* killed since, and whether or not the root still finds it.
ScanAllComplete == \A tb \in Tables : ToBag(scanAll(Tree(tb))) = log[tb]

\* As long as a tree has its root: keys ascend along the chain, and a key that has
\* entries has one in the leaf it is routed to.
RoutingAgrees ==
    \A tb \in Tables \ astray :
        LET keys == [i \in DOMAIN scanAll(Tree(tb)) |-> scanAll(Tree(tb))[i].key]
        IN  /\ IsSorted(keys, <=)
            /\ \A k \in Range(keys) : findLeaf(Tree(tb), k) \in HoldingLeaves(tb, k)

Versions(tb, k) == {e \in Range(scanAll(Tree(tb))) : e.key = k}
Staged(tb, k, x) == {e \in Versions(tb, k) : e.seq = 0 /\ e.txn = x}

\* No page has two uses: it is in one tree, or in one free run, and never page 0
\* or 1.  A free run that a process restores has no page of a tree.
NoDoubleOwner ==
    proc = "up" =>
        /\ \A tb \in Tables : Owned(tb) \cap (FreePages(pager.free) \cup {0, 1}) = {}
        /\ \A tb, uc \in Tables : tb # uc => Owned(tb) \cap Owned(uc) = {}
        /\ \A j, k \in Class : \A r \in Range(pager.free[j]), s \in Range(pager.free[k]) :
              <<j, r>> # <<k, s>> => Run(r, j) \cap Run(s, k) = {}

\* Pages are lost only by a kill, an exception, a root that was not saved, or free
\* runs that page 0 has no room for; otherwise each is in a tree or free.
NoLeak ==
    proc = "up" /\ ~leaked =>
        2..(pager.count - 1) = FreePages(pager.free) \cup UNION {Owned(tb) : tb \in Table}

\* "free pages leak safely, exactly as after a crash before close()": the process
\* after one that was killed finds no page of a tree in the free runs of page 0.
CrashOnlyLeaks ==
    proc = "up" => FreePages(pager.free) \cap UNION {Owned(tb) : tb \in Table} = {}

-----------------------------------------------------------------------------
(* Comments of the code that do not hold: no run checks them.             *)

\* "If `txn` has staged a version (commitSeq == 0 && txnId == txn), it wins"
\* (BTree.hpp:75): as long as x has not committed, get shows x its own write.  A
\* staged entry comes behind the committed ones of its key, and get stops at those.
OwnWriteWins ==
    \A tb \in Tables \ astray, k \in Key, x \in Txn :
        /\ Staged(tb, k, x) # {}
        /\ \A e \in Versions(tb, k) : e.txn = x => e.seq = 0
        => get(Tree(tb), k, x, seq) = Staged(tb, k, x)

\* "Otherwise, return newest committed version with commitSeq <= visible_seq"
\* (BTree.hpp:76).  get looks at the leaf that the key is routed to, and a split may
\* have left the newest version in the leaf before it.
GetFindsNewest ==
    \A tb \in Tables \ astray, k \in Key, x \in Txn, s \in 0..seq :
        LET committed == {e \in Versions(tb, k) : e.seq \in 1..s}
        IN  Staged(tb, k, x) = {} =>
                get(Tree(tb), k, x, s) = {e \in committed : \A d \in committed : d.seq <= e.seq}
=============================================================================
