--------------------------- MODULE DeadlockDetector ---------------------------
(***************************************************************************)
(* detectCycle of includes/opendb/core/DeadlockDetector.hpp: a walk along  *)
(* one chain of the wait-for graph, from origin's table to a holder that   *)
(* waits, to its table, and so on.  Each query of the lock manager takes   *)
(* the mutex by itself, so the walk of one thread interleaves with         *)
(* everything: each of its queries is a step, and the holders it iterates  *)
(* over are a copy.                                                        *)
(***************************************************************************)
EXTENDS LockManager

CONSTANT kMaxHops  \* bound on the chain (1024 in the code)

VARIABLE walk      \* thread -> where its walk is

detectorVars == <<walk>>

\* No walk; about to ask for the holders of table; holders left to look at.
NoWalk == [at |-> "none"]
HoldersOf(tb, hops) == [at |-> "holders", table |-> tb, hops |-> hops]
Visiting(left, hops) == [at |-> "visit", left |-> left, hops |-> hops]

Walk == {NoWalk}
        \cup {HoldersOf(tb, n) : tb \in Table, n \in 0..kMaxHops}
        \cup {Visiting(s, n) : s \in SUBSET Txn, n \in 0..kMaxHops}

DetectorInit == walk = [t \in Thread |-> NoWalk]

\* waiterTable(origin): origin waits nowhere, and there is no cycle.
NotWaiting(t, origin) ==
    /\ walk[t] = NoWalk
    /\ WaitTables(origin) = {}
    /\ UNCHANGED walk

\* ... or on some table, where the chain begins.
BeginWalk(t, origin) ==
    /\ walk[t] = NoWalk
    /\ \E tb \in WaitTables(origin) : walk' = [walk EXCEPT ![t] = HoldersOf(tb, 0)]

\* getHolders(table), as long as the chain may grow.
ReadHolders(t) ==
    /\ walk[t].at = "holders" /\ walk[t].hops < kMaxHops
    /\ walk' = [walk EXCEPT ![t] = Visiting(getHolders(walk[t].table), walk[t].hops)]

\* The next holder in the copy waits on a table: the chain goes on from there;
\* or it does not, and the loop looks at the one after it.
VisitHolder(t, origin) ==
    /\ walk[t].at = "visit"
    /\ \E h \in walk[t].left :
          /\ h # origin
          /\ \/ \E tb \in WaitTables(h) :
                   walk' = [walk EXCEPT ![t] = HoldersOf(tb, walk[t].hops + 1)]
             \/ /\ WaitTables(h) = {}
                /\ walk' = [walk EXCEPT ![t].left = @ \ {h}]

\* The next holder is origin: the cycle is closed and origin is the victim.
CycleClosed(t, origin) ==
    /\ walk[t].at = "visit" /\ origin \in walk[t].left
    /\ walk' = [walk EXCEPT ![t] = NoWalk]

\* No holder is left to look at, or the chain is too long: no cycle.
ChainEnds(t) ==
    /\ \/ walk[t].at = "visit" /\ walk[t].left = {}
       \/ walk[t].at = "holders" /\ walk[t].hops = kMaxHops
    /\ walk' = [walk EXCEPT ![t] = NoWalk]

=============================================================================
