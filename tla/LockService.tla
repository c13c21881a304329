----------------------------- MODULE LockService -----------------------------
(***************************************************************************)
(* What the callers of includes/opendb/core/LockManager.hpp rely on, with  *)
(* no threads, waiters or notifications: who holds which resource, and in  *)
(* which mode.  A request is granted when it is compatible with what       *)
(* others hold, or when its owner holds the resource already; until then   *)
(* it is simply not granted.                                               *)
(*                                                                         *)
(* LockManager implements this specification; ShardedSession uses it in    *)
(* the place of the lock manager.                                          *)
(***************************************************************************)
CONSTANTS
    Owner,     \* the transactions
    Resource   \* what can be locked

VARIABLE held  \* resource -> [mode, holders]

Mode == {"Shared", "Exclusive"}
Unlocked == [mode |-> "Shared", holders |-> {}]

Granted(x, r) == x \in held[r].holders

\* What the other holders allow, or a lock of one's own.
CanGrant(x, r, m) ==
    \/ held[r].holders = {}
    \/ Granted(x, r)
    \/ m = "Shared" /\ held[r].mode = "Shared"

\* The mode is Exclusive once an Exclusive request has been granted, and stays
\* so: an owner that asks again may turn its own lock, and that of the owners it
\* shares it with, into an Exclusive one.
Grant(x, r, m) ==
    /\ CanGrant(x, r, m)
    /\ held' = [held EXCEPT ![r] =
                  [mode |-> IF held[r].holders = {} THEN m
                            ELSE IF m = "Exclusive" THEN m ELSE held[r].mode,
                   holders |-> held[r].holders \cup {x}]]

\* The owner gives up the resources of rs; what nobody holds is Unlocked.
Release(x, rs) ==
    held' = [r \in Resource |->
               IF r \notin rs \/ ~Granted(x, r) THEN held[r]
               ELSE IF held[r].holders = {x} THEN Unlocked
               ELSE [held[r] EXCEPT !.holders = held[r].holders \ {x}]]

ServiceInit == held = [r \in Resource |-> Unlocked]

ServiceNext ==
    \E x \in Owner :
        \/ \E r \in Resource, m \in Mode : Grant(x, r, m)
        \/ \E rs \in SUBSET Resource : Release(x, rs)

ServiceSpec == ServiceInit /\ [][ServiceNext]_held
=============================================================================
