---------------------------- MODULE VersionList ----------------------------
(* The versions of one key, oldest first, as InMemoryStorageEngine.hpp and *)
(* the shards made of such engines keep them.                              *)
EXTENDS Naturals, FiniteSets

Staged(x, v) == v.txn = x /\ v.seq = 0

\* What is left of a key's versions without the staged ones of x, in their order:
\* the n-th is the one with n of those left up to it.
Unstaged(x, s) ==
    LET left == {i \in DOMAIN s : ~Staged(x, s[i])}
        UpTo(i) == {j \in left : j <= i}
    IN  [n \in 1..Cardinality(left) |-> s[CHOOSE i \in left : Cardinality(UpTo(i)) = n]]
=============================================================================
