-------------------------- MODULE TransactionManager --------------------------
(***************************************************************************)
(* The transaction manager of includes/opendb/core/TransactionManager.hpp: *)
(* ids, the state of each transaction and the commit sequence.  Each       *)
(* method runs under the manager's own mutex, so each is one step; it      *)
(* knows nothing of locks or storage.  Ids are 1, 2, ..., and an id that   *)
(* was never handed out is NotFound.                                       *)
(***************************************************************************)
EXTENDS OpenDB, Naturals

CONSTANT MaxTxn    \* bound: transactions begun in a run

\* Txn may hold ids the manager never hands out: a caller can name any number.
ASSUME TxnAssumption == MaxTxn \in Nat /\ 1..MaxTxn \subseteq Txn

VARIABLES
    states,        \* states_
    next_id,       \* next_id_
    commit_seq     \* commit_seq_

txnVars == <<states, next_id, commit_seq>>

TxnState == {"NotFound", "Active", "Committed", "Aborted"}

TxnTypeOK ==
    /\ states \in [Txn -> TxnState]
    /\ next_id \in 0..MaxTxn
    /\ commit_seq \in 0..MaxTxn

TxnInit ==
    /\ states = [x \in Txn |-> "NotFound"]
    /\ next_id = 0
    /\ commit_seq = 0

\* The id the next beginTxn returns.
NewTxn == next_id + 1

beginTxn ==
    /\ next_id < MaxTxn
    /\ next_id' = NewTxn
    /\ states' = [states EXCEPT ![NewTxn] = "Active"]
    /\ UNCHANGED commit_seq

\* What commitTxn and abortTxn return: only an Active transaction can be closed.
Closable(x) == states[x] = "Active"

commitTxn(x) ==
    IF Closable(x)
    THEN /\ states' = [states EXCEPT ![x] = "Committed"]
         /\ commit_seq' = commit_seq + 1
         /\ UNCHANGED next_id
    ELSE UNCHANGED txnVars

\* Mutant: a committed transaction can be marked aborted.
BugAbortTxn(x) ==
    /\ states' = [states EXCEPT ![x] = "Aborted"]
    /\ UNCHANGED <<next_id, commit_seq>>

abortTxn(x) ==
    /\ states' = IF Closable(x) THEN [states EXCEPT ![x] = "Aborted"] ELSE states
    /\ UNCHANGED <<next_id, commit_seq>>

visibleSeq == commit_seq

=============================================================================
