------------------------------- MODULE OpenDB -------------------------------
(* What the components of the server share: threads, transaction ids and   *)
(* table names.                                                            *)

CONSTANTS
    Thread,    \* the threads that run client requests
    Txn,       \* transaction ids
    Table      \* table names
=============================================================================
