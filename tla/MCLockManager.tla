---------------------------- MODULE MCLockManager ----------------------------
(* The lock manager on a small instance: the constants are in the .cfg.    *)
EXTENDS LockManager
=============================================================================
