---------------------------- MODULE MCEngineLoop ----------------------------
(* The command loop over a file, for two processes, one after the other.   *)
EXTENDS EngineLoop

MCTxn == 1..MaxTxn
=============================================================================
