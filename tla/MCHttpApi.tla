------------------------------ MODULE MCHttpApi ------------------------------
(* The HTTP front-end on a small instance.  Transaction ids are numbers, in *)
(* the order they are begun; every one of them may make several requests.   *)
EXTENDS HttpApi

MCTxn == 1..MaxTxn
=============================================================================
