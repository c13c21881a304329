-------------------------- MODULE MCEngineDispatcher --------------------------
(* The thread pool with fewer workers than sessions.                        *)
EXTENDS EngineDispatcher
=============================================================================
