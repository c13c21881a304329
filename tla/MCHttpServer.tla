---------------------------- MODULE MCHttpServer ----------------------------
(* Two I/O threads, and more clients than connection slots, so that slots  *)
(* and descriptors are used again.                                         *)
EXTENDS HttpServer
=============================================================================
