---------------------------- MODULE MCPagedTables ----------------------------
(* The pages of a file on a small instance, with nodes that overflow early. *)
EXTENDS PagedTables

\* Tables are interchangeable.
MCSymmetry == Permutations(Table)
=============================================================================
