-------------------------- MODULE MCDispatcherSession --------------------------
(* runSession on a small instance: ids 1, 2, ... are the transaction        *)
(* manager's, those from 100 on are numbers that sessions made up.          *)
EXTENDS DispatcherSession, TLC

MCTxn == 1..MaxTxn \cup {100, 200}

CONSTANTS w1, w2, w3, users, orders

\* Sessions of w1 and w2 lock both tables in either order, with ids 100 and 200.
\* The session of w3 is an auto-commit, or brings 100 while w1 may wait with it.
MCCommands ==
    (w1 :> {<<"delete", users, 100>>, <<"select", orders, 100>>}) @@
    (w2 :> {<<"delete", orders, 200>>, <<"update", users, 200>>}) @@
    (w3 :> {<<"insert", users, 0>>, <<"delete", users, 100>>})
MCMaxCommands == (w1 :> 2) @@ (w2 :> 2) @@ (w3 :> 1)
=============================================================================
