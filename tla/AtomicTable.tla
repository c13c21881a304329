----------------------------- MODULE AtomicTable -----------------------------
(***************************************************************************)
(* What a client of the SQL statements relies on, with no locks, shards,   *)
(* versions or commit: a table is a set of rows with distinct _id, and a   *)
(* statement reads or changes it in one step.                              *)
(***************************************************************************)
CONSTANTS
    Client,    \* who sends statements
    Name,      \* the tables
    Id,        \* the values of _id
    Content    \* the values of the other column

VARIABLES
    rows,      \* table -> set of rows
    reply      \* client -> the rows its last SELECT was given

tableVars == <<rows, reply>>

Row == [id : Id, c : Content]

Others(tb, ids) == {r \in rows[tb] : r.id \notin ids}
Present(tb, ids) == {r.id : r \in rows[tb]} \cap ids

Select(x, tb) ==
    reply' = [reply EXCEPT ![x] = rows[tb]] /\ UNCHANGED rows

Insert(tb, id, c) ==
    rows' = [rows EXCEPT ![tb] = Others(tb, {id}) \cup {[id |-> id, c |-> c]}]

Update(tb, ids, c) ==
    rows' = [rows EXCEPT ![tb] =
               Others(tb, ids) \cup {[id |-> k, c |-> c] : k \in Present(tb, ids)}]

Delete(tb, ids) == rows' = [rows EXCEPT ![tb] = Others(tb, ids)]

\* Any rows, as long as no _id is there twice.
TableInit ==
    /\ rows \in [Name -> SUBSET Row]
    /\ \A tb \in Name : \A r1, r2 \in rows[tb] : r1.id = r2.id => r1 = r2
    /\ reply = [x \in Client |-> {}]

TableNext ==
    \E tb \in Name :
        \/ \E x \in Client : Select(x, tb)
        \/ \E id \in Id, c \in Content : Insert(tb, id, c) /\ UNCHANGED reply
        \/ \E ids \in {{id} : id \in Id} \cup {Id} :
              \/ \E c \in Content : Update(tb, ids, c) /\ UNCHANGED reply
              \/ Delete(tb, ids) /\ UNCHANGED reply

TableSpec == TableInit /\ [][TableNext]_tableVars
=============================================================================
