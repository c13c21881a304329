----------------------------- MODULE MCSqlQueries -----------------------------
(* Three families of SELECT (conditions; order, limit and projection;      *)
(* joins), DELETE with conditions, and one of each other statement, each   *)
(* cut everywhere.  For EngineLoop: one table with every mix of            *)
(* projection, order and counts, a count beyond the rows and one whose sum *)
(* with OFFSET wraps; and joins of two and three tables.                   *)
EXTENDS SqlQueries

MCDot(tb, col) == tb \o "." \o col
MCName == {"t", "u", "a", "b", "t.a", "u.b"}
MCLiteral == {"1", "2", "0", "-1", "'x'", "NULL", "t.a", "u.b"}
MCInteger == {"0", "1", "2", "-1"}
MCIntOf == [t \in MCInteger |-> CASE t = "0" -> 0 [] t = "1" -> 1 [] t = "2" -> 2 [] t = "-1" -> -1]
MCSizeOf == [t \in MCInteger |-> MCIntOf[t] % 16]
MCValueOf ==
    [t \in MCLiteral |-> IF t \in MCInteger THEN <<2, MCIntOf[t]>>
                         ELSE IF t = "NULL" THEN Null ELSE <<3, 0>>]

Want(st, runs) == [stmt |-> st, runs |-> runs, joinFirst |-> FALSE]

Conditions ==
    {[op |-> "=", col |-> "a", val |-> "1"], [op |-> "<", col |-> "b", val |-> "2"],
     [op |-> "IS NOT NULL", col |-> "b"]}
Runs ==
    LET S(n) == [1 .. n -> Conditions]
    IN  {<<x>> : x \in S(1)} \cup {<<x>> : x \in S(2)} \cup {<<x>> : x \in S(3)}
        \cup {<<x, y>> : x \in S(1), y \in S(1) \cup S(2)} \cup {<<x, y>> : x \in S(2), y \in S(1)}
        \cup {<<x, y, z>> : x \in S(1), y \in S(1), z \in S(1)}

All == [Blank EXCEPT !.kind = "Select", !.table = "t", !.proj = <<"*">>]
Order(col, desc, nulls) == [column |-> col, desc |-> desc, nulls |-> nulls]

Filters == {Want(All, runs) : runs \in Runs}
Pages ==
    {Want([All EXCEPT !.proj = p, !.order = o, !.limit = l, !.offset = k], <<>>) :
        p \in {<<"*">>, <<"a">>, <<"b", "a">>},
        o \in {<<>>, <<Order("a", FALSE, "default")>>, <<Order("b", TRUE, "default")>>,
               <<Order("a", TRUE, "LAST"), Order("b", FALSE, "FIRST")>>},
        l \in {<<>>, <<0>>, <<2>>}, k \in {<<>>, <<1>>}}

Equals(col) == <<<<[op |-> "=", col |-> col, val |-> "1"]>>>>
Joins ==
    {[stmt |-> [All EXCEPT !.order = o, !.joins = <<[left |-> outer, table |-> "u",
                   leftColumn |-> <<"t", "a">>, rightColumn |-> <<"u", "b">>]>>],
      runs |-> r, joinFirst |-> first] :
        outer \in BOOLEAN, first \in BOOLEAN, r \in {<<>>, Equals("t.a")},
        o \in {<<>>, <<Order("u.b", FALSE, "FIRST")>>}}

Col(n, pk, nullable, default) ==
    [name |-> n, type |-> "INT", primaryKey |-> pk, nullable |-> nullable, default |-> default]
Others ==
    {Want([Blank EXCEPT !.kind = k], <<>>) : k \in {"Begin", "Commit", "Rollback"}} \cup
    {Want([Blank EXCEPT !.kind = "DROP", !.table = "t"], <<>>),
     Want([Blank EXCEPT !.kind = "CREATE", !.table = "t", !.partition = <<"a", "2">>,
             !.columns = <<Col("a", TRUE, FALSE, <<>>), Col("b", FALSE, TRUE, <<"1">>)>>], <<>>),
     Want([Blank EXCEPT !.kind = "ALTER", !.table = "t", !.spec = <<"RENAME", "u">>], <<>>),
     Want([Blank EXCEPT !.kind = "ALTER", !.table = "t", !.spec = <<"DROP", "a">>], <<>>),
     Want([Blank EXCEPT !.kind = "ALTER", !.table = "t", !.spec = <<"ADD", "b">>,
             !.columns = <<Col("b", FALSE, TRUE, <<"NULL">>)>>], <<>>),
     Want([Blank EXCEPT !.kind = "Insert", !.table = "t"], <<>>),
     Want([Blank EXCEPT !.kind = "Insert", !.table = "t", !.values = <<<<"0", "1">>, <<"1", "'x'">>>>], <<>>),
     Want([Blank EXCEPT !.kind = "Insert", !.table = "t", !.values = <<<<"b", "1">>, <<"a", "'x'">>>>], <<>>),
     Want([Blank EXCEPT !.kind = "Update", !.table = "t", !.values = <<<<"a", "1">>, <<"b", "2">>>>],
          Equals("a")),
     Want([Blank EXCEPT !.kind = "Delete", !.table = "t"], Equals("a")),
     Want([Blank EXCEPT !.kind = "Update", !.table = "t", !.values = <<<<"a", "1">>>>], <<>>),
     Want([Blank EXCEPT !.kind = "Delete", !.table = "t"], <<>>),
     Want([Blank EXCEPT !.kind = "Delete", !.table = "t"],
          <<<<[op |-> "=", col |-> "a", val |-> "2"]>>,
            <<[op |-> "=", col |-> "a", val |-> "1"], [op |-> "IS NULL", col |-> "b"]>>>>)}

MCWants == Filters \cup Pages \cup Joins \cup Others

Cond(col, op) == [col |-> col, op |-> op, val |-> "1"]

LoopPages ==
    {Want([All EXCEPT !.proj = p, !.order = o, !.limit = l, !.offset = k], r) :
        p \in {<<"*">>, <<"a">>, <<"b", "a">>},
        o \in {<<>>, <<Order("a", FALSE, "default")>>, <<Order("b", TRUE, "default")>>,
               <<Order("a", TRUE, "LAST"), Order("b", FALSE, "FIRST")>>},
        l \in {<<>>, <<0>>, <<2>>, <<15>>}, k \in {<<>>, <<1>>, <<9>>},
        r \in {<<>>, <<<<Cond("a", "<")>>, <<Cond("b", ">="), Cond("a", "!=")>>>>}}

Join(outer, tb, l, r) == [left |-> outer, table |-> tb, leftColumn |-> l, rightColumn |-> r]
Chains ==
    {<<Join(x, "u", <<"t", "a">>, <<"u", "b">>)>> : x \in BOOLEAN} \cup
    {<<Join(x, "u", <<"t", "a">>, <<"u", "b">>), Join(y, "v", c, <<"v", "a">>)>> :
        x \in BOOLEAN, y \in BOOLEAN, c \in {<<"u", "a">>, <<"t", "b">>}}
LoopJoins ==
    {Want([All EXCEPT !.joins = js, !.order = o, !.proj = p, !.limit = l], r) :
        js \in Chains, p \in {<<"*">>, <<"t.a", "u.a">>}, l \in {<<>>, <<1>>},
        o \in {<<>>, <<Order("u.a", FALSE, "FIRST")>>},
        r \in {<<>>, <<<<Cond("t.a", ">=")>>>>, <<<<[col |-> "u.a", op |-> "IS NULL"]>>>>}}

MCQueries == LoopPages \cup LoopJoins

N(n) == <<2, n>>
Pair(a, b) == ("a" :> a) @@ ("b" :> b)
\* Nulls and missing columns on the left, on the right, on both sides; text
\* beside numbers; an empty right table.
MCDatasets ==
    {[t |-> <<Pair(N(1), N(2)), Pair(N(2), Null), "a" :> Null, Pair(N(1), <<3, 0>>)>>,
      u |-> <<Pair(N(0), N(1)), Pair(N(1), N(0))>>, v |-> <<Pair(N(0), N(0)), Pair(N(2), N(1))>>],
     [t |-> <<Pair(N(2), N(1)), Pair(N(1), N(1))>>,
      u |-> <<Pair(N(0), N(1)), Pair(N(2), Null), Pair(N(2), N(1))>>, v |-> <<Pair(N(0), N(2))>>],
     [t |-> <<Pair(Null, N(1)), Pair(N(1), N(0))>>,
      u |-> <<Pair(N(1), Null), "b" :> N(1)>>, v |-> <<Pair(N(1), N(0))>>],
     [t |-> <<Pair(N(1), N(1))>>, u |-> <<>>, v |-> <<Pair(N(1), N(1))>>]}
=============================================================================
