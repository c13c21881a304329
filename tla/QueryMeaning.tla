----------------------------- MODULE QueryMeaning -----------------------------
(***************************************************************************)
(* What a SELECT means, said of its clauses and the tables as they are and *)
(* without the steps of an executor: the reference both executors are held *)
(* against.  The WHERE clause is a sequence of runs, an OR of ANDs.  A     *)
(* column that a row does not have reads as null.                          *)
(***************************************************************************)
EXTENDS QueryExecutor

Field(row, col) == IF col \in DOMAIN row THEN row[col] ELSE Null

Same(r1, r2) == \A c \in DOMAIN r1 \cup DOMAIN r2 : Field(r1, c) = Field(r2, c)

Less(v, w) == v[1] < w[1] \/ (v[1] = w[1] /\ v[2] < w[2])

\* A comparison with a null on either side does not hold.
Satisfied(c, row) ==
    LET v == Field(row, c.col)
    IN  CASE c.op = "IS NULL" -> v = Null
          [] c.op = "IS NOT NULL" -> v # Null
          [] OTHER ->
               LET w == ValueOf[c.val]
               IN  /\ v # Null /\ w # Null
                   /\ \/ c.op \in {"<", "<=", "!="} /\ Less(v, w)
                      \/ c.op \in {">", ">=", "!="} /\ Less(w, v)
                      \/ c.op \in {"=", "<=", ">="} /\ v = w

Holds(runs, row) ==
    runs = <<>> \/ \E i \in DOMAIN runs : \A j \in DOMAIN runs[i] : Satisfied(runs[i][j], row)

-----------------------------------------------------------------------------
(* FROM and JOIN.  A combination gives each table the place of one of its  *)
(* rows, or 0 for a row of nulls.                                          *)

Tables(s) == <<s.table>> \o [k \in DOMAIN s.joins |-> s.joins[k].table]

RowAt(data, tb, i) == IF i = 0 THEN <<>> ELSE data[tb][i]

ValueIn(s, data, p, col) ==
    LET k == CHOOSE i \in DOMAIN p : Tables(s)[i] = col[1]
    IN  Field(RowAt(data, col[1], p[k]), col[2])

\* Null equals nothing, not even null.
Matches(s, data, p, k) ==
    LET v == ValueIn(s, data, p, s.joins[k].leftColumn)
    IN  v # Null /\ v = ValueIn(s, data, p, s.joins[k].rightColumn)

Source(s, data) ==
    LET rows(i) == DOMAIN data[Tables(s)[i]]
        most == Max({0} \cup UNION {rows(i) : i \in DOMAIN Tables(s)})
    IN  {p \in [DOMAIN Tables(s) -> 0 .. most] :
           /\ p[1] \in rows(1)
           /\ \A k \in DOMAIN s.joins :
                 \/ p[k + 1] \in rows(k + 1) /\ Matches(s, data, p, k)
                 \/ /\ p[k + 1] = 0 /\ s.joins[k].left
                    /\ \A r \in rows(k + 1) : ~Matches(s, data, [p EXCEPT ![k + 1] = r], k)}

RowOf(s, data, p) ==
    IF s.joins = <<>> THEN data[s.table][p[1]]
    ELSE LET cols == UNION {{<<tb, c>> : c \in UNION {DOMAIN data[tb][i] : i \in DOMAIN data[tb]}} :
                              tb \in ToSet(Tables(s))}
         IN  [n \in {Dot(c[1], c[2]) : c \in cols} |->
                ValueIn(s, data, p, CHOOSE c \in cols : Dot(c[1], c[2]) = n)]

-----------------------------------------------------------------------------
(* ORDER BY, OFFSET, LIMIT and the projection.                             *)

\* The place of a row under one ORDER BY column, nulls at either end.
Place(row, o) ==
    LET first == IF o.nulls = "default" THEN o.desc ELSE o.nulls = "FIRST"
        v == Field(row, o.column)
    IN  IF v = Null THEN <<IF first THEN -1 ELSE 1, 0, 0>>
        ELSE LET sign == IF o.desc THEN -1 ELSE 1 IN <<0, sign * v[1], sign * v[2]>>

NotAfter(r1, r2, order) ==
    \A i \in DOMAIN order :
        (\A k \in 1 .. i - 1 : Place(r1, order[k]) = Place(r2, order[k])) =>
            LET p == Place(r1, order[i])
                q == Place(r2, order[i])
            IN  p = q \/ \E m \in 1 .. 3 : p[m] < q[m] /\ \A k \in 1 .. m - 1 : p[k] = q[k]

Projected(row, proj) == IF proj = <<"*">> THEN row ELSE [c \in ToSet(proj) |-> Field(row, c)]

\* rows answers the query: the rows of an order that ORDER BY allows, without its
\* first OFFSET ones, cut at LIMIT, and projected.  The selected rows that may
\* stand at a place are those with fewer rows that must come before than that
\* place and at least as many that need not come after; the answer shows each
\* row no more often than those of its place do.
Means(rows, s, runs, data) ==
    LET row == [p \in Source(s, data) |-> RowOf(s, data, p)]
        kept == {p \in DOMAIN row : Holds(runs, row[p])}
        n == Cardinality(kept)
        skip == IF s.offset = <<>> THEN 0 ELSE Min({s.offset[1], n})
        count == IF s.limit = <<>> THEN n - skip ELSE Min({s.limit[1], n - skip})
        at == [i \in 1 .. count |->
                 {p \in kept :
                    /\ Cardinality({q \in kept : ~NotAfter(row[p], row[q], s.order)}) < skip + i
                    /\ Cardinality({q \in kept : NotAfter(row[q], row[p], s.order)}) >= skip + i}]
    IN  /\ Len(rows) = count
        /\ \A i \in 1 .. count :
              Cardinality({j \in 1 .. count : at[j] = at[i] /\ Same(rows[j], rows[i])})
                <= Cardinality({p \in at[i] : Same(Projected(row[p], s.proj), rows[i])})
=============================================================================
