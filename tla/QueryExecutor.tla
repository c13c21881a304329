---------------------------- MODULE QueryExecutor ----------------------------
(***************************************************************************)
(* How a SELECT is answered, with Predicate.hpp's evaluate and Value.hpp's *)
(* compare.  The code has two executors.  The front-ends that receive SQL  *)
(* (HttpApi::handleDml, EngineDispatcher::runSession) scan, filter and     *)
(* project, and look at no other clause.  EngineLoop::dispatch takes the   *)
(* rows through all clauses: join, filter, PROJECT, sort, cut.  A row maps *)
(* the columns it has to values, and a value is its bucket and its place   *)
(* there; null is the whole of bucket 0.                                   *)
(***************************************************************************)
EXTENDS Integers, Sequences, FiniteSetsExt, SequencesExt, TLC

CONSTANTS
    Dot(_, _),     \* the name "table.column"
    ValueOf,       \* the value of a literal token
    SizeRange      \* 2^64, scaled down: size_t counts modulo this

Null == <<0, 0>>

\* Value::compare: -1, 0 or 1.
compare(v, w) ==
    IF v = w THEN 0
    ELSE IF v[1] < w[1] \/ (v[1] = w[1] /\ v[2] < w[2]) THEN -1 ELSE 1

NullAt(row, col) == col \notin DOMAIN row \/ row[col] = Null

-----------------------------------------------------------------------------
(* Predicate.hpp.                                                          *)

\* ComparisonNode::evaluate: no comparison holds of a null on either side.
Compared(node, row) ==
    CASE node.op = "IS NULL" -> NullAt(row, node.col)
      [] node.op = "IS NOT NULL" -> ~NullAt(row, node.col)
      [] OTHER ->
           /\ ~NullAt(row, node.col)
           /\ ValueOf[node.val] # Null
           /\ LET c == compare(row[node.col], ValueOf[node.val])
              IN  CASE node.op = "=" -> c = 0
                    [] node.op = "!=" -> c # 0
                    [] node.op = "<" -> c < 0
                    [] node.op = "<=" -> c <= 0
                    [] node.op = ">" -> c > 0
                    [] node.op = ">=" -> c >= 0

RECURSIVE evaluate(_, _)
evaluate(node, row) ==
    CASE node.op = "And" -> \A i \in DOMAIN node.kids : evaluate(node.kids[i], row)
      [] node.op = "Or" -> \E i \in DOMAIN node.kids : evaluate(node.kids[i], row)
      [] OTHER -> Compared(node, row)

\* Whether the tree has a null operand, which clone and evaluate would follow.
RECURSIVE NullOperand(_)
NullOperand(node) ==
    IF node.op \in {"And", "Or"}
    THEN \E i \in DOMAIN node.kids : node.kids[i].op = "none" \/ NullOperand(node.kids[i])
    ELSE FALSE

-----------------------------------------------------------------------------
(* Joins.                                                                  *)

qualify(row, tb) ==
    [c \in {Dot(tb, col) : col \in DOMAIN row} |->
        row[CHOOSE col \in DOMAIN row : Dot(tb, col) = c]]

rowsFor(data, tb) == [i \in DOMAIN data[tb] |-> qualify(data[tb][i], tb)]

onMatches(l, r, jc) ==
    LET lc == Dot(jc.leftColumn[1], jc.leftColumn[2])
        rc == Dot(jc.rightColumn[1], jc.rightColumn[2])
    IN  lc \in DOMAIN l /\ rc \in DOMAIN r /\ compare(l[lc], r[rc]) = 0

\* The columns of r set over those of l.
Merged(l, r) == r @@ l

\* One left row against all right ones.  A LEFT JOIN without a match keeps the
\* row and nulls the columns of the first right row, if there is any.
JoinRow(cur, rights, jc) ==
    LET hits == SelectSeq(rights, LAMBDA r : onMatches(cur, r, jc))
    IN  IF hits # <<>> THEN [i \in DOMAIN hits |-> Merged(cur, hits[i])]
        ELSE IF ~jc.left THEN <<>>
        ELSE IF rights = <<>> THEN <<cur>>
        ELSE <<Merged(cur, [c \in DOMAIN rights[1] |-> Null])>>

JoinTable(data, rows, jc) ==
    FlattenSeq([i \in DOMAIN rows |-> JoinRow(rows[i], rowsFor(data, jc.table), jc)])

-----------------------------------------------------------------------------
(* SELECT.                                                                 *)

Project(row, proj) ==
    IF proj \in {<<>>, <<"*">>} THEN row
    ELSE [c \in DOMAIN row \cap ToSet(proj) |-> row[c]]

Filtered(rows, cmd) ==
    LET kept == SelectSeq(rows, LAMBDA row : cmd.where.op = "none" \/ evaluate(cmd.where, row))
    IN  [i \in DOMAIN kept |-> Project(kept[i], cmd.proj)]

\* The SELECT of handleDml and runSession.
FrontEndRows(cmd, data) == Filtered(data[cmd.table], cmd)

\* EngineLoop's rows before ORDER BY.
Matched(cmd, data) ==
    Filtered(IF cmd.joins = <<>> THEN data[cmd.table]
             ELSE FoldLeft(LAMBDA rows, jc : JoinTable(data, rows, jc),
                           rowsFor(data, cmd.table), cmd.joins), cmd)

nullsFirst(spec) == IF spec.nulls = "default" THEN spec.desc ELSE spec.nulls = "FIRST"

Differs(a, b, spec) ==
    /\ ~(NullAt(a, spec.column) /\ NullAt(b, spec.column))
    /\ \/ NullAt(a, spec.column) \/ NullAt(b, spec.column)
       \/ compare(a[spec.column], b[spec.column]) # 0

Before(a, b, spec) ==
    CASE NullAt(a, spec.column) -> nullsFirst(spec)
      [] NullAt(b, spec.column) -> ~nullsFirst(spec)
      [] OTHER -> compare(a[spec.column], b[spec.column]) = IF spec.desc THEN 1 ELSE -1

\* The comparator handed to std::sort.
SortsBefore(a, b, specs) ==
    LET differ == {i \in DOMAIN specs : Differs(a, b, specs[i])}
    IN  differ # {} /\ Before(a, b, specs[Min(differ)])

\* std::sort leaves equal rows in any order.
Sorted(rows, specs) ==
    IF specs = <<>> THEN {rows}
    ELSE {s \in {[i \in DOMAIN rows |-> rows[f[i]]] : f \in Permutations(DOMAIN rows)} :
            \A i, j \in DOMAIN rows : i < j => ~SortsBefore(s[j], s[i], specs)}

\* OFFSET and LIMIT, in the arithmetic of size_t.
Window(rows, cmd) ==
    LET n == Len(rows)
        offset == IF cmd.offset = <<>> THEN 0 ELSE cmd.offset[1]
        stop == IF cmd.limit = <<>> THEN n ELSE Min({n, (offset + cmd.limit[1]) % SizeRange})
        start == Min({offset, n})
    IN  SubSeq(rows, start + 1, stop)

\* Mutant: the rows are cut before they are sorted.
BugAnswers(cmd, data) == UNION {Sorted(Window(rows, cmd), cmd.order) : rows \in {Matched(cmd, data)}}

Answers(cmd, data) ==
    UNION {{Window(sorted, cmd) : sorted \in Sorted(rows, cmd.order)} : rows \in {Matched(cmd, data)}}
=============================================================================
