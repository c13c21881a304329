------------------------------ MODULE SqlParser ------------------------------
(***************************************************************************)
(* src/SqlParser.cpp at the level of tokens.  The grammar has no nesting,  *)
(* not even in WHERE, so the recursive descent is a walk: pc is the place  *)
(* in the parser, one action is one turn of a loop or one clause, and pos  *)
(* is the next token.  Keywords are not reserved: consumeIdentifier takes  *)
(* any word.  What follows a complete statement is never looked at.        *)
(*                                                                         *)
(* Spaces, comments, quoting and the spelling of numbers are left to the   *)
(* tokens; std::nullopt is "refused", an exception of Command's            *)
(* constructor "thrown".                                                   *)
(***************************************************************************)
EXTENDS Integers, Sequences, TLC

CONSTANTS
    Name,          \* identifiers that are not keywords, quoted ones included
    Literal,       \* tokens consumeValueLiteral takes
    Integer,       \* those of them that are integers
    IntOf,         \* what strtoll makes of them
    SizeOf         \* and that as a size_t

Keyword ==
    {"CREATE", "DROP", "ALTER", "TABLE", "PARTITION", "BY", "HASH", "PARTITIONS", "INT", "TEXT",
     "PRIMARY", "KEY", "NOT", "NULL", "DEFAULT", "ADD", "COLUMN", "RENAME", "TO", "INSERT", "INTO",
     "VALUES", "SELECT", "FROM", "WHERE", "ORDER", "ASC", "DESC", "NULLS", "FIRST", "LAST", "LIMIT",
     "OFFSET", "INNER", "LEFT", "JOIN", "ON", "UPDATE", "SET", "DELETE", "BEGIN", "TRANSACTION",
     "COMMIT", "ROLLBACK", "AND", "OR", "IS"}

Word == Name \cup Keyword
Comparison == {"=", "!=", "<", "<=", ">", ">="}
ColumnType == {"INT", "TEXT"}      \* one keyword each for the nine types

VARIABLES
    input,         \* the tokens of input_
    pos,           \* pos_
    error,         \* whether error_ is set
    pc,            \* where the parser is
    stmt,          \* the statement under construction
    left           \* left of parseOrExpr, once there is one, and of parseAndExpr

parserVars == <<input, pos, error, pc, stmt, left>>

None == [op |-> "none"]            \* an empty optional, or a null PredicateNode
Ended == {"accepted", "refused", "thrown"}

Blank ==
    [kind |-> "none", table |-> "", columns |-> <<>>, partition |-> <<>>, spec |-> <<>>,
     values |-> <<>>, proj |-> <<>>, where |-> None, order |-> <<>>,
     limit |-> <<>>, offset |-> <<>>, joins |-> <<>>]

-----------------------------------------------------------------------------
(* The tokenizer.                                                          *)

TokenAt(p) == IF p <= Len(input) THEN input[p] ELSE "end of input"
At(token) == TokenAt(pos) = token
AtPhrase(ts) == \A i \in DOMAIN ts : TokenAt(pos + i - 1) = ts[i]
IdentifierAt(p) == TokenAt(p) \in Word
LiteralAt(p) == TokenAt(p) \in Literal

Consume(n, to, st) ==
    /\ pos' = pos + n
    /\ pc' = to
    /\ stmt' = st
    /\ UNCHANGED <<input, error, left>>

Goto(to) == Consume(0, to, stmt)

Refuse ==
    /\ pc' = "refused"
    /\ error' = TRUE
    /\ UNCHANGED <<input, pos, stmt, left>>

\* The constructor of Command: UPDATE and DELETE must have a WHERE clause.
Validate(st) == st.kind \in {"Update", "Delete"} => st.where # None

Finish(n, st) == Consume(n, IF Validate(st) THEN "accepted" ELSE "thrown", st)

-----------------------------------------------------------------------------
(* Statements.                                                             *)

parseStatement ==
    /\ pc = "statement"
    /\ \/ \E verb \in {"CREATE", "DROP", "ALTER"} :
             At(verb) /\ IF TokenAt(pos + 1) = "TABLE"
                         THEN Consume(2, verb, [Blank EXCEPT !.kind = verb]) ELSE Refuse
       \/ At("INSERT") /\ Consume(IF TokenAt(pos + 1) = "INTO" THEN 2 ELSE 1, "table",
                                  [Blank EXCEPT !.kind = "Insert"])
       \/ At("SELECT") /\ Consume(1, "projections", [Blank EXCEPT !.kind = "Select"])
       \/ At("UPDATE") /\ Consume(1, "table", [Blank EXCEPT !.kind = "Update"])
       \/ At("DELETE") /\ Consume(IF TokenAt(pos + 1) = "FROM" THEN 2 ELSE 1, "table",
                                  [Blank EXCEPT !.kind = "Delete"])
       \/ At("BEGIN") /\ Finish(IF TokenAt(pos + 1) = "TRANSACTION" THEN 2 ELSE 1,
                                [Blank EXCEPT !.kind = "Begin"])
       \/ At("COMMIT") /\ Finish(1, [Blank EXCEPT !.kind = "Commit"])
       \/ At("ROLLBACK") /\ Finish(1, [Blank EXCEPT !.kind = "Rollback"])
       \/ TokenAt(pos) \notin {"CREATE", "DROP", "ALTER", "INSERT", "SELECT", "UPDATE", "DELETE",
                               "BEGIN", "COMMIT", "ROLLBACK"} /\ Refuse

\* The table name of INSERT, SELECT, UPDATE and DELETE, and what must follow it.
parseTable ==
    /\ pc = "table"
    /\ LET named == [stmt EXCEPT !.table = TokenAt(pos)]
       IN  CASE ~IdentifierAt(pos) -> Refuse
             [] IdentifierAt(pos) /\ stmt.kind = "Insert" ->
                  IF TokenAt(pos + 1) = "(" THEN Consume(2, "insertColumn", named)
                  ELSE Consume(1, "values", named)
             [] IdentifierAt(pos) /\ stmt.kind = "Update" ->
                  IF TokenAt(pos + 1) = "SET" THEN Consume(2, "set", named) ELSE Refuse
             [] OTHER -> Consume(1, "where", named)

-----------------------------------------------------------------------------
(* DDL.                                                                    *)

parseDropTable ==
    /\ pc = "DROP"
    /\ IF IdentifierAt(pos) THEN Finish(1, [stmt EXCEPT !.table = TokenAt(pos)]) ELSE Refuse

parseCreateTable ==
    /\ pc = "CREATE"
    /\ IF IdentifierAt(pos) /\ TokenAt(pos + 1) = "("
       THEN Consume(2, "column", [stmt EXCEPT !.table = TokenAt(pos)]) ELSE Refuse

\* Name and type of the next column; a list may be empty, or end in a comma.
parseColumnSpec ==
    /\ pc = "column"
    /\ \/ stmt.kind = "CREATE" /\ At(")") /\ Consume(1, "partition", stmt)
       \/ /\ ~(stmt.kind = "CREATE" /\ At(")"))
          /\ IF IdentifierAt(pos) /\ TokenAt(pos + 1) \in ColumnType
             THEN Consume(2, "constraint",
                    [stmt EXCEPT !.columns = Append(@,
                       [name |-> TokenAt(pos), type |-> TokenAt(pos + 1),
                        primaryKey |-> FALSE, nullable |-> TRUE, default |-> <<>>])])
             ELSE Refuse

HasPrimaryKey == \E i \in DOMAIN stmt.columns : stmt.columns[i].primaryKey

Column == stmt.columns[Len(stmt.columns)]
WithColumn(col) == [stmt EXCEPT !.columns = SubSeq(@, 1, Len(@) - 1) \o <<col>>]

\* Mutant: the loop looks at NOT NULL again and again.
BugParseConstraint ==
    /\ pc = "constraint"
    /\ \/ At("NOT") /\ Consume(0, pc, WithColumn([Column EXCEPT !.nullable = FALSE]))
       \/ At("PRIMARY") /\ Consume(2, pc, WithColumn([Column EXCEPT !.primaryKey = TRUE]))
       \/ TokenAt(pos) \notin {"PRIMARY", "NOT"} /\ Goto("columnEnd")

parseConstraint ==
    /\ pc = "constraint"
    /\ \/ At("PRIMARY") /\ IF TokenAt(pos + 1) = "KEY" /\ ~HasPrimaryKey
                           THEN Consume(2, pc, WithColumn([Column EXCEPT !.primaryKey = TRUE]))
                           ELSE Refuse
       \/ At("NOT") /\ IF TokenAt(pos + 1) = "NULL"
                       THEN Consume(2, pc, WithColumn([Column EXCEPT !.nullable = FALSE]))
                       ELSE Refuse
       \/ At("NULL") /\ Consume(1, pc, WithColumn([Column EXCEPT !.nullable = TRUE]))
       \/ At("DEFAULT") /\ IF LiteralAt(pos + 1)
                           THEN Consume(2, pc, WithColumn([Column EXCEPT !.default = <<TokenAt(pos + 1)>>]))
                           ELSE Refuse
       \/ TokenAt(pos) \notin {"PRIMARY", "NOT", "NULL", "DEFAULT"} /\ Goto("columnEnd")

\* ADD COLUMN takes one column; CREATE goes on after a comma.
ColumnEnd ==
    /\ pc = "columnEnd"
    /\ CASE stmt.kind = "ALTER" -> Finish(0, stmt)
         [] stmt.kind = "CREATE" /\ At(",") -> Consume(1, "column", stmt)
         [] stmt.kind = "CREATE" /\ At(")") -> Consume(1, "partition", stmt)
         [] OTHER -> Refuse

\* PARTITION BY HASH ( col ) PARTITIONS n, n positive.
parsePartition ==
    /\ pc = "partition"
    /\ CASE ~At("PARTITION") -> Finish(0, stmt)
         [] /\ AtPhrase(<<"PARTITION", "BY", "HASH", "(">>)
            /\ IdentifierAt(pos + 4)
            /\ TokenAt(pos + 5) = ")"
            /\ TokenAt(pos + 6) = "PARTITIONS"
            /\ TokenAt(pos + 7) \in Integer
            /\ IntOf[TokenAt(pos + 7)] > 0 ->
              Finish(8, [stmt EXCEPT !.partition = <<TokenAt(pos + 4), TokenAt(pos + 7)>>])
         [] OTHER -> Refuse

parseAlterTable ==
    /\ pc = "ALTER"
    /\ LET verb == TokenAt(pos + 1)
           named == [stmt EXCEPT !.table = TokenAt(pos), !.spec = <<verb, TokenAt(pos + 3)>>]
       IN  CASE IdentifierAt(pos) /\ verb = "ADD" /\ TokenAt(pos + 2) = "COLUMN" ->
                  Consume(3, "column", named)
             [] /\ IdentifierAt(pos)
                /\ <<verb, TokenAt(pos + 2)>> \in {<<"DROP", "COLUMN">>, <<"RENAME", "TO">>}
                /\ IdentifierAt(pos + 3) -> Finish(4, named)
             [] OTHER -> Refuse

-----------------------------------------------------------------------------
(* INSERT.  The column list is read and forgotten: the values are named by *)
(* their position.  A mistake in the value list still gives a statement.   *)

\* The name of the i-th value: std::to_string(t.size()).
Position(i) == ToString(i - 1)

parseInsertColumn ==
    /\ pc = "insertColumn"
    /\ CASE IdentifierAt(pos) /\ TokenAt(pos + 1) = "," -> Consume(2, pc, stmt)
         [] IdentifierAt(pos) /\ TokenAt(pos + 1) = ")" -> Consume(2, "values", stmt)
         [] OTHER -> Refuse

parseInsert ==
    /\ pc = "values"
    /\ CASE AtPhrase(<<"VALUES", "(">>) -> Consume(2, "value", stmt)
         [] At("VALUES") /\ TokenAt(pos + 1) # "(" ->
              error' = TRUE /\ pc' = "accepted" /\ UNCHANGED <<input, pos, stmt, left>>
         [] AtPhrase(<<"DEFAULT", "VALUES">>) -> Finish(2, stmt)
         [] OTHER -> Refuse

parseInsertValueList ==
    /\ pc = "value"
    /\ LET more == [stmt EXCEPT !.values = Append(@, <<Position(Len(@) + 1), TokenAt(pos)>>)]
           after == TokenAt(pos + 1)
       IN  CASE LiteralAt(pos) /\ after = "," -> Consume(2, pc, more)
             [] LiteralAt(pos) /\ after = ")" -> Finish(2, more)
             [] LiteralAt(pos) /\ after \notin {",", ")"} ->
                  /\ stmt' = more
                  /\ pc' = "accepted"
                  /\ error' = TRUE
                  /\ UNCHANGED <<input, pos, left>>
             \* consumeValueLiteral sets no error at the end of the text.
             [] OTHER ->
                  /\ pc' = "accepted"
                  /\ error' = (error \/ pos <= Len(input))
                  /\ UNCHANGED <<input, pos, stmt, left>>

-----------------------------------------------------------------------------
(* UPDATE ... SET, and WHERE.                                              *)

parseUpdate ==
    /\ pc = "set"
    /\ IF IdentifierAt(pos) /\ TokenAt(pos + 1) = "=" /\ LiteralAt(pos + 2)
       THEN LET more == [stmt EXCEPT !.values = Append(@, <<TokenAt(pos), TokenAt(pos + 2)>>)]
            IN  IF TokenAt(pos + 3) = "," THEN Consume(4, pc, more) ELSE Consume(3, "where", more)
       ELSE Refuse

AfterWhere == IF stmt.kind = "Select" THEN "order" ELSE "finish"

parseWhere ==
    /\ pc = "where"
    /\ IF At("WHERE") THEN Consume(1, "predicate", stmt) ELSE Goto(AfterWhere)

parseFinish == pc = "finish" /\ Finish(0, stmt)

\* parsePrimExpr: a comparison, or null; how many tokens it consumed either way;
\* and whether it set error_.
Prim(node, n, e) == [node |-> node, n |-> n, error |-> e]

parsePrimExpr ==
    LET col == TokenAt(pos)
        op == TokenAt(pos + 1)
    IN  CASE ~IdentifierAt(pos) -> Prim(None, 0, TRUE)
          [] IdentifierAt(pos) /\ op = "IS" ->
               IF TokenAt(pos + 2) = "NULL" THEN Prim([op |-> "IS NULL", col |-> col], 3, FALSE)
               ELSE IF TokenAt(pos + 2) # "NOT" THEN Prim(None, 2, TRUE)
               ELSE IF TokenAt(pos + 3) = "NULL" THEN Prim([op |-> "IS NOT NULL", col |-> col], 4, FALSE)
               ELSE Prim(None, 3, TRUE)
          [] IdentifierAt(pos) /\ op \in Comparison ->
               IF LiteralAt(pos + 2)
               THEN Prim([op |-> op, col |-> col, val |-> TokenAt(pos + 2)], 3, FALSE)
               ELSE Prim(None, 2, pos + 2 <= Len(input))
          [] OTHER -> Prim(None, 1, TRUE)

Logical(op, l, r) == [op |-> op, kids |-> <<l, r>>]

\* The tree so far.  A WHERE whose only operand is null refuses the statement, a
\* null operand of AND or OR does not.
Tree == IF left.or = <<>> THEN left.and ELSE Logical("Or", left.or[1], left.and)

\* Mutant: OR and AND bind alike, from the left.
BugParseOperand ==
    /\ pc \in {"predicate", "and", "or"}
    /\ LET p == parsePrimExpr
       IN  /\ left' = [or |-> <<>>,
                       and |-> IF pc = "predicate" THEN p.node
                               ELSE Logical(IF pc = "and" THEN "And" ELSE "Or", left.and, p.node)]
           /\ pos' = pos + p.n
           /\ error' = (error \/ p.error)
    /\ pc' = "connective"
    /\ UNCHANGED <<input, stmt>>

parseOperand ==
    /\ pc \in {"predicate", "and", "or"}
    /\ LET p == parsePrimExpr
       IN  /\ left' = CASE pc = "predicate" -> [or |-> <<>>, and |-> p.node]
                        [] pc = "and" -> [left EXCEPT !.and = Logical("And", @, p.node)]
                        [] pc = "or" -> [or |-> <<Tree>>, and |-> p.node]
           /\ pos' = pos + p.n
           /\ error' = (error \/ p.error)
    /\ pc' = "connective"
    /\ UNCHANGED <<input, stmt>>

parseConnective ==
    /\ pc = "connective"
    /\ \/ At("AND") /\ Consume(1, "and", stmt)
       \/ At("OR") /\ Consume(1, "or", stmt)
       \/ /\ TokenAt(pos) \notin {"AND", "OR"}
          /\ IF Tree = None THEN Refuse ELSE Consume(0, AfterWhere, [stmt EXCEPT !.where = Tree])

-----------------------------------------------------------------------------
(* SELECT.  JOIN is looked for after WHERE, ORDER BY, LIMIT and OFFSET.    *)

parseProjections ==
    /\ pc = "projections"
    /\ LET more == [stmt EXCEPT !.proj = Append(@, TokenAt(pos))]
       IN  CASE At("*") /\ stmt.proj = <<>> -> Consume(1, "from", more)
             [] IdentifierAt(pos) ->
                  IF TokenAt(pos + 1) = "," THEN Consume(2, pc, more) ELSE Consume(1, "from", more)
             [] OTHER -> Refuse

parseFrom ==
    /\ pc = "from"
    /\ IF At("FROM") THEN Consume(1, "table", stmt) ELSE Refuse

parseOrderBy ==
    /\ pc = "order"
    /\ CASE AtPhrase(<<"ORDER", "BY">>) -> Consume(2, "orderColumn", stmt)
         [] ~At("ORDER") -> Goto("limit")
         [] OTHER -> Refuse

parseOrderColumn ==
    /\ pc = "orderColumn"
    /\ LET directed == TokenAt(pos + 1) \in {"ASC", "DESC"}
           p == pos + IF directed THEN 2 ELSE 1
           placed == TokenAt(p) = "NULLS"
           after == p + IF placed THEN 2 ELSE 0
           more == [stmt EXCEPT !.order = Append(@,
                      [column |-> TokenAt(pos), desc |-> TokenAt(pos + 1) = "DESC",
                       nulls |-> IF placed THEN TokenAt(p + 1) ELSE "default"])]
       IN  IF ~IdentifierAt(pos) \/ (placed /\ TokenAt(p + 1) \notin {"FIRST", "LAST"}) THEN Refuse
           ELSE IF TokenAt(after) = "," THEN Consume(after + 1 - pos, pc, more)
           ELSE Consume(after - pos, "limit", more)

\* Mutant: a count is taken for the limit whatever word comes before it.
BugParseLimit ==
    /\ pc = "limit"
    /\ IF TokenAt(pos) \notin {"LIMIT", "OFFSET"} THEN Goto("join")
       ELSE IF TokenAt(pos + 1) \notin Integer THEN Refuse
       ELSE Consume(2, pc, [stmt EXCEPT !.limit = <<SizeOf[TokenAt(pos + 1)]>>])

parseLimit ==
    /\ pc = "limit"
    /\ LET limited == At("LIMIT")
           p == pos + IF limited THEN 2 ELSE 0
           shifted == TokenAt(p) = "OFFSET"
           after == p + IF shifted THEN 2 ELSE 0
       IN  IF (limited /\ TokenAt(pos + 1) \notin Integer) \/ (shifted /\ TokenAt(p + 1) \notin Integer)
           THEN Refuse
           ELSE Consume(after - pos, "join",
                  [stmt EXCEPT !.limit = IF limited THEN <<SizeOf[TokenAt(pos + 1)]>> ELSE <<>>,
                               !.offset = IF shifted THEN <<SizeOf[TokenAt(p + 1)]>> ELSE <<>>])

\* INNER or LEFT without JOIN is swallowed.
parseJoin ==
    /\ pc = "join"
    /\ LET typed == TokenAt(pos) \in {"INNER", "LEFT"}
           p == pos + IF typed THEN 2 ELSE 1
           T(i) == TokenAt(p + i)
       IN  CASE TokenAt(p - 1) # "JOIN" -> Finish(IF typed THEN 1 ELSE 0, stmt)
             [] /\ TokenAt(p - 1) = "JOIN"
                /\ \A i \in {0, 2, 4, 6, 8} : IdentifierAt(p + i)
                /\ T(1) = "ON" /\ T(3) = "." /\ T(5) = "=" /\ T(7) = "." ->
                  Consume(p + 9 - pos, pc,
                    [stmt EXCEPT !.joins = Append(@,
                       [left |-> At("LEFT"), table |-> T(0),
                        leftColumn |-> <<T(2), T(4)>>, rightColumn |-> <<T(6), T(8)>>])])
             [] OTHER -> Refuse

-----------------------------------------------------------------------------
ParserInit ==
    /\ pos = 1
    /\ error = FALSE
    /\ pc = "statement"
    /\ stmt = Blank
    /\ left = [or |-> <<>>, and |-> None]

ParserNext ==
    \/ parseStatement \/ parseTable
    \/ parseDropTable \/ parseCreateTable \/ parseColumnSpec \/ parseConstraint
    \/ ColumnEnd \/ parsePartition \/ parseAlterTable
    \/ parseInsertColumn \/ parseInsert \/ parseInsertValueList
    \/ parseUpdate \/ parseWhere \/ parseFinish \/ parseOperand \/ parseConnective
    \/ parseProjections \/ parseFrom \/ parseOrderBy \/ parseOrderColumn
    \/ parseLimit \/ parseJoin
=============================================================================
