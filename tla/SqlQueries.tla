------------------------------ MODULE SqlQueries ------------------------------
(***************************************************************************)
(* The two ways a SELECT is answered.  A client sends a statement to the   *)
(* HTTP front-end: parseAll reads its text, and handleDml answers it when  *)
(* it is a SELECT (EngineDispatcher's runSession does the same with a      *)
(* session's commands); the text may be cut short anywhere.  Or an         *)
(* ICommandSource hands EngineLoop a command, as the scripted source of    *)
(* tests/EngineLoop.test.cpp does: no program of the repository leads SQL  *)
(* text to EngineLoop, and the REPL's source sends neither joins nor       *)
(* ORDER BY nor LIMIT.  "want" is what is meant: the statement, with its   *)
(* WHERE clause as a sequence of runs, an OR of ANDs.                      *)
(***************************************************************************)
EXTENDS SqlParser, QueryMeaning

CONSTANTS
    Wants,         \* what clients ask for in SQL
    Queries,       \* what command sources ask EngineLoop for
    Datasets       \* table contents: name -> sequence of rows

VARIABLES
    want,          \* what the client or the source means
    whole,         \* whether the text is all there
    data,          \* the tables
    phase,         \* "parsing" and then "answered", "passed on" or "crashed";
                   \* "asked" and then "presented"
    answer         \* the rows of the answer

vars == <<parserVars, want, whole, data, phase, answer>>

-----------------------------------------------------------------------------
(* From meaning to text.                                                   *)

Joined(ss, sep) ==
    FlattenSeq([i \in 1 .. 2 * Len(ss) - 1 |-> IF i % 2 = 1 THEN ss[(i + 1) \div 2] ELSE <<sep>>])

ComparisonText(c) ==
    CASE c.op = "IS NULL" -> <<c.col, "IS", "NULL">>
      [] c.op = "IS NOT NULL" -> <<c.col, "IS", "NOT", "NULL">>
      [] OTHER -> <<c.col, c.op, c.val>>

RunText(run) == Joined([i \in DOMAIN run |-> ComparisonText(run[i])], "AND")

WhereText(runs) ==
    IF runs = <<>> THEN <<>>
    ELSE <<"WHERE">> \o Joined([i \in DOMAIN runs |-> RunText(runs[i])], "OR")

OrderText(order) ==
    LET One(s) == <<s.column>> \o (IF s.desc THEN <<"DESC">> ELSE <<>>)
                    \o (IF s.nulls = "default" THEN <<>> ELSE <<"NULLS", s.nulls>>)
    IN  IF order = <<>> THEN <<>>
        ELSE <<"ORDER", "BY">> \o Joined([i \in DOMAIN order |-> One(order[i])], ",")

\* The token of an integer.
Digits(n) == CHOOSE t \in Integer : SizeOf[t] = n

CountText(word, n) == IF n = <<>> THEN <<>> ELSE <<word, Digits(n[1])>>

JoinText(joins) ==
    FlattenSeq([i \in DOMAIN joins |->
        LET j == joins[i]
        IN  <<IF j.left THEN "LEFT" ELSE "INNER", "JOIN", j.table, "ON", j.leftColumn[1], ".",
              j.leftColumn[2], "=", j.rightColumn[1], ".", j.rightColumn[2]>>])

ColumnText(c) ==
    <<c.name, c.type>> \o (IF c.primaryKey THEN <<"PRIMARY", "KEY">> ELSE <<>>)
    \o (IF ~c.nullable THEN <<"NOT", "NULL">> ELSE IF c.default = <<>> THEN <<>> ELSE <<"NULL">>)
    \o (IF c.default = <<>> THEN <<>> ELSE <<"DEFAULT">> \o c.default)

ColumnsText(cs) == Joined([i \in DOMAIN cs |-> ColumnText(cs[i])], ",")
ListText(ss) == <<"(">> \o Joined([i \in DOMAIN ss |-> <<ss[i]>>], ",") \o <<")">>

\* An INSERT whose values the client names, not only by their position.
Listed(s) == s.kind = "Insert" /\ \E i \in DOMAIN s.values : s.values[i][1] # Position(i)

\* The clauses of a SELECT that can follow its table, but JOIN.
Core(w) ==
    WhereText(w.runs) \o OrderText(w.stmt.order) \o CountText("LIMIT", w.stmt.limit)
    \o CountText("OFFSET", w.stmt.offset)

\* A statement in the order the parser wants its clauses; joinFirst puts JOIN
\* where README.md and API.md put it.
Text(w) ==
    LET s == w.stmt
        named(k) == [i \in DOMAIN s.values |-> s.values[i][k]]
    IN  CASE s.kind = "Select" ->
               <<"SELECT">> \o Joined([i \in DOMAIN s.proj |-> <<s.proj[i]>>], ",")
               \o <<"FROM", s.table>>
               \o (IF w.joinFirst THEN JoinText(s.joins) \o Core(w) ELSE Core(w) \o JoinText(s.joins))
          [] s.kind = "Insert" ->
               <<"INSERT", "INTO", s.table>> \o (IF Listed(s) THEN ListText(named(1)) ELSE <<>>)
               \o (IF s.values = <<>> THEN <<"DEFAULT", "VALUES">> ELSE <<"VALUES">> \o ListText(named(2)))
          [] s.kind = "Update" ->
               <<"UPDATE", s.table, "SET">>
               \o Joined([i \in DOMAIN s.values |-> <<s.values[i][1], "=", s.values[i][2]>>], ",")
               \o WhereText(w.runs)
          [] s.kind = "Delete" -> <<"DELETE", "FROM", s.table>> \o WhereText(w.runs)
          [] s.kind = "CREATE" ->
               <<"CREATE", "TABLE", s.table, "(">> \o ColumnsText(s.columns) \o <<")">>
               \o (IF s.partition = <<>> THEN <<>>
                   ELSE <<"PARTITION", "BY", "HASH", "(", s.partition[1], ")", "PARTITIONS", s.partition[2]>>)
          [] s.kind = "DROP" -> <<"DROP", "TABLE", s.table>>
          [] s.kind = "ALTER" ->
               <<"ALTER", "TABLE", s.table, s.spec[1], IF s.spec[1] = "RENAME" THEN "TO" ELSE "COLUMN">>
               \o (IF s.columns = <<>> THEN <<s.spec[2]>> ELSE ColumnsText(s.columns))
          [] s.kind = "Begin" -> <<"BEGIN", "TRANSACTION">>
          [] s.kind = "Commit" -> <<"COMMIT">>
          [] s.kind = "Rollback" -> <<"ROLLBACK">>

-----------------------------------------------------------------------------
(* Behaviour.                                                              *)

\* The predicate a command source builds with LogicalNode::make.
Node(op, kids) == IF Len(kids) = 1 THEN kids[1] ELSE [op |-> op, kids |-> kids]

Built(runs) ==
    IF runs = <<>> THEN None
    ELSE Node("Or", [i \in DOMAIN runs |-> Node("And", runs[i])])

InitText ==
    /\ want \in Wants
    /\ \E n \in 0 .. Len(Text(want)) :
          /\ input = SubSeq(Text(want), 1, n)
          /\ whole = (n = Len(Text(want)))
    /\ data \in IF whole /\ want.stmt.kind = "Select" THEN Datasets ELSE {CHOOSE d \in Datasets : TRUE}
    /\ phase = "parsing"

InitCommand ==
    /\ want \in Queries
    /\ data \in Datasets
    /\ input = <<>> /\ whole = FALSE
    /\ phase = "asked"

Init == (InitText \/ InitCommand) /\ ParserInit /\ answer = <<>>

Parse == phase = "parsing" /\ ParserNext /\ UNCHANGED <<want, whole, data, phase, answer>>

\* parseAll copies the statement, which ends the process at a null operand, and
\* executeStatement runs it: a SELECT is answered, the rest goes to storage.
Execute ==
    /\ pc = "accepted" /\ phase = "parsing"
    /\ \/ NullOperand(stmt.where) /\ phase' = "crashed" /\ UNCHANGED answer
       \/ /\ ~NullOperand(stmt.where) /\ stmt.kind = "Select"
          /\ phase' = "answered"
          /\ answer' = FrontEndRows(stmt, data)
       \/ ~NullOperand(stmt.where) /\ stmt.kind # "Select" /\ phase' = "passed on" /\ UNCHANGED answer
    /\ UNCHANGED <<parserVars, want, whole, data>>

\* EngineLoop::dispatch of the command, into the source's cursor.
DispatchSelect ==
    /\ phase = "asked"
    /\ answer' \in Answers([want.stmt EXCEPT !.where = Built(want.runs)], data)
    /\ phase' = "presented"
    /\ UNCHANGED <<parserVars, want, whole, data>>

Next == Parse \/ Execute \/ DispatchSelect

Spec == Init /\ [][Next]_vars

\* The parser and the executors are one thread's calls: they run to their end.
FairSpec == Spec /\ WF_vars(Next)

-----------------------------------------------------------------------------
(* Properties.                                                             *)

\* No other clause of a SELECT follows a JOIN.
JoinLast(w) == w.joinFirst /\ w.stmt.joins # <<>> => Core(w) = <<>>

\* UPDATE and DELETE without WHERE.
Unfiltered(w) == w.stmt.kind \in {"Update", "Delete"} /\ w.runs = <<>>

\* The tree of a WHERE clause holds of the rows its text holds of.
WhereMeans(node, runs) ==
    IF runs = <<>> THEN node = None
    ELSE node # None /\ \A i \in DOMAIN data[want.stmt.table] :
            evaluate(node, data[want.stmt.table][i]) = Holds(runs, data[want.stmt.table][i])

(* The whole text of a statement is accepted and read to its end, and what *)
(* the parser makes of it is what its author wrote: table, columns with    *)
(* their constraints, values, assignments, projection, order, counts and   *)
(* joins, and a condition that holds of the same rows (AND binds tighter   *)
(* than OR).  Three forms are left out, which the parser does not read so: *)
(* an INSERT with a column list, a SELECT with a clause behind JOIN, and   *)
(* UPDATE and DELETE without WHERE (see the end of this module)            *)
(* (SqlParser.cpp, every parse function).                                  *)
StatementMeansText ==
    pc \in Ended /\ whole /\ ~Listed(want.stmt) /\ JoinLast(want) /\ ~Unfiltered(want) =>
        /\ pc = "accepted" /\ ~error /\ pos > Len(input)
        /\ stmt = [want.stmt EXCEPT !.where = stmt.where]
        /\ want.stmt.joins = <<>> => WhereMeans(stmt.where, want.runs)

(* A SELECT over one table with a condition and a projection is answered   *)
(* by the HTTP front-end as its text says: the rows its WHERE clause holds *)
(* of, nulls satisfying no comparison, with the columns it names           *)
(* (HttpApi.hpp:209-230, Predicate.hpp, SqlParser::parseOrExpr).           *)
AnswerMeansText ==
    /\ phase = "answered" /\ whole
    /\ want.stmt.joins = <<>> /\ want.stmt.order = <<>>
    /\ want.stmt.limit = <<>> /\ want.stmt.offset = <<>>
    => Means(answer, want.stmt, want.runs, data)

\* ORDER BY names columns that are selected.
SortsBySelected(s) == s.proj = <<"*">> \/ \A i \in DOMAIN s.order : s.order[i].column \in ToSet(s.proj)

\* OFFSET + LIMIT is a size_t.
CountsFit(s) == s.offset # <<>> /\ s.limit # <<>> => s.offset[1] + s.limit[1] < SizeRange

\* Some JOIN may compare a null with a null.
NullIn(tb, col) == \E i \in DOMAIN data[tb] : col \in DOMAIN data[tb][i] /\ data[tb][i][col] = Null
NullsMeet(s) ==
    \E k \in DOMAIN s.joins :
        LET j == s.joins[k]
        IN  /\ NullIn(j.table, j.rightColumn[2])
            /\ NullIn(j.leftColumn[1], j.leftColumn[2]) \/ \E m \in 1 .. k - 1 : s.joins[m].left

(* EngineLoop answers a SELECT as its clauses say.  A JOIN gives every pair of    *)
(* rows that agree, a LEFT one also the rows that agree with none; chains  *)
(* go on from the rows so joined; nulls satisfy no condition and sort      *)
(* where ORDER BY puts them; LIMIT and OFFSET cut the sorted rows, however *)
(* far beyond them they reach.  Three things are needed: ORDER BY names    *)
(* columns that are selected, because rows are projected before they are   *)
(* sorted; OFFSET + LIMIT does not wrap; and no null of one join column    *)
(* meets a null of the other, which compare calls equal                    *)
(* (EngineLoop::dispatch, EngineLoop.hpp:100-283; Predicate.hpp).          *)
AnswerMeansCommand ==
    /\ phase = "presented"
    /\ SortsBySelected(want.stmt) /\ CountsFit(want.stmt) /\ ~NullsMeet(want.stmt)
    => Means(answer, want.stmt, want.runs, data)

(* Every loop of the parser ends, on every statement of the list and on    *)
(* every text that one of them can be cut short to                         *)
(* (SqlParser.cpp: the constraint, list, operand and JOIN loops).          *)
ParserEnds == phase = "parsing" ~> pc \in Ended

-----------------------------------------------------------------------------
(* What the documentation says of the same forms, and the code does not    *)
(* do.  No run checks these: each is violated.                             *)

(* README.md:83: a query over HTTP may have ORDER BY and LIMIT; it is      *)
(* answered with the rows these clauses leave, in their order              *)
(* (HttpApi.hpp:209-230 looks at neither).                                 *)
AnswerMeansClauses == phase = "answered" /\ whole => Means(answer, want.stmt, want.runs, data)

(* API.md:241: JOIN comes before WHERE, ORDER BY and LIMIT.  A SELECT that *)
(* is accepted in that form has been read to its end                       *)
(* (SqlParser::parseSelect, SqlParser.cpp:642-686).                        *)
AcceptedIsRead == pc = "accepted" /\ whole => pos > Len(input)

(* SqlParser.hpp:59, API.md:240: an INSERT may list its columns.  The      *)
(* values of one that is accepted carry the names listed                   *)
(* (SqlParser::parseInsert, SqlParser.cpp:499-534).                        *)
InsertNamesColumns ==
    pc = "accepted" /\ whole /\ Listed(want.stmt) => stmt.values = want.stmt.values

(* API.md:242-243: WHERE is optional in UPDATE and DELETE.  No whole text  *)
(* of that form makes the parser throw (SqlParser::parseDelete,            *)
(* SqlParser.cpp:726-740; the constructor of Command throws).              *)
WhereIsOptional == whole => pc # "thrown"
=============================================================================
