------------------------------ MODULE SqlParser ------------------------------
(***************************************************************************)
(* The semantic actions of the grammar (parse/yacc_sql.y, compiled as      *)
(* parse/yacc_sql.cpp) and the query structures of parse/parse_defs.h: how *)
(* the commands of one input line become one query.  A command is given by *)
(* its parts in the order they are written; what the lexer makes of the    *)
(* characters is left out.                                                 *)
(***************************************************************************)
EXTENDS Integers, Sequences, SequencesExt

CONSTANTS Names,       \* the identifiers of lines
          IntMax,      \* the greatest int
          SignBit      \* the least byte that is negative as a char (128)

\* A RelAttr; rel is NoName when the attribute is written without its table.
NoName == ""
AllFields == "*"
RelAttr(rel, attr) == [is |-> "attr", rel |-> rel, attr |-> attr]
Star == RelAttr(NoName, AllFields)

ASSUME NameAssumption == {NoName, AllFields} \subseteq Names
ASSUME IntAssumption  == IntMax \in Nat
ASSUME ByteAssumption == SignBit \in Nat \ {0}

\* A Value: data is <<n>> for a number, counted in a unit of which every float
\* is a multiple, and the bytes of a string.
Value(type, data) == [is |-> "value", type |-> type, data |-> data]

Condition(left, comp, right) == [left |-> left, comp |-> comp, right |-> right]

\* The commands of a line, by their parts.
SelectCommand(attrs, rels, conds) ==
  [cmd |-> "Select", attrs |-> attrs, rels |-> rels, conds |-> conds]
InsertCommand(rel, values)    == [cmd |-> "Insert", rel |-> rel, values |-> values]
DeleteCommand(rel, conds)     == [cmd |-> "Delete", rel |-> rel, conds |-> conds]
CreateTableCommand(rel, attrs) == [cmd |-> "CreateTable", rel |-> rel, attrs |-> attrs]
CreateIndexCommand(index, attr) == [cmd |-> "CreateIndex", index |-> index, attr |-> attr]
DropTableCommand(rel)         == [cmd |-> "DropTable", rel |-> rel]
\* UPDATE makes no query, and what it has put in the arrays stays there.
UpdateCommand(value, conds)   == [cmd |-> "Update", value |-> value, conds |-> conds]
\* DESC, SHOW TABLES, DROP INDEX, BEGIN, COMMIT, ROLLBACK, SYNC, HELP, EXIT
OtherCommand == [cmd |-> "other"]

-----------------------------------------------------------------------------
(* What the grammar makes of a line: its commands, all of one kind but for *)
(* those without a query.                                                  *)

AttrType == {"Chars", "Ints", "Floats", "Dates"}
CompOp   == {"EqualTo", "LessEqual", "NotEqual", "LessThan", "GreatEqual", "GreatThan"}
IntRange == -IntMax - 1 .. IntMax
Byte == 0 .. 2 * SignBit - 1

\* DATE literals leave no value; a string has no NUL.
Values     == [is : {"value"}, type : {"Ints"}, data : [1 .. 1 -> IntRange]]
                \cup [is : {"value"}, type : {"Floats"}, data : [1 .. 1 -> Int]]
                \cup [is : {"value"}, type : {"Chars"}, data : Seq(Byte \ {0})]
RelAttrs   == [is : {"attr"}, rel : Names, attr : Names]
Operands   == Values \cup RelAttrs
Conditions == [left : Operands, comp : CompOp, right : Operands]
AttrInfo   == [name : Names, type : AttrType, len : Int]

Commands ==
  [cmd : {"Select"}, attrs : Seq(RelAttrs), rels : Seq(Names), conds : Seq(Conditions)]
    \cup [cmd : {"Insert"}, rel : Names, values : Seq(Values)]
    \cup [cmd : {"Delete"}, rel : Names, conds : Seq(Conditions)]
    \cup [cmd : {"CreateTable"}, rel : Names, attrs : Seq(AttrInfo)]
    \cup [cmd : {"CreateIndex"}, index : Names, attr : RelAttrs]
    \cup [cmd : {"DropTable"}, rel : Names]
    \cup [cmd : {"Update"}, value : Values, conds : Seq(Conditions)]
    \cup {OtherCommand}

OneKind(commands) ==
  \A i \in DOMAIN commands :
    commands[i].cmd \in {commands[Len(commands)].cmd, "Update", "other"}

IsLine(line) == /\ line \in [commands : Seq(Commands), error : BOOLEAN]
                /\ OneKind(line.commands)

-----------------------------------------------------------------------------
(* ParserContext, and the queries its actions fill. *)

NullQuery  == [scf |-> "null"]
ErrorQuery == [scf |-> "Error"]

SelectQuery == [scf |-> "Select", attrs |-> <<>>, rels |-> <<>>, conds |-> <<>>]
InsertQuery == [scf |-> "Insert", rel |-> NoName, values |-> <<>>]
DeleteQuery == [scf |-> "Delete", rel |-> NoName, conds |-> <<>>]
CreateTableQuery == [scf |-> "CreateTable", rel |-> NoName, attrs |-> <<>>]
CreateIndexQuery == [scf |-> "CreateIndex", index |-> NoName, attr |-> Star]
DropTableQuery   == [scf |-> "DropTable", rel |-> NoName]

ParserContext == [query |-> NullQuery, values |-> <<>>, conditions |-> <<>>]

\* The query of the line; the first action that needs one makes it.
QueryOf(ctx, empty) == IF ctx.query = NullQuery THEN empty ELSE ctx.query

\* condition: the literals of both sides have been put in the array of values,
\* from whose end they are taken again.
ReduceCondition(ctx, c) ==
  LET right  == IF c.right.is = "value" THEN <<c.right>> ELSE <<>>
      values == ctx.values \o (IF c.left.is = "value" THEN <<c.left>> ELSE <<>>) \o right
      n      == Len(values)
  IN  [ctx EXCEPT !.values = values,
                  !.conditions = Append(@, Condition(
                    IF c.left.is = "value" THEN values[n - Len(right)] ELSE c.left,
                    c.comp,
                    IF c.right.is = "value" THEN values[n] ELSE c.right))]

ReduceWhere(ctx, conds) == FoldLeft(ReduceCondition, ctx, conds)

\* select: lists are right recursive, so that the last item is added first.
ReduceSelect(ctx, c) ==
  LET q  == QueryOf(ctx, SelectQuery)
      in == ReduceWhere(ctx, c.conds)
  IN  [in EXCEPT !.query = [q EXCEPT !.attrs = @ \o Reverse(c.attrs),
                                     !.rels  = @ \o Reverse(c.rels),
                                     !.conds = @ \o in.conditions],
                 !.conditions = <<>>]

ReduceInsert(ctx, c) ==
  LET q == QueryOf(ctx, InsertQuery)
  IN  [ctx EXCEPT !.query = [q EXCEPT !.rel = c.rel, !.values = @ \o ctx.values \o c.values],
                  !.values = <<>>]

ReduceDelete(ctx, c) ==
  LET q  == QueryOf(ctx, DeleteQuery)
      in == ReduceWhere(ctx, c.conds)
  IN  [in EXCEPT !.query = [q EXCEPT !.rel = c.rel, !.conds = @ \o in.conditions],
                 !.conditions = <<>>]

\* the attributes of CREATE TABLE are added in their order; without a length
\* each gets 4
ReduceCreateTable(ctx, c) ==
  LET q == QueryOf(ctx, CreateTableQuery)
  IN  [ctx EXCEPT !.query = [q EXCEPT !.rel = c.rel, !.attrs = @ \o c.attrs]]

ReduceCreateIndex(ctx, c) ==
  LET q == QueryOf(ctx, CreateIndexQuery)
  IN  [ctx EXCEPT !.query = [q EXCEPT !.index = c.index, !.attr = c.attr]]

ReduceDropTable(ctx, c) ==
  LET q == QueryOf(ctx, DropTableQuery)
  IN  [ctx EXCEPT !.query = [q EXCEPT !.rel = c.rel]]

ReduceUpdate(ctx, c) == ReduceWhere([ctx EXCEPT !.values = Append(@, c.value)], c.conds)

\* A command of a line.  A second command of another kind casts the query to
\* a type it does not have; lines of that sort are not modelled.
Reduce(ctx, c) ==
  CASE c.cmd = "Select"      -> ReduceSelect(ctx, c)
    [] c.cmd = "Insert"      -> ReduceInsert(ctx, c)
    [] c.cmd = "Delete"      -> ReduceDelete(ctx, c)
    [] c.cmd = "CreateTable" -> ReduceCreateTable(ctx, c)
    [] c.cmd = "CreateIndex" -> ReduceCreateIndex(ctx, c)
    [] c.cmd = "DropTable"   -> ReduceDropTable(ctx, c)
    [] c.cmd = "Update"      -> ReduceUpdate(ctx, c)
    [] c.cmd = "other"       -> ctx

\* A line is its commands and whether yacc met a syntax error in it.
Line(commands) == [commands |-> commands, error |-> FALSE]
BadLine        == [commands |-> <<>>, error |-> TRUE]

SqlParse(line) ==
  IF line.error THEN ErrorQuery ELSE FoldLeft(Reduce, ParserContext, line.commands).query

=============================================================================
