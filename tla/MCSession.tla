------------------------------ MODULE MCSession ------------------------------
(* An instance of Session: two tables with rows, names of two more, and the *)
(* lines that lead each stage to each of its ends.                          *)
EXTENDS Session

\* characters; the last one is negative as a char
x == 1
y == 2
z == 3
e == 5

Ints(n)   == Value("Ints", <<n>>)
Floats(n) == Value("Floats", <<n>>)
Chars(s)  == Value("Chars", s)
A(name)   == RelAttr(NoName, name)
Select(attrs, rels, conds) == Line(<<SelectCommand(attrs, rels, conds)>>)
Delete(rel, conds)         == Line(<<DeleteCommand(rel, conds)>>)
Insert(rel, values)        == Line(<<InsertCommand(rel, values)>>)

\* t(a INT, s CHAR(2)): ints whose difference has no int of four bits; u(f
\* FLOAT, c CHAR(1), d CHAR(3)): strings that are as long as the field, and not;
\* floats between two hundredths, and on one
MCTables ==
  [t |-> [fields |-> <<TxnField, Field("a", "Ints", 4), Field("s", "Chars", 2)>>,
          rows |-> <<<< <<1>>, <<-7>>, <<x, 0>> >>, << <<2>>, <<3>>, <<x, y>> >> >>],
   u |-> [fields |-> <<TxnField, Field("f", "Floats", 4), Field("c", "Chars", 1),
                       Field("d", "Chars", 3)>>,
          rows |-> <<<< <<1>>, <<5>>, <<x>>, <<x, 0>> >>, << <<1>>, <<8>>, <<0>>, <<0>> >> >>]]

MCSelects ==
  { Select(<<Star>>, <<"t">>, <<>>),
    Select(<<A("s"), A("a")>>, <<"t">>, <<Condition(A("a"), "LessEqual", Ints(3))>>),
    Select(<<RelAttr("t", "a"), A("__txn")>>, <<"t">>,
           <<Condition(Ints(0), "LessThan", A("a")), Condition(A("s"), "NotEqual", Chars(<<x>>))>>),
    Select(<<A("a")>>, <<"t">>, <<Condition(A("s"), "LessThan", Chars(<<x, y, z>>))>>),
    Select(<<A("a")>>, <<"t">>, <<Condition(A("s"), "LessThan", Chars(<<x, y, e>>))>>),
    Select(<<A("a")>>, <<"t">>, <<Condition(A("a"), "EqualTo", Floats(3))>>),
    Select(<<A("c"), A("f")>>, <<"u">>, <<Condition(A("f"), "GreatThan", Floats(5))>>),
    Select(<<Star>>, <<"u">>, <<Condition(A("f"), "LessThan", Floats(7))>>),
    Select(<<A("d")>>, <<"u">>, <<Condition(A("c"), "EqualTo", RelAttr("u", "d"))>>),
    Select(<<A("a")>>, <<"t", "u">>, <<>>),
    Select(<<Star>>, <<"t", "u">>, <<>>),
    Select(<<A("none")>>, <<"t">>, <<>>),
    Select(<<A("a")>>, <<"t">>, <<Condition(A("none"), "EqualTo", Ints(1))>>),
    Select(<<A("a")>>, <<"t">>, <<Condition(A("a"), "EqualTo", Chars(<<x>>))>>),
    Select(<<Star>>, <<"v">>, <<>>) }

MCChanges ==
  { Insert("t", <<Ints(0), Chars(<<y>>)>>),
    Insert("t", <<Ints(-7), Chars(<<x, y, z>>)>>),
    Insert("u", <<Floats(10), Chars(<<y>>), Chars(<<y, e>>)>>),
    Insert("t", <<Chars(<<x>>), Ints(5)>>),
    Insert("t", <<Ints(5)>>),
    Line(<<InsertCommand("t", <<Ints(1)>>), InsertCommand("t", <<Chars(<<y>>)>>)>>),
    Insert("v", <<Ints(1), Chars(<<y>>)>>),
    Delete("t", <<Condition(A("a"), "GreatEqual", Ints(3))>>),
    Delete("t", <<Condition(A("a"), "EqualTo", Ints(3)), Condition(A("s"), "EqualTo", Chars(<<x>>))>>),
    Line(<<DeleteCommand("t", <<Condition(A("a"), "EqualTo", Ints(3))>>), DeleteCommand("u", <<>>)>>),
    Delete("t", <<>>),
    Delete("u", <<Condition(A("f"), "LessEqual", Floats(5))>>),
    Delete("u", <<Condition(A("f"), "EqualTo", Floats(5))>>),
    Delete("u", <<Condition(A("d"), "GreatThan", Chars(<<y>>))>>),
    Delete("v", <<Condition(A("none"), "EqualTo", Ints(1))>>) }

MCOthers ==
  { Line(<<CreateTableCommand("v", <<Field("k", "Ints", 4), Field("k", "Chars", 1)>>)>>),
    Line(<<CreateTableCommand("v", <<Field("k", "Ints", 2)>>)>>),
    Line(<<CreateTableCommand("w", <<Field("k", "Dates", 4)>>)>>),
    Line(<<CreateIndexCommand("i", RelAttr("t", "a"))>>),
    Line(<<CreateIndexCommand("i", RelAttr("v", "none"))>>),
    Line(<<DropTableCommand("t")>>),
    Line(<<OtherCommand>>),
    Line(<<UpdateCommand(Ints(5), <<Condition(A("a"), "EqualTo", Ints(3))>>),
           DeleteCommand("t", <<>>)>>),
    BadLine }

MCNames  == {NoName, AllFields, TxnName, "t", "u", "v", "w", "a", "s", "f", "c", "d", "k", "i", "none"}
MCLines  == MCSelects \cup MCChanges \cup MCOthers
MCOpened == {MCTables}

=============================================================================
