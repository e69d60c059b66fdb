----------------------------- MODULE Statements -----------------------------
(***************************************************************************)
(* What resolve/ and execute/ compute for one statement: names looked up   *)
(* in the opened tables, the filter of a WHERE, comparisons, predicates    *)
(* and projections of rows, and the record an INSERT makes.                *)
(* A database is a function from table names to [fields, rows]; the first  *)
(* field is the system field __txn.  A row is the bytes of each field that *)
(* were copied in: <<n>> for a number; for CHARS the characters and, where *)
(* it fits, the NUL, what follows being whatever was in memory.            *)
(***************************************************************************)
EXTENDS Integers, FiniteSets, SqlParser

CONSTANTS Epsilon,     \* the greatest difference of floats below 1E-6, in units
          Hundredth    \* units in 0.01

ASSUME FloatAssumption == Epsilon \in Nat /\ Hundredth \in Nat \ {0}

Field(name, type, len) == [name |-> name, type |-> type, len |-> len]
TxnName  == "__txn"
TxnField == Field(TxnName, "Ints", 4)

ASSUME TxnAssumption == TxnName \in Names

\* What the bytes of a field may be.
Holds(field, data) ==
  IF field.type = "Ints" THEN data \in [1 .. 1 -> IntRange]
  ELSE IF field.type # "Chars" THEN data \in [1 .. 1 -> Int]
  ELSE /\ data \in Seq(Byte) /\ Len(data) <= field.len
       /\ \A i \in 1 .. Len(data) - 1 : data[i] # 0
       /\ Len(data) < field.len => data # <<>> /\ data[Len(data)] = 0

IsRow(fields, row) == /\ row \in Seq(Seq(Int)) /\ Len(row) = Len(fields)
                      /\ \A i \in DOMAIN fields : Holds(fields[i], row[i])

\* Results of Statement::Handle: refused with a text (or none), or resolved.
Refused(text)  == [ok |-> FALSE, text |-> text, stmt |-> NullQuery]
Resolved(stmt) == [ok |-> TRUE, text |-> "", stmt |-> stmt]

\* the first of a set of indices, 0 if there is none
First(indices) ==
  IF indices = {} THEN 0 ELSE CHOOSE i \in indices : \A j \in indices : i <= j

\* TableMeta::GetField by name: 0 is nullptr
GetField(fields, name) == First({i \in DOMAIN fields : fields[i].name = name})

-----------------------------------------------------------------------------
(* Filters: names of a WHERE resolved, sides checked to be comparable. *)

\* GetTableAndField; default is NoName unless there is exactly one table.
TableOf(default, rels, o) ==
  IF o.rel = NoName THEN default ELSE IF o.rel \in ToSet(rels) THEN o.rel ELSE NoName

OperandRe(db, default, rels, o) ==
  IF o.is = "value" THEN "Success"
  ELSE LET t == TableOf(default, rels, o)
       IN  IF t = NoName THEN "SchemaTableNotExist"
           ELSE IF GetField(db[t].fields, o.attr) = 0 THEN "SchemaFieldNotExist"
           ELSE "Success"

\* FieldExpression or ValueExpression
ExpressionOf(db, default, rels, o) ==
  IF o.is = "value" THEN o
  ELSE LET t == TableOf(default, rels, o)
       IN  [is |-> "field", rel |-> t, at |-> GetField(db[t].fields, o.attr)]

TypeOf(db, e) == IF e.is = "value" THEN e.type ELSE db[e.rel].fields[e.at].type

IsComparable(db, left, right) ==
  LET types == {TypeOf(db, left), TypeOf(db, right)}
  IN  Cardinality(types) = 1 \/ types = {"Ints", "Floats"}

FilterUnit(db, default, rels, c) ==
  Condition(ExpressionOf(db, default, rels, c.left), c.comp,
            ExpressionOf(db, default, rels, c.right))

FilterUnitRe(db, default, rels, c) ==
  LET left  == OperandRe(db, default, rels, c.left)
      right == OperandRe(db, default, rels, c.right)
      unit  == FilterUnit(db, default, rels, c)
  IN  IF left # "Success" THEN left
      ELSE IF right # "Success" THEN right
      ELSE IF IsComparable(db, unit.left, unit.right) THEN "Success" ELSE "GenericError"

\* Filter::CreateFilter: the first condition that fails ends it
FilterRe(db, default, rels, conds) ==
  LET Re(i) == FilterUnitRe(db, default, rels, conds[i])
      first == First({i \in DOMAIN conds : Re(i) # "Success"})
  IN  IF first = 0 THEN "Success" ELSE Re(first)

CreateFilter(db, default, rels, conds) ==
  [i \in DOMAIN conds |-> FilterUnit(db, default, rels, conds[i])]

-----------------------------------------------------------------------------
(* Statement::Handle, by the kind of the query. *)

WildcardFields(db, t) ==
  [i \in 1 .. Len(db[t].fields) - 1 |-> [rel |-> t, at |-> i + 1]]

\* what one attribute of SELECT stands for, and the text if it is refused
SelectedFields(db, rels, a) ==
  LET t  == IF a.rel # NoName THEN a.rel ELSE rels[1]
      at == GetField(db[t].fields, a.attr)
  IN  IF a = Star
      THEN [text |-> "", fields |-> FlattenSeq([i \in DOMAIN rels |-> WildcardFields(db, rels[i])])]
      ELSE IF a.rel # NoName /\ a.rel \notin ToSet(rels)
      THEN [text |-> "SELECT FAILED,NO SUCH TABLE", fields |-> <<>>]
      ELSE IF a.rel = NoName /\ Len(rels) # 1
      THEN [text |-> "SELECT FAILED,ATTR GIVEN NOT CLEARLY", fields |-> <<>>]
      ELSE IF at = 0 THEN [text |-> "SELECT FAILED,NO SUCH FIELD", fields |-> <<>>]
      ELSE [text |-> "", fields |-> <<[rel |-> t, at |-> at]>>]

\* mutant: the attributes are taken in the order the parser left them in
AttrOrder_AsParsed(attrs) == attrs

\* from the last to the first, which is the order they were written in
AttrOrder(attrs) == Reverse(attrs)

HandleSelect(db, q) ==
  LET attrs   == AttrOrder(q.attrs)
      parts   == [i \in DOMAIN attrs |-> SelectedFields(db, q.rels, attrs[i])]
      bad     == First({i \in DOMAIN attrs : parts[i].text # ""})
      default == IF Len(q.rels) = 1 THEN q.rels[1] ELSE NoName
      re      == FilterRe(db, default, q.rels, q.conds)
  IN  IF ~(ToSet(q.rels) \subseteq DOMAIN db) THEN Refused("SELECT FAILED,NO SUCH TABLE")
      ELSE IF bad # 0 THEN Refused(parts[bad].text)
      ELSE IF re # "Success"
      THEN Refused(IF re = "SchemaFieldNotExist" THEN "SELECT FAILED,SOME FIELDS NOT FOUND" ELSE "")
      ELSE Resolved([scf |-> "Select", tables |-> q.rels,
                     fields |-> FlattenSeq([i \in DOMAIN parts |-> parts[i].fields]),
                     filter |-> CreateFilter(db, default, q.rels, q.conds)])

HandleInsert(db, q) ==
  LET user == Tail(db[q.rel].fields)
  IN  IF q.values = <<>> THEN Refused("INSERT ERROR,INVALID GIVEN ARGS")
      ELSE IF q.rel \notin DOMAIN db THEN Refused("INSERT ERROR,NO SUCH TABLE")
      ELSE IF Len(q.values) # Len(user) THEN Refused("INSERT ERROR,VALUES NUM INVALID")
      ELSE IF \E i \in DOMAIN user : q.values[i].type # user[i].type
      THEN Refused("INSERT ERROR,VALUES TYPE INVALID")
      ELSE Resolved([scf |-> "Insert", table |-> q.rel, values |-> q.values])

\* mutant: only the first condition is kept
DeleteConds_First(q) == IF q.conds = <<>> THEN <<>> ELSE <<q.conds[1]>>

DeleteConds(q) == q.conds

HandleDelete(db, q) ==
  LET re == FilterRe(db, q.rel, <<q.rel>>, DeleteConds(q))
  IN  IF q.rel \notin DOMAIN db THEN Refused("DELETE FAILED,NO SUCH TABLE")
      ELSE IF re # "Success"
      THEN Refused(IF re = "SchemaFieldNotExist" THEN "DELETE FAILED,SOME FIELDS NOT FOUND" ELSE "")
      ELSE Resolved([scf |-> "Delete", table |-> q.rel,
                     filter |-> CreateFilter(db, q.rel, <<q.rel>>, DeleteConds(q))])

\* An int or a float of another length than 4 and an empty string are refused;
\* a date ends the process (see HandleDies).
IsFieldValid(a) == IF a.type = "Chars" THEN a.len > 0 ELSE a.len = 4

\* What CREATE TABLE and INSERT make of a table.
IsTable(table) ==
  /\ table = [fields |-> table.fields, rows |-> table.rows]
  /\ table.fields \in Seq(AttrInfo) /\ table.fields # <<>> /\ table.fields[1] = TxnField
  /\ \A i \in DOMAIN table.fields :
       table.fields[i].type # "Dates" /\ IsFieldValid(table.fields[i])
  /\ \A s \in DOMAIN table.rows : IsRow(table.fields, table.rows[s])

HandleCreateTable(q) ==
  IF \E i \in DOMAIN q.attrs : ~IsFieldValid(q.attrs[i])
  THEN Refused("CREATE TABLE FAILED,ATTRIBUTE LEN IS INVALID") ELSE Resolved(q)

\* Statement::Handle of what CreateStatement made
HandleStatement(db, q) ==
  CASE q.scf = "Select"      -> HandleSelect(db, q)
    [] q.scf = "Insert"      -> HandleInsert(db, q)
    [] q.scf = "Delete"      -> HandleDelete(db, q)
    [] q.scf = "CreateTable" -> HandleCreateTable(q)
    [] OTHER                 -> Resolved(q)

\* the assertion of IsFieldValid: the fields before the date are valid
HandleDies(q) ==
  /\ q.scf = "CreateTable"
  /\ \E i \in DOMAIN q.attrs : /\ q.attrs[i].type = "Dates"
                               /\ \A j \in 1 .. i - 1 : IsFieldValid(q.attrs[j])

-----------------------------------------------------------------------------
(* Comparisons: the set of results the code may return. *)

Unit(type, len, data) == [type |-> type, len |-> len, data |-> data]

\* the difference, as an int
CompareInt(a, b) == ((a - b + IntMax + 1) % (2 * (IntMax + 1))) - (IntMax + 1)

\* res < epsilon where res < -epsilon is meant: numbers that are equal, or
\* greater by no more than Epsilon, are "less"; no float is the constant 1E-6
CompareFloat(a, b) == IF a - b > Epsilon THEN 1 ELSE -1

AnySign == {-1, 0, 1}

\* a byte as a char
Char(b) == IF b < SignBit THEN b ELSE b - 2 * SignBit

\* strncmp over the shorter length, by the bytes, and then the next char of the
\* longer side whichever side that is; beyond the bytes written it is any.
CompareString(a, b) ==
  LET max     == IF a.len < b.len THEN a.len ELSE b.len
      At(u, i) == IF i <= Len(u.data) THEN u.data[i] ELSE 0
      ends    == First({i \in 1 .. max : At(a, i) # At(b, i) \/ At(a, i) = 0})
      Rest(u) == IF max < Len(u.data) THEN {Char(u.data[max + 1])} ELSE AnySign
  IN  IF ends # 0 /\ At(a, ends) # At(b, ends) THEN {At(a, ends) - At(b, ends)}
      ELSE IF a.len > b.len THEN Rest(a)
      ELSE IF a.len < b.len THEN Rest(b) ELSE {0}

\* TupleUnit::Compare; for two types it ends without a return
Compare(a, b) ==
  IF a.type # b.type THEN AnySign
  ELSE CASE a.type = "Ints"   -> {CompareInt(a.data[1], b.data[1])}
         [] a.type = "Floats" -> {CompareFloat(a.data[1], b.data[1])}
         [] a.type = "Chars"  -> CompareString(a, b)

\* RowTuple::GetUnit finds the first field of the table with the field's name.
GetUnit(table, row, at) ==
  LET i == GetField(table.fields, table.fields[at].name)
  IN  Unit(table.fields[i].type, table.fields[i].len, row[i])

\* Expression::GetValue
GetValue(table, row, e) ==
  IF e.is = "value" THEN Unit(e.type, Len(e.data), e.data) ELSE GetUnit(table, row, e.at)

Satisfies(comp, c) ==
  CASE comp = "EqualTo"   -> c = 0
    [] comp = "NotEqual"  -> c # 0
    [] comp = "LessThan"  -> c < 0
    [] comp = "LessEqual" -> c <= 0
    [] comp = "GreatThan" -> c > 0
    [] comp = "GreatEqual" -> c >= 0

\* PredicateOperator::Predicate: what it may say of a row
Predicate(table, filter, row) ==
  LET Says(unit) == {Satisfies(unit.comp, c) :
                       c \in Compare(GetValue(table, row, unit.left),
                                     GetValue(table, row, unit.right))}
  IN  IF \E i \in DOMAIN filter : Says(filter[i]) = {FALSE} THEN {FALSE}
      ELSE IF \A i \in DOMAIN filter : Says(filter[i]) = {TRUE} THEN {TRUE}
      ELSE BOOLEAN

\* The slots of a table a predicate may let through.
LetThrough(table, filter) ==
  {kept \in SUBSET DOMAIN table.rows :
     \A s \in DOMAIN table.rows : (s \in kept) \in Predicate(table, filter, table.rows[s])}

\* Double2string: %.2f rounds to hundredths, halves to the even one
Hundredths(n) ==
  LET below == n \div Hundredth
      over  == 2 * (n % Hundredth)
  IN  IF over < Hundredth \/ (over = Hundredth /\ below % 2 = 0) THEN below ELSE below + 1

\* TupleUnit::ToString: the int, the hundredths of a float, or the characters
\* up to NUL or the length
Printed(u) ==
  CASE u.type = "Chars"  -> LET n == Len(u.data)
                            IN  SubSeq(u.data, 1, First({i \in 1 .. n : u.data[i] = 0} \cup {n + 1}) - 1)
    [] u.type = "Floats" -> <<Hundredths(u.data[1])>>
    [] OTHER             -> u.data

\* DescStrTuple over the projection
DescStrTuple(table, row, fields) ==
  [i \in DOMAIN fields |-> Printed(GetUnit(table, row, fields[i].at))]

\* mutant: room for the NUL is always taken
CharsKept_Terminated(data, len) ==
  SubSeq(Append(data, 0), 1, IF len > Len(data) + 1 THEN Len(data) + 1 ELSE len - 1)

\* what is copied of a string into a field of CHARS: no more than the string
CharsKept(data, len) ==
  SubSeq(Append(data, 0), 1, IF len > Len(data) + 1 THEN Len(data) + 1 ELSE len)

\* mutant: the values are laid over the system field
MakeRecord_NoTxn(table, values, txn) ==
  [i \in DOMAIN values |-> IF table.fields[i].type = "Chars"
                           THEN CharsKept(values[i].data, table.fields[i].len) ELSE values[i].data]

\* Table::MakeRecord and Txn::Init: the fields of the record
MakeRecord(table, values, txn) ==
  [i \in DOMAIN table.fields |->
     IF i = 1 THEN <<txn>>
     ELSE IF table.fields[i].type = "Chars"
     THEN CharsKept(values[i - 1].data, table.fields[i].len)
     ELSE values[i - 1].data]

=============================================================================
