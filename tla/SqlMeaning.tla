----------------------------- MODULE SqlMeaning -----------------------------
(***************************************************************************)
(* What one SQL command means, read off the command as it is written: the  *)
(* rows a WHERE is true of, by the values, and what a SELECT shows of      *)
(* them.  Nothing of the parser, of resolve/ or of execute/ is used; the   *)
(* server is checked against this.                                         *)
(***************************************************************************)
EXTENDS Statements

\* The value of a field: a number, or the characters of a string.
TextOf(type, data) ==
  IF type # "Chars" THEN data
  ELSE SubSeq(data, 1, First({i \in 1 .. Len(data) : data[i] = 0} \cup {Len(data) + 1}) - 1)

FieldAt(table, name) == CHOOSE i \in DOMAIN table.fields : table.fields[i].name = name

\* Names one field, and one only.
NamesField(table, o) == Cardinality({i \in DOMAIN table.fields : table.fields[i].name = o.attr}) = 1

TypeIn(table, o) == IF o.is = "value" THEN o.type ELSE table.fields[FieldAt(table, o.attr)].type
ValueOf(table, row, o) == IF o.is = "value" THEN o.data
                          ELSE TextOf(TypeIn(table, o), row[FieldAt(table, o.attr)])
WidthIn(table, o) == IF o.is = "value" THEN Len(o.data) ELSE table.fields[FieldAt(table, o.attr)].len

Begins(v, w) == Len(v) < Len(w) /\ v = SubSeq(w, 1, Len(v))

\* the order of two sequences of numbers, the shorter one first if it begins
\* the other: of one number it is the order of numbers
Less(v, w) ==
  \/ Begins(v, w)
  \/ \E i \in 1 .. (IF Len(v) < Len(w) THEN Len(v) ELSE Len(w)) :
       v[i] < w[i] /\ SubSeq(v, 1, i - 1) = SubSeq(w, 1, i - 1)

IsTrue(table, row, c) ==
  LET v == ValueOf(table, row, c.left)
      w == ValueOf(table, row, c.right)
  IN  CASE c.comp = "EqualTo"    -> v = w
        [] c.comp = "NotEqual"   -> v # w
        [] c.comp = "LessThan"   -> Less(v, w)
        [] c.comp = "LessEqual"  -> ~Less(w, v)
        [] c.comp = "GreatThan"  -> Less(w, v)
        [] c.comp = "GreatEqual" -> ~Less(v, w)

ByOrder(comp) == comp \notin {"EqualTo", "NotEqual"}

(***************************************************************************)
(* The comparisons that the code gets wrong or leaves open:                *)
(* an int with a float; floats that are equal, unless <= or > asks, and    *)
(* the order of floats of which the left is greater by no more than        *)
(* Epsilon; the order of ints whose difference has no int; the order of a  *)
(* string that fills its side and a longer one that it begins, if the next *)
(* char of the longer is positive and it stands on the right, or negative  *)
(* and it stands on the left; and equal strings that fill neither of two   *)
(* fields of different lengths.                                            *)
(***************************************************************************)
Blind(table, row, c) ==
  LET v == ValueOf(table, row, c.left)
      w == ValueOf(table, row, c.right)
      types == {TypeIn(table, c.left), TypeIn(table, c.right)}
  IN  \/ Cardinality(types) = 2
      \/ types = {"Floats"} /\ c.comp \notin {"LessEqual", "GreatThan"} /\ v = w
      \/ types = {"Floats"} /\ ByOrder(c.comp) /\ v[1] - w[1] \in 1 .. Epsilon
      \/ types = {"Ints"} /\ ByOrder(c.comp) /\ v[1] - w[1] \notin IntRange
      \/ types = {"Chars"} /\ ByOrder(c.comp)
           /\ Len(v) = WidthIn(table, c.left) /\ Begins(v, w) /\ w[Len(v) + 1] < SignBit
      \/ types = {"Chars"} /\ ByOrder(c.comp)
           /\ Len(w) = WidthIn(table, c.right) /\ Begins(w, v) /\ v[Len(w) + 1] >= SignBit
      \/ types = {"Chars"} /\ c.left.is = "attr" /\ c.right.is = "attr"
           /\ WidthIn(table, c.left) # WidthIn(table, c.right) /\ v = w
           /\ Len(v) < WidthIn(table, c.left) /\ Len(v) < WidthIn(table, c.right)

\* The rows a WHERE is true of, provided that each comparison is sound.
Sound(table, conds) ==
  /\ \A i \in DOMAIN conds : \A o \in {conds[i].left, conds[i].right} :
       o.is = "attr" => NamesField(table, o)
  /\ \A i \in DOMAIN conds, s \in DOMAIN table.rows : ~Blind(table, table.rows[s], conds[i])

Meant(table, conds) ==
  {s \in DOMAIN table.rows : \A i \in DOMAIN conds : IsTrue(table, table.rows[s], conds[i])}

\* What a SELECT names is one column each, and so is each that * stands for.
NamesColumns(table, a) ==
  IF a = Star THEN \A i \in DOMAIN table.fields :
                     NamesField(table, RelAttr(NoName, table.fields[i].name))
              ELSE NamesField(table, a)

\* Of the two hundredths around a float the nearer one, or else the even one.
Nearest(n) ==
  LET Away(h) == IF h * Hundredth < n THEN n - h * Hundredth ELSE h * Hundredth - n
      around  == {n \div Hundredth, n \div Hundredth + 1}
  IN  CHOOSE h \in around :
        \A g \in around \ {h} : Away(h) < Away(g) \/ (Away(h) = Away(g) /\ h % 2 = 0)

\* What is shown of a field: a float to the hundredth, the rest as it is.
ShownAs(type, data) == IF type = "Floats" THEN <<Nearest(data[1])>> ELSE TextOf(type, data)

\* What SELECT shows of a row.
Shown(table, row, attrs) ==
  LET Part(k) == ShownAs(table.fields[k].type, row[k])
  IN  FlattenSeq([i \in DOMAIN attrs |->
        IF attrs[i] = Star THEN [k \in 1 .. Len(row) - 1 |-> Part(k + 1)]
                           ELSE <<Part(FieldAt(table, attrs[i].attr))>>])

Columns(table, attrs) ==
  FlattenSeq([i \in DOMAIN attrs |->
    IF attrs[i] = Star THEN [k \in 1 .. Len(table.fields) - 1 |-> table.fields[k + 1].name]
                       ELSE <<attrs[i].attr>>])

\* What a field holds of a value it was given: a string is cut to its length.
Given(field, value) ==
  IF field.type = "Chars" THEN SubSeq(value.data, 1, IF Len(value.data) < field.len
                                                     THEN Len(value.data) ELSE field.len)
                          ELSE value.data

=============================================================================
