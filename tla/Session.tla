------------------------------- MODULE Session -------------------------------
(***************************************************************************)
(* The server: server.cpp reads lines and GlobalMainManager::Handle takes  *)
(* each through four stages, parse, resolve, execute and storage, each of  *)
(* which takes over what the one before holds; a stage that fails ends the *)
(* line, which gets one answer in any case.  An action is Init and Handle  *)
(* of one stage.  The tables are those of the default database; below      *)
(* Table the code is taken at its word (TableStore, RecordFile, Catalog)   *)
(* but for calls that fail, because the buffer pool has no frame, an index *)
(* refuses or the log buffer is full.                                      *)
(***************************************************************************)
EXTENDS SqlMeaning

CONSTANTS
  Lines,        \* lines that may be read, each of one or more commands
  Opened,       \* what the tables may be when the server starts
  Slots,        \* places of a table, in the order of a scan
  MaxLines,     \* bound: lines read
  MaxScript,    \* bound: lines of the file that the test command runs
  MaxFaults     \* bound: calls that fail

ASSUME SessionAssumption ==
  /\ \A line \in Lines : IsLine(line)
  /\ \A db \in Opened : \A t \in DOMAIN db : IsTable(db[t]) /\ DOMAIN db[t].rows \subseteq Slots
  /\ Slots \subseteq Nat /\ IsFiniteSet(Slots)
  /\ MaxLines \in Nat /\ MaxScript \in Nat /\ MaxFaults \in Nat
  /\ 2 * MaxLines <= IntMax   \* a line takes two ids at most, and an id is an int

VARIABLES
  state,          \* "reads", "died" or "ended", or the stage that is next
  pending,        \* lines given to Handle and not yet taken
  mains,          \* what the stages hold: sql, query, stmt
  txn_,           \* BaseMain::txn_ of the stages: the id of the Txn, 0 for none
  response_,      \* GlobalMainManager::response_
  tables,         \* the tables of the database
  leftover,       \* names of tables that only have files
  db_opens,       \* whether the default database can be opened
  global_txn_id,  \* Txn::global_txn_id
  asked, before,  \* history variables: the line being handled, the tables when
  answer, whole,  \*   it was taken, the last answer, whether its scan was whole,
  used, lines,    \*   the transactions that have written, the lines read and
  faults          \*   the calls that failed

history == <<asked, before, answer, whole, used, lines, faults>>
server  == <<pending, mains, txn_, response_, tables, leftover, db_opens, global_txn_id>>
vars    == <<state, server, history>>

Stages == {"Start", "Parse", "Resolve", "Execute", "Storage"}

NoLine  == Line(<<>>)
NoMains == [sql |-> NoLine, query |-> NullQuery, stmt |-> NullQuery]

\* What is printed: a text, the names of a SELECT's columns, its rows, a count.
Text(t)  == [text |-> t, header |-> <<>>, rows |-> <<>>, count |-> 0]
NoAnswer == Text("")

Fault == faults < MaxFaults /\ faults' = faults + 1

-----------------------------------------------------------------------------
(* The loop of server.cpp. *)

TypesLine ==
  /\ state = "reads" /\ pending = <<>> /\ lines < MaxLines
  /\ \E line \in Lines : pending' = <<line>>
  /\ lines' = lines + 1
  /\ UNCHANGED <<state, mains, txn_, response_, tables, leftover, db_opens, global_txn_id,
                 asked, before, answer, whole, used, faults>>

\* "t": the lines of a file, each given to Handle, with the answers in another
DoTest ==
  /\ state = "reads" /\ pending = <<>> /\ lines + MaxScript <= MaxLines
  /\ \E script \in [1 .. MaxScript -> Lines] : pending' = script
  /\ lines' = lines + MaxScript
  /\ UNCHANGED <<state, mains, txn_, response_, tables, leftover, db_opens, global_txn_id,
                 asked, before, answer, whole, used, faults>>

\* "exit;", any beginning of it and the empty line end the server.
Exit ==
  /\ state = "reads" /\ pending = <<>>
  /\ state' = "ended"
  /\ UNCHANGED <<server, history>>

\* GlobalMainManager::Handle: StartMain::SetSql
SetSql ==
  /\ state = "reads" /\ pending # <<>>
  /\ state' = "Parse"
  /\ mains' = [mains EXCEPT !.sql = Head(pending)]
  /\ pending' = Tail(pending)
  /\ asked' = Head(pending) /\ before' = tables /\ whole' = TRUE
  /\ UNCHANGED <<txn_, response_, tables, leftover, db_opens, global_txn_id, answer,
                 used, lines, faults>>

\* BaseMain::BaseSet: a stage takes the transaction of the one before.
BaseSet(from, to) == txn_' = [txn_ EXCEPT ![to] = txn_[from]]

\* SetResponse with a format: only if no text is set
SetResponse(text) == IF response_.text = "" THEN text ELSE response_

\* mutant: the text of the line stays
ResponseCleared_Never(text) == text

ResponseCleared(text) == NoAnswer

\* Response, Clear and the return of Handle: text is what the stage set last.
Respond(text) ==
  /\ answer' = IF text.text = "" THEN Text("SQL ENDED AND RESPONSE IS EMPTY") ELSE text
  /\ mains' = NoMains
  /\ response_' = ResponseCleared(text)
  /\ state' = "reads"

Dies ==
  /\ state' = "died"
  /\ UNCHANGED <<mains, response_, answer>>

-----------------------------------------------------------------------------
(* Parse and resolve. *)

\* A line without a command that makes a query ends the process: Parse asks
\* the null query for its flag.
ParseMain ==
  LET query == SqlParse(mains.sql)
  IN  /\ state = "Parse"
      /\ BaseSet("Start", "Parse")
      /\ IF query = NullQuery THEN Dies
         ELSE IF query = ErrorQuery THEN Respond(SetResponse(Text("SQL PARSE FAILED.")))
         ELSE /\ state' = "Resolve"
              /\ mains' = [mains EXCEPT !.query = query]
              /\ UNCHANGED <<response_, answer>>
      /\ UNCHANGED <<pending, tables, leftover, db_opens, global_txn_id, asked, before, whole,
                     used, lines, faults>>

\* A Txn takes the next id when it is made.
NewTxn == global_txn_id + 1

\* mutant: an INSERT finds the transaction of an earlier line
ResolveTxn_Kept(query) == IF txn_["Resolve"] = 0 THEN NewTxn ELSE txn_["Resolve"]

\* the Txn of InsertStatement::Handle, made before anything is checked
ResolveTxn(query) == NewTxn

ResolveMain ==
  LET query == mains.query
      r     == HandleStatement(tables, query)
  IN  /\ state = "Resolve"
      /\ IF ~db_opens
         THEN /\ Respond(SetResponse(Text("CAN NOT OPEN CURRENT DATABASE.")))
              /\ BaseSet("Parse", "Resolve")
              /\ UNCHANGED global_txn_id
         ELSE /\ IF query.scf = "Insert"
                 THEN /\ txn_' = [txn_ EXCEPT !["Resolve"] = ResolveTxn(query)]
                      /\ global_txn_id' = NewTxn
                 ELSE BaseSet("Parse", "Resolve") /\ UNCHANGED global_txn_id
              /\ IF HandleDies(query) THEN Dies
                 ELSE IF r.ok
                 THEN /\ state' = "Execute"
                      /\ mains' = [mains EXCEPT !.stmt = r.stmt]
                      /\ UNCHANGED <<response_, answer>>
                 ELSE Respond(SetResponse(Text(r.text)))
      /\ UNCHANGED <<pending, tables, leftover, db_opens, asked, before, whole, used,
                     lines, faults>>

-----------------------------------------------------------------------------
(* Execute: one action for each kind of statement. *)

\* The Execute stage ends: with Success the line goes on, else it is answered.
Succeeds(text) == /\ state' = "Storage"
                  /\ response_' = SetResponse(text)
                  /\ UNCHANGED <<mains, answer>>
Fails(text) == Respond(SetResponse(text))

Executes(scf) == state = "Execute" /\ mains.stmt.scf = scf

ScanOrder(slots) ==
  CHOOSE order \in [1 .. Cardinality(slots) -> slots] :
    \A i, j \in DOMAIN order : i < j => order[i] < order[j]

\* PrintTupleHeader and the rows
SelectAnswer(table, fields, slots) ==
  LET order == ScanOrder(slots)
  IN  [text |-> "rows",
       header |-> [i \in DOMAIN fields |-> table.fields[fields[i].at].name],
       rows |-> [i \in DOMAIN order |-> DescStrTuple(table, table.rows[order[i]], fields)],
       count |-> 0]

\* The slots a scan has seen when it ends: all, or those before a page that
\* got no frame.
Beginnings == {Slots} \cup {{s \in Slots : s < n} : n \in Slots}

ScanEnds(seen) == /\ whole' = (seen = Slots)
                  /\ IF whole' THEN UNCHANGED faults ELSE Fault

\* DoSelect: more than one table is not implemented.  The rows replace what is
\* set; where the scan failed the rows so far are the answer.
DoSelect ==
  LET stmt  == mains.stmt
      table == tables[stmt.tables[1]]
  IN  /\ Executes("Select")
      /\ BaseSet("Resolve", "Execute")
      /\ IF Len(stmt.tables) # 1 THEN Fails(NoAnswer) /\ UNCHANGED <<whole, faults>>
         ELSE \E kept \in LetThrough(table, stmt.filter), seen \in Beginnings :
                /\ ScanEnds(seen)
                /\ IF whole'
                   THEN /\ state' = "Storage"
                        /\ response_' = SelectAnswer(table, stmt.fields, kept)
                        /\ UNCHANGED <<mains, answer>>
                   ELSE Respond(SelectAnswer(table, stmt.fields, kept \cap seen))
      /\ UNCHANGED <<pending, tables, leftover, db_opens, global_txn_id, asked, before,
                     used, lines>>

\* DoCreateTable: a name that is taken is refused; a creation that fails leaves
\* a file, by which the name is refused from then on.
DoCreateTable ==
  LET q == mains.stmt
  IN  /\ Executes("CreateTable")
      /\ BaseSet("Resolve", "Execute")
      /\ IF q.rel \in DOMAIN tables \cup leftover
         THEN Fails(Text("CREATE TABLE FAILED")) /\ UNCHANGED <<tables, leftover, faults>>
         ELSE \/ /\ Succeeds(Text("CREATE TABLE SUCCEEDED."))
                 /\ tables' = [t \in DOMAIN tables \cup {q.rel} |->
                                 IF t = q.rel THEN [fields |-> <<TxnField>> \o q.attrs, rows |-> <<>>]
                                              ELSE tables[t]]
                 /\ UNCHANGED <<leftover, faults>>
              \/ /\ Fault
                 /\ Fails(Text("CREATE TABLE FAILED"))
                 /\ leftover' = leftover \cup {q.rel}
                 /\ UNCHANGED tables
      /\ UNCHANGED <<pending, db_opens, global_txn_id, asked, before, whole, used, lines>>

\* The number of the line, of those that were read.
LineNumber == lines - Len(pending)

Writes(txn) == used' = used \cup {[txn |-> txn, line |-> LineNumber]}

\* Txn::NextCurrentId: the Txn of an INSERT gets a new id when it has committed.
NextCurrentId == /\ global_txn_id' = global_txn_id + 1
                 /\ txn_' = [txn_ EXCEPT !["Resolve"] = global_txn_id + 1,
                                         !["Execute"] = global_txn_id + 1]

FirstFree(table) ==
  {s \in Slots \ DOMAIN table.rows : \A r \in Slots \ DOMAIN table.rows : s <= r}

\* The record is in its slot.
Placed(t, slot, values) ==
  LET row == MakeRecord(tables[t], values, txn_["Resolve"])
  IN  /\ tables' = [tables EXCEPT ![t].rows =
                      [s \in DOMAIN @ \cup {slot} |-> IF s = slot THEN row ELSE @[s]]]
      /\ Writes(txn_["Resolve"])

\* DoInsert: a record that gets no place or is refused by an index leaves
\* nothing; one whose log record met a full buffer stays, and so does one
\* whose commit did.
DoInsert ==
  LET stmt == mains.stmt
      free == FirstFree(tables[stmt.table])
  IN  /\ Executes("Insert")
      /\ \/ /\ IF free = {} THEN UNCHANGED faults ELSE Fault
            /\ Fails(Text("INSERT FAILED,INSERT RECORD FAILED"))
            /\ BaseSet("Resolve", "Execute")
            /\ UNCHANGED <<tables, global_txn_id, used>>
         \/ /\ \E slot \in free : Placed(stmt.table, slot, stmt.values)
            /\ \/ /\ Fault
                  /\ \/ Fails(Text("INSERT FAILED,INSERT RECORD FAILED"))
                     \/ Fails(Text("INSERT FAILED,CAN NOT APPEND LOG"))
                  /\ BaseSet("Resolve", "Execute")
                  /\ UNCHANGED global_txn_id
               \/ /\ Succeeds(Text("INSERT SUCCEEDED."))
                  /\ NextCurrentId
                  /\ UNCHANGED faults
      /\ UNCHANGED <<pending, leftover, db_opens, asked, before, whole, lines>>

Without(t, slots) ==
  tables' = [tables EXCEPT ![t].rows = [s \in DOMAIN @ \ slots |-> @[s]]]

Deleted(slots) == [Text("DELETE SUCCEEDED") EXCEPT !.count = Cardinality(slots)]

\* DoDelete: GetTxn makes the transaction.  A scan that fails ends it like one
\* that is complete; a record that cannot be deleted, and one whose log record
\* met a full buffer, end it with what was deleted; so does a commit that does.
DoDelete ==
  LET stmt == mains.stmt
      Txn(id) == txn_' = [txn_ EXCEPT !["Execute"] = id] /\ global_txn_id' = id
  IN  /\ Executes("Delete")
      /\ \E kept \in LetThrough(tables[stmt.table], stmt.filter), seen \in Beginnings :
           /\ Without(stmt.table, kept \cap seen)
           /\ \/ /\ ScanEnds(seen)
                 /\ Succeeds(Deleted(kept \cap seen))
                 /\ Txn(NewTxn + 1)
              \/ /\ Fault
                 /\ \/ kept # {} /\ Fails(Text("DELETE FAILED,HANDLE OPERATOR FAILED."))
                    \/ seen = Slots /\ Respond(Text("DELETE FAILED,CAN NOT APPEND LOG."))
                 /\ Txn(NewTxn)
                 /\ UNCHANGED whole
      /\ Writes(NewTxn)
      /\ UNCHANGED <<pending, leftover, db_opens, asked, before, lines>>

\* DoCreateIndex: the table and the field must be; a name that has a file, and
\* two records whose keys compare equal, refuse it.
DoCreateIndex ==
  LET attr == mains.stmt.attr
  IN  /\ Executes("CreateIndex")
      /\ BaseSet("Resolve", "Execute")
      /\ IF attr.rel \notin DOMAIN tables
         THEN Fails(Text("CREATE INDEX FAILED,NO SUCH TABLE"))
         ELSE \/ Fails(Text("CREATE INDEX FAILED"))
              \/ /\ GetField(tables[attr.rel].fields, attr.attr) # 0
                 /\ Succeeds(Text("CREATE INDEX SUCCEEDED."))
      /\ UNCHANGED <<pending, tables, leftover, db_opens, global_txn_id, asked, before, whole,
                     used, lines, faults>>

\* DROP TABLE is resolved and then refused: DoDropTable has no caller.
DropTable ==
  /\ Executes("DropTable")
  /\ BaseSet("Resolve", "Execute")
  /\ Fails(NoAnswer)
  /\ UNCHANGED <<pending, tables, leftover, db_opens, global_txn_id, asked, before, whole,
                 used, lines, faults>>

ExecuteMain == DoSelect \/ DoCreateTable \/ DoInsert \/ DoDelete \/ DoCreateIndex \/ DropTable

\* The last stage does nothing; the line is answered with what is set.
StorageMain ==
  /\ state = "Storage"
  /\ BaseSet("Execute", "Storage")
  /\ Respond(response_)
  /\ UNCHANGED <<pending, tables, leftover, db_opens, global_txn_id, asked, before, whole,
                 used, lines, faults>>

-----------------------------------------------------------------------------
Init ==
  /\ state = "reads" /\ pending = <<>> /\ mains = NoMains
  /\ txn_ = [s \in Stages |-> 0] /\ response_ = NoAnswer
  /\ tables \in Opened /\ leftover = {} /\ db_opens \in BOOLEAN /\ global_txn_id = 0
  /\ asked = NoLine /\ before = tables /\ answer = NoAnswer /\ whole = TRUE
  /\ used = {} /\ lines = 0 /\ faults = 0

\* There is no process any more.  With this step TLC reports a deadlock where a
\* line comes to a stage that does not end.
Stopped == state \in {"died", "ended"} /\ UNCHANGED vars

Next == \/ TypesLine \/ DoTest \/ Exit
        \/ SetSql \/ ParseMain \/ ResolveMain \/ ExecuteMain \/ StorageMain
        \/ Stopped

Spec == Init /\ [][Next]_vars

-----------------------------------------------------------------------------
(* What a client may rely on.  The last line is one command, in asked.     *)

Command == asked.commands[1]
Answered(cmd) == /\ state = "reads" /\ asked # NoLine
                 /\ Len(asked.commands) = 1
                 /\ Command.cmd = cmd

IsBeginning(part, all) == \E seen \in Beginnings : part = all \cap seen

\* The types of the variables.
TypeOK ==
  /\ state \in {"reads", "ended", "died", "Parse", "Resolve", "Execute", "Storage"}
  /\ pending \in Seq(Lines) /\ Len(pending) <= lines /\ lines <= MaxLines
  /\ \A t \in DOMAIN tables :
       IsTable(tables[t]) /\ DOMAIN tables[t].rows \subseteq Slots
  /\ txn_ \in [Stages -> 0 .. global_txn_id]
  /\ leftover \cap DOMAIN tables = {}
  /\ faults <= MaxFaults

\* A SELECT shows what it means: the columns in the order they are written,
\* and of the rows, in the order of the file, those its WHERE is true of, each
\* with the values it holds; if the scan failed, a beginning of them.
ShownAsMeant ==
  Answered("Select") /\ answer.text = "rows" =>
    LET table == before[Command.rels[1]]
    IN  (/\ Sound(table, Command.conds)
         /\ \A i \in DOMAIN Command.attrs : NamesColumns(table, Command.attrs[i])) =>
        \E slots \in SUBSET Slots :
          /\ IF whole THEN slots = Meant(table, Command.conds)
                      ELSE IsBeginning(slots, Meant(table, Command.conds))
          /\ answer.header = Columns(table, Command.attrs)
          /\ answer.rows = LET order == ScanOrder(slots)
                            IN  [i \in DOMAIN order |->
                                   Shown(table, table.rows[order[i]], Command.attrs)]

Others(t) == \A u \in DOMAIN before \ {t} : tables[u] = before[u]
Remains(t) == \A s \in DOMAIN tables[t].rows : tables[t].rows[s] = before[t].rows[s]

\* What a DELETE that ran may be answered with.
AfterDelete == {"DELETE SUCCEEDED", "DELETE FAILED,HANDLE OPERATOR FAILED.",
                "DELETE FAILED,CAN NOT APPEND LOG."}

\* A DELETE does what its answer says: SUCCEEDED and a count is what is gone,
\* the rows its WHERE is true of, or a beginning of them when the scan failed;
\* FAILED leaves no row gone but such ones; every other row stays.
DeletedAsAnswered ==
  Answered("Delete") =>
    IF Command.rel \notin DOMAIN before THEN tables = before
    ELSE LET t     == Command.rel
             gone  == DOMAIN before[t].rows \ DOMAIN tables[t].rows
             meant == Meant(before[t], Command.conds)
         IN  /\ Others(t) /\ Remains(t)
             /\ DOMAIN tables = DOMAIN before
             /\ answer.text = "DELETE SUCCEEDED" => answer.count = Cardinality(gone)
             /\ answer.text \notin AfterDelete => gone = {}
             /\ (answer.text \in AfterDelete /\ Sound(before[t], Command.conds)) =>
                  IF whole /\ answer.text # "DELETE FAILED,HANDLE OPERATOR FAILED."
                  THEN gone = meant ELSE IsBeginning(gone, meant)

\* An INSERT does what its answer says: SUCCEEDED is one row more, with the
\* values given, a string cut to the length of its field; FAILED is at most
\* that row, and any other answer is none.
InsertedAsAnswered ==
  Answered("Insert") =>
    IF Command.rel \notin DOMAIN before THEN tables = before
    ELSE LET t   == Command.rel
             new == DOMAIN tables[t].rows \ DOMAIN before[t].rows
         IN  /\ Others(t) /\ DOMAIN tables = DOMAIN before
             /\ DOMAIN before[t].rows \subseteq DOMAIN tables[t].rows
             /\ \A s \in DOMAIN before[t].rows : tables[t].rows[s] = before[t].rows[s]
             /\ new = {} \/ Cardinality(new) = 1
             /\ answer.text = "INSERT SUCCEEDED." => new # {}
             /\ answer.text \notin {"INSERT SUCCEEDED.", "INSERT FAILED,INSERT RECORD FAILED",
                                   "INSERT FAILED,CAN NOT APPEND LOG"} => new = {}
             /\ \A s \in new, i \in DOMAIN Command.values :
                  TextOf(tables[t].fields[i + 1].type, tables[t].rows[s][i + 1]) =
                    Given(tables[t].fields[i + 1], Command.values[i])

\* The texts of a statement.
TextsOf(cmd) ==
  CASE cmd = "Select" -> {"rows", "SELECT FAILED,NO SUCH TABLE", "SELECT FAILED,NO SUCH FIELD",
                          "SELECT FAILED,ATTR GIVEN NOT CLEARLY",
                          "SELECT FAILED,SOME FIELDS NOT FOUND"}
    [] cmd = "Delete" -> AfterDelete \cup {"DELETE FAILED,NO SUCH TABLE",
                                           "DELETE FAILED,SOME FIELDS NOT FOUND"}
    [] cmd = "Insert" -> {"INSERT SUCCEEDED.", "INSERT FAILED,INSERT RECORD FAILED",
                          "INSERT FAILED,CAN NOT APPEND LOG", "INSERT ERROR,INVALID GIVEN ARGS",
                          "INSERT ERROR,NO SUCH TABLE", "INSERT ERROR,VALUES NUM INVALID",
                          "INSERT ERROR,VALUES TYPE INVALID"}
    [] cmd = "CreateTable" -> {"CREATE TABLE SUCCEEDED.", "CREATE TABLE FAILED",
                               "CREATE TABLE FAILED,ATTRIBUTE LEN IS INVALID"}
    [] cmd = "CreateIndex" -> {"CREATE INDEX SUCCEEDED.", "CREATE INDEX FAILED",
                               "CREATE INDEX FAILED,NO SUCH TABLE"}
    [] OTHER -> {}

\* Each line is answered for itself: a line that yacc refuses or that finds no
\* database is told so, any other gets a text of its own kind or the text that
\* stands for none, also after lines that failed in any stage; and nothing but
\* INSERT, DELETE and CREATE TABLE changes the tables.
AnsweredForItself ==
  state = "reads" /\ asked # NoLine =>
    IF asked.error THEN answer.text = "SQL PARSE FAILED." /\ tables = before
    ELSE IF ~db_opens THEN answer.text = "CAN NOT OPEN CURRENT DATABASE." /\ tables = before
    ELSE LET cmd == asked.commands[Len(asked.commands)].cmd
         IN  /\ answer.text \in TextsOf(cmd) \cup {"SQL ENDED AND RESPONSE IS EMPTY"}
             /\ cmd \notin {"Insert", "Delete", "CreateTable"} => tables = before

\* Two lines never write under one transaction, whatever became of the first.
OwnTransaction == \A u, v \in used : u.txn = v.txn => u.line = v.line

=============================================================================
