---------------------------- MODULE SessionProofs ----------------------------
(***************************************************************************)
(* Proofs about Session: the transactions of the lines, and what a line    *)
(* leads to, stage by stage, from the text to the answer.                  *)
(***************************************************************************)
EXTENDS Session, SequenceTheorems, FiniteSetTheorems, WellFoundedInduction, TLAPS

-----------------------------------------------------------------------------
(* The invariant of the transactions.  Ids come from a counter that an INSERT moves   *)
(* when it is resolved and once more when it commits, and that a DELETE     *)
(* moves when it is executed; stages keep the ids of earlier lines.  So the *)
(* one moment to be sure of is that between the stages of an INSERT: its id *)
(* is then the newest, and nothing was written under it.                    *)

TxnTypes ==
  /\ global_txn_id \in Nat
  /\ txn_ \in [Stages -> Nat]
  /\ mains = [sql |-> mains.sql, query |-> mains.query, stmt |-> mains.stmt]

\* Ids that have written were handed out.
UsedBelow(n) == \A u \in used : u.txn \in Nat /\ u.txn <= n

\* An INSERT on its way from resolve to execute.
InsertIsNewest ==
  state = "Execute" /\ mains.stmt.scf = "Insert" =>
    /\ txn_["Resolve"] = global_txn_id
    /\ \A u \in used : u.txn < global_txn_id

IInv == TxnTypes /\ UsedBelow(global_txn_id) /\ InsertIsNewest /\ OwnTransaction

-----------------------------------------------------------------------------
LEMMA Outcomes ==
  /\ \A text : Refused(text).ok = FALSE /\ Refused(text).text = text
  /\ \A stmt : Resolved(stmt).ok = TRUE /\ Resolved(stmt).stmt = stmt
BY DEF Refused, Resolved

\* What Statement::Handle makes of a query is a statement of its kind.
LEMMA InsertFromInsert ==
  ASSUME NEW db, NEW q, HandleStatement(db, q).ok # FALSE
  PROVE  HandleStatement(db, q).stmt.scf = "Insert" => q.scf = "Insert"
<1>1. CASE q.scf = "Select"
  <2>1. HandleStatement(db, q) = HandleSelect(db, q)
    BY <1>1 DEF HandleStatement
  <2>2. PICK a, b, c :
          HandleSelect(db, q) = Resolved([scf |-> "Select", tables |-> a, fields |-> b,
                                          filter |-> c])
    BY <2>1, Outcomes DEF HandleSelect
  <2> QED
    BY <2>1, <2>2, Outcomes
<1>2. CASE q.scf = "Delete"
  <2>1. HandleStatement(db, q) = HandleDelete(db, q)
    BY <1>2 DEF HandleStatement
  <2>2. PICK a, b :
          HandleDelete(db, q) = Resolved([scf |-> "Delete", table |-> a, filter |-> b])
    BY <2>1, Outcomes DEF HandleDelete
  <2> QED
    BY <2>1, <2>2, Outcomes
<1>3. CASE q.scf = "CreateTable"
  <2>1. HandleStatement(db, q) = HandleCreateTable(q)
    BY <1>3 DEF HandleStatement
  <2>2. HandleCreateTable(q) = Resolved(q)
    BY <2>1, Outcomes DEF HandleCreateTable
  <2> QED
    BY <2>1, <2>2, Outcomes
<1>4. CASE q.scf \notin {"Select", "Insert", "Delete", "CreateTable"}
  <2>1. HandleStatement(db, q) = Resolved(q)
    BY <1>4 DEF HandleStatement
  <2> QED
    BY <2>1, Outcomes
<1> QED
  BY <1>1, <1>2, <1>3, <1>4

LEMMA InitIInv == Init => IInv
<1> QED
  BY DEF Init, IInv, TxnTypes, UsedBelow, InsertIsNewest, OwnTransaction, NoMains

\* A step after which no INSERT waits for execution, and that neither hands out
\* an id nor writes.
LEMMA QuietStep ==
  ASSUME IInv, UNCHANGED <<used, global_txn_id>>, state' # "Execute",
         txn_' \in [Stages -> Nat],
         mains' = [sql |-> mains'.sql, query |-> mains'.query, stmt |-> mains'.stmt]
  PROVE  IInv'
<1> QED
  BY DEF IInv, TxnTypes, UsedBelow, InsertIsNewest, OwnTransaction

\* Lines taken over, a stage or the process that ends: mains keeps its parts.
LEMMA MainsParts ==
  ASSUME IInv,
         \/ UNCHANGED mains
         \/ mains' = NoMains
         \/ \E q : mains' = [mains EXCEPT !.query = q]
         \/ \E q : mains' = [mains EXCEPT !.sql = q]
         \/ \E q : mains' = [mains EXCEPT !.stmt = q]
  PROVE  mains' = [sql |-> mains'.sql, query |-> mains'.query, stmt |-> mains'.stmt]
<1> QED
  BY DEF IInv, TxnTypes, NoMains

LEMMA BaseSetType ==
  ASSUME IInv, NEW from \in Stages, NEW to \in Stages, BaseSet(from, to)
  PROVE  txn_' \in [Stages -> Nat]
<1> QED
  BY DEF IInv, TxnTypes, BaseSet

LEMMA ReadsSteps ==
  ASSUME IInv, TypesLine \/ DoTest \/ Exit \/ SetSql
  PROVE  IInv'
<1>1. /\ UNCHANGED <<used, global_txn_id, txn_>> /\ state' # "Execute"
      /\ UNCHANGED mains \/ \E q : mains' = [mains EXCEPT !.sql = q]
  BY DEF TypesLine, DoTest, Exit, SetSql, server, history
<1> QED
  BY <1>1, MainsParts, QuietStep DEF IInv, TxnTypes

LEMMA ParseStep ==
  ASSUME IInv, ParseMain
  PROVE  IInv'
<1>1. UNCHANGED <<used, global_txn_id>> /\ BaseSet("Start", "Parse")
  BY DEF ParseMain
<1>2. /\ state' # "Execute"
      /\ UNCHANGED mains \/ mains' = NoMains \/ \E q : mains' = [mains EXCEPT !.query = q]
  BY DEF ParseMain, Dies, Respond
<1> QED
  BY <1>1, <1>2, MainsParts, BaseSetType, QuietStep DEF Stages

\* An INSERT takes the next id; the rest go on with what they have.
LEMMA ResolveStep ==
  ASSUME IInv, ResolveMain
  PROVE  IInv'
<1> DEFINE r == HandleStatement(tables, mains.query)
<1>1. UNCHANGED used
  BY DEF ResolveMain
<1>2. /\ state' = "Execute" => r.ok /\ mains' = [mains EXCEPT !.stmt = r.stmt]
      /\ UNCHANGED mains \/ mains' = NoMains \/ mains' = [mains EXCEPT !.stmt = r.stmt]
  BY DEF ResolveMain, Dies, Respond
<1>3. mains' = [sql |-> mains'.sql, query |-> mains'.query, stmt |-> mains'.stmt]
  BY <1>2, MainsParts
<1>4. CASE global_txn_id' = global_txn_id + 1 /\ txn_' = [txn_ EXCEPT !["Resolve"] = global_txn_id + 1]
  <2>1. global_txn_id' \in Nat /\ txn_' \in [Stages -> Nat] /\ txn_'["Resolve"] = global_txn_id'
    BY <1>4 DEF IInv, TxnTypes, Stages
  <2>2. \A u \in used' : u.txn \in Nat /\ u.txn < global_txn_id'
    BY <1>1, <1>4 DEF IInv, TxnTypes, UsedBelow
  <2> QED
    BY <1>1, <1>3, <2>1, <2>2 DEF IInv, TxnTypes, UsedBelow, InsertIsNewest, OwnTransaction
<1>5. CASE /\ UNCHANGED global_txn_id /\ BaseSet("Parse", "Resolve")
           /\ state' = "Execute" => mains.query.scf # "Insert"
  <2>1. txn_' \in [Stages -> Nat]
    BY <1>5, BaseSetType DEF Stages
  <2>2. ~(state' = "Execute" /\ mains'.stmt.scf = "Insert")
    <3> SUFFICES ASSUME state' = "Execute", mains'.stmt.scf = "Insert" PROVE FALSE
      OBVIOUS
    <3>1. mains'.stmt = r.stmt /\ r.ok # FALSE
      BY <1>2 DEF IInv, TxnTypes
    <3> QED
      BY <1>5, <3>1, InsertFromInsert
  <2> QED
    BY <1>1, <1>3, <1>5, <2>1, <2>2
    DEF IInv, TxnTypes, UsedBelow, InsertIsNewest, OwnTransaction
<1>6. \/ global_txn_id' = global_txn_id + 1 /\ txn_' = [txn_ EXCEPT !["Resolve"] = global_txn_id + 1]
      \/ /\ UNCHANGED global_txn_id /\ BaseSet("Parse", "Resolve")
         /\ state' = "Execute" => mains.query.scf # "Insert"
  BY DEF ResolveMain, ResolveTxn, NewTxn, Dies, Respond
<1> QED
  BY <1>4, <1>5, <1>6

-----------------------------------------------------------------------------
(* The execute stage. *)

LEMMA NoInsertLeft ==
  ASSUME NEW text, Succeeds(text) \/ Fails(text) \/ Respond(text)
  PROVE  state' # "Execute" /\ (UNCHANGED mains \/ mains' = NoMains)
<1> QED
  BY DEF Succeeds, Fails, Respond

\* A line writes under an id that no line has written under.
LEMMA WritesNew ==
  ASSUME IInv, NEW id \in Nat, Writes(id), \A u \in used : u.txn < id,
         global_txn_id' \in Nat, id <= global_txn_id', state' # "Execute",
         txn_' \in [Stages -> Nat],
         mains' = [sql |-> mains'.sql, query |-> mains'.query, stmt |-> mains'.stmt]
  PROVE  IInv'
<1>1. used' = used \cup {[txn |-> id, line |-> LineNumber]}
  BY DEF Writes
<1>2. UsedBelow(global_txn_id)'
  BY <1>1 DEF IInv, TxnTypes, UsedBelow
<1>3. OwnTransaction'
  BY <1>1 DEF IInv, UsedBelow, OwnTransaction
<1> QED
  BY <1>2, <1>3 DEF IInv, TxnTypes, InsertIsNewest

LEMMA QuietExecuteSteps ==
  ASSUME IInv, DoSelect \/ DoCreateTable \/ DoCreateIndex \/ DropTable \/ StorageMain
  PROVE  IInv'
<1>1. UNCHANGED <<used, global_txn_id>>
  BY DEF DoSelect, DoCreateTable, DoCreateIndex, DropTable, StorageMain
<1>2. BaseSet("Resolve", "Execute") \/ BaseSet("Execute", "Storage")
  BY DEF DoSelect, DoCreateTable, DoCreateIndex, DropTable, StorageMain
<1>3. state' # "Execute" /\ (UNCHANGED mains \/ mains' = NoMains)
  <2>1. CASE DoSelect
    BY <2>1 DEF DoSelect, Fails, Respond
  <2>2. CASE DoCreateTable
    BY <2>2 DEF DoCreateTable, Succeeds, Fails, Respond
  <2>3. CASE DoCreateIndex
    BY <2>3 DEF DoCreateIndex, Succeeds, Fails, Respond
  <2>4. CASE DropTable \/ StorageMain
    BY <2>4, NoInsertLeft DEF DropTable, StorageMain
  <2> QED
    BY <2>1, <2>2, <2>3, <2>4
<1> QED
  BY <1>1, <1>2, <1>3, MainsParts, BaseSetType, QuietStep DEF Stages

LEMMA InsertStep ==
  ASSUME IInv, DoInsert
  PROVE  IInv'
<1> DEFINE id == txn_["Resolve"]
<1>1. id = global_txn_id /\ id \in Nat /\ \A u \in used : u.txn < id
  BY DEF DoInsert, Executes, IInv, InsertIsNewest, TxnTypes
<1>2. state' # "Execute" /\ (UNCHANGED mains \/ mains' = NoMains)
  BY DEF DoInsert, Succeeds, Fails, Respond
<1>3. mains' = [sql |-> mains'.sql, query |-> mains'.query, stmt |-> mains'.stmt]
  BY <1>2, MainsParts
<1>4. \/ BaseSet("Resolve", "Execute") /\ UNCHANGED global_txn_id
      \/ NextCurrentId /\ Writes(id)
  BY DEF DoInsert, Placed
<1>5. UNCHANGED used \/ Writes(id)
  BY DEF DoInsert, Placed
<1>6. global_txn_id' \in Nat /\ id <= global_txn_id' /\ txn_' \in [Stages -> Nat]
  <2>1. CASE NextCurrentId
    <3>1. global_txn_id' = global_txn_id + 1 /\ id = global_txn_id /\ global_txn_id \in Nat
      BY <1>1, <2>1 DEF NextCurrentId
    <3>2. txn_' \in [Stages -> Nat]
      BY <2>1, <3>1 DEF NextCurrentId, IInv, TxnTypes, Stages
    <3> QED
      BY <3>1, <3>2
  <2>2. CASE BaseSet("Resolve", "Execute") /\ UNCHANGED global_txn_id
    BY <1>1, <2>2, BaseSetType DEF Stages
  <2> QED
    BY <1>4, <2>1, <2>2
<1>7. CASE Writes(id)
  BY <1>1, <1>2, <1>3, <1>6, <1>7, WritesNew
<1>8. CASE UNCHANGED used /\ UNCHANGED global_txn_id
  BY <1>2, <1>3, <1>6, <1>8, QuietStep
<1> QED
  BY <1>4, <1>5, <1>7, <1>8

LEMMA DeleteStep ==
  ASSUME IInv, DoDelete
  PROVE  IInv'
<1> DEFINE id == global_txn_id + 1
<1>1. id \in Nat /\ \A u \in used : u.txn < id
  BY DEF IInv, TxnTypes, UsedBelow
<1>2. Writes(id)
  BY DEF DoDelete, NewTxn
<1>3. state' # "Execute" /\ (UNCHANGED mains \/ mains' = NoMains)
  BY DEF DoDelete, Succeeds, Fails, Respond
<1>4. mains' = [sql |-> mains'.sql, query |-> mains'.query, stmt |-> mains'.stmt]
  BY <1>3, MainsParts
<1>5. PICK n \in {id, id + 1} : txn_' = [txn_ EXCEPT !["Execute"] = n] /\ global_txn_id' = n
  BY DEF DoDelete, NewTxn
<1>6. global_txn_id' \in Nat /\ id <= global_txn_id' /\ txn_' \in [Stages -> Nat]
  <2>1. n \in Nat /\ id <= n /\ txn_ \in [Stages -> Nat]
    BY <1>1, <1>5 DEF IInv, TxnTypes
  <2> QED
    BY <1>5, <2>1 DEF Stages
<1> QED
  BY <1>1, <1>2, <1>3, <1>4, <1>6, WritesNew

LEMMA NextIInv == IInv /\ [Next]_vars => IInv'
<1> SUFFICES ASSUME IInv, [Next]_vars PROVE IInv'
  OBVIOUS
<1>1. CASE UNCHANGED vars
  BY <1>1 DEF vars, server, history, IInv, TxnTypes, UsedBelow, InsertIsNewest, OwnTransaction
<1>2. CASE ParseMain \/ ResolveMain
  BY <1>2, ParseStep, ResolveStep
<1>3. CASE DoInsert \/ DoDelete
  BY <1>3, InsertStep, DeleteStep
<1> QED
  BY <1>1, <1>2, <1>3, ReadsSteps, QuietExecuteSteps DEF Next, ExecuteMain, Stopped

\* The strengthening is an invariant.
THEOREM IdsHandedOut == Spec => []IInv
<1> QED
  BY InitIInv, NextIInv, PTL DEF Spec

\* Two lines never write under one transaction, for every set of lines.
THEOREM TransactionsAreOwn == Spec => []OwnTransaction
<1>1. IInv => OwnTransaction
  BY DEF IInv
<1> QED
  BY IdsHandedOut, <1>1, PTL

-----------------------------------------------------------------------------
(* A line takes two ids at most, so ids are ints as long as MaxLines says.  *)

IdsFit ==
  /\ pending \in Seq(Lines) /\ lines \in Nat /\ Len(pending) <= lines /\ lines <= MaxLines
  /\ global_txn_id <= 2 * LineNumber
  /\ state \in {"Parse", "Resolve"} => global_txn_id + 2 <= 2 * LineNumber
  /\ state = "Execute" =>
       global_txn_id + (IF mains.stmt.scf = "Delete" THEN 2 ELSE 1) <= 2 * LineNumber

\* The server has taken no line.
LEMMA InitIdsFit == Init => IdsFit
BY SessionAssumption DEF Init, IdsFit, LineNumber

\* Lines that are read are not taken yet.
LEMMA LinesFit ==
  ASSUME IInv, IdsFit, TypesLine \/ DoTest \/ Exit \/ SetSql
  PROVE  IdsFit'
<1>1. /\ global_txn_id \in Nat /\ lines \in Nat /\ MaxLines \in Nat /\ MaxScript \in Nat
      /\ pending \in Seq(Lines) /\ Len(pending) \in Nat
  BY SessionAssumption DEF IInv, TxnTypes, IdsFit
<1>2. CASE TypesLine
  <2>1. PICK line \in Lines : pending' = <<line>>
    BY <1>2 DEF TypesLine
  <2>2. pending' \in Seq(Lines) /\ Len(pending') = 1 /\ Len(pending) = 0
    BY <1>2, <2>1 DEF TypesLine
  <2>3. /\ lines' = lines + 1 /\ lines < MaxLines /\ state' = "reads"
        /\ UNCHANGED global_txn_id
    BY <1>2 DEF TypesLine
  <2> QED
    BY <1>1, <2>2, <2>3 DEF IdsFit, LineNumber
<1>3. CASE DoTest
  <2>1. PICK script \in [1 .. MaxScript -> Lines] : pending' = script
    BY <1>3 DEF DoTest
  <2>2. pending' \in Seq(Lines) /\ Len(pending') = MaxScript /\ Len(pending) = 0
    BY <1>1, <1>3, <2>1 DEF DoTest
  <2>3. /\ lines' = lines + MaxScript /\ lines + MaxScript <= MaxLines /\ state' = "reads"
        /\ UNCHANGED global_txn_id
    BY <1>3 DEF DoTest
  <2> QED
    BY <1>1, <2>2, <2>3 DEF IdsFit, LineNumber
<1>4. CASE Exit
  BY <1>4 DEF Exit, server, history, IdsFit, LineNumber
<1>5. CASE SetSql
  <2>1. pending # <<>> /\ pending' = Tail(pending) /\ state' = "Parse"
        /\ UNCHANGED <<lines, global_txn_id>>
    BY <1>5 DEF SetSql
  <2>2. pending' \in Seq(Lines) /\ Len(pending') = Len(pending) - 1 /\ Len(pending) > 0
    BY <1>1, <2>1
  <2> QED
    BY <1>1, <2>1, <2>2 DEF IdsFit, LineNumber
<1> QED
  BY <1>2, <1>3, <1>4, <1>5

\* What Statement::Handle makes of an INSERT is one.
LEMMA InsertsStay ==
  ASSUME NEW db, NEW q, q.scf = "Insert", HandleStatement(db, q).ok
  PROVE  HandleStatement(db, q).stmt.scf = "Insert"
<1>1. HandleStatement(db, q) = HandleInsert(db, q)
  BY DEF HandleStatement
<1>2. \/ \E text : HandleInsert(db, q) = Refused(text)
      \/ HandleInsert(db, q) = Resolved([scf |-> "Insert", table |-> q.rel, values |-> q.values])
  BY DEF HandleInsert
<1> QED
  BY <1>1, <1>2, Outcomes

\* Stages take ids: one when an INSERT is resolved, one more when it commits,
\* two at most when a DELETE is executed.
LEMMA StagesFit ==
  ASSUME IInv, IdsFit, ParseMain \/ ResolveMain \/ ExecuteMain \/ StorageMain
  PROVE  IdsFit'
<1> DEFINE n == 2 * LineNumber
<1>1. /\ global_txn_id \in Nat /\ n \in Int
      /\ pending \in Seq(Lines) /\ lines \in Nat /\ Len(pending) <= lines /\ lines <= MaxLines
      /\ global_txn_id <= n
      /\ state \in {"Parse", "Resolve"} => global_txn_id + 2 <= n
      /\ state = "Execute" =>
           global_txn_id + (IF mains.stmt.scf = "Delete" THEN 2 ELSE 1) <= n
  BY DEF IInv, TxnTypes, IdsFit, LineNumber
<1>2. UNCHANGED <<pending, lines>>
  BY DEF ParseMain, ResolveMain, ExecuteMain, DoSelect, DoCreateTable, DoInsert, DoDelete,
         DoCreateIndex, DropTable, StorageMain
<1>3. n' = n
  BY <1>2 DEF LineNumber
<1>4. SUFFICES
        /\ global_txn_id' <= n
        /\ state' \in {"Parse", "Resolve"} => global_txn_id' + 2 <= n
        /\ state' = "Execute" =>
             global_txn_id' + (IF mains'.stmt.scf = "Delete" THEN 2 ELSE 1) <= n
  BY <1>1, <1>2, <1>3 DEF IdsFit
<1> HIDE DEF n
<1>5. CASE ParseMain
  <2>1. /\ UNCHANGED global_txn_id /\ state = "Parse"
        /\ state' \in {"reads", "died", "Resolve"}
    BY <1>5 DEF ParseMain, Dies, Respond
  <2> QED
    BY <1>1, <2>1
<1>6. CASE ResolveMain
  <2> DEFINE r == HandleStatement(tables, mains.query)
  <2>1. /\ state = "Resolve" /\ global_txn_id' \in {global_txn_id, global_txn_id + 1}
        /\ state' \in {"reads", "died", "Execute"}
    BY <1>6 DEF ResolveMain, NewTxn, Dies, Respond
  <2>2. /\ state' = "Execute" => r.ok /\ mains' = [mains EXCEPT !.stmt = r.stmt]
        /\ state' = "Execute" =>
             UNCHANGED global_txn_id \/ mains.query.scf = "Insert"
    BY <1>6 DEF ResolveMain, Dies, Respond
  <2>3. ASSUME state' = "Execute", global_txn_id' = global_txn_id + 1
        PROVE  mains'.stmt.scf # "Delete"
    <3>1. mains.query.scf = "Insert" /\ r.ok /\ mains'.stmt = r.stmt
      BY <1>1, <2>2, <2>3 DEF IInv, TxnTypes
    <3> QED
      BY <3>1, InsertsStay
  <2>4. CASE state' = "Execute" /\ global_txn_id' = global_txn_id + 1
    BY <1>1, <2>1, <2>3, <2>4
  <2>5. CASE ~(state' = "Execute" /\ global_txn_id' = global_txn_id + 1)
    <3>1. PICK d \in {1, 2} : d = IF mains'.stmt.scf = "Delete" THEN 2 ELSE 1
      OBVIOUS
    <3>2. state' = "Execute" => global_txn_id' = global_txn_id
      BY <2>1, <2>5
    <3>3. global_txn_id + 2 <= n /\ global_txn_id + d <= n
      BY <1>1, <2>1, <3>1
    <3>4. global_txn_id' <= n
      BY <1>1, <2>1
    <3> QED
      BY <2>1, <3>1, <3>2, <3>3, <3>4
  <2> QED
    BY <2>4, <2>5
<1>7. CASE StorageMain
  BY <1>1, <1>7 DEF StorageMain, Respond
<1>8. CASE DoSelect \/ DoCreateTable \/ DoCreateIndex \/ DropTable
  <2>1. UNCHANGED global_txn_id
    BY <1>8 DEF DoSelect, DoCreateTable, DoCreateIndex, DropTable
  <2>2. state' \in {"reads", "Storage"}
    BY <1>8 DEF DoSelect, DoCreateTable, DoCreateIndex, DropTable, Succeeds, Fails, Respond
  <2> QED
    BY <1>1, <2>1, <2>2
<1>9. CASE DoInsert
  <2>1. /\ state = "Execute" /\ mains.stmt.scf = "Insert" /\ state' \in {"reads", "Storage"}
        /\ global_txn_id' \in {global_txn_id, global_txn_id + 1}
    BY <1>9 DEF DoInsert, Executes, Succeeds, Fails, Respond, NextCurrentId
  <2>2. state' \notin {"Parse", "Resolve", "Execute"}
    BY ONLY <2>1
  <2>3. global_txn_id + 1 <= n
    <3>1. (IF mains.stmt.scf = "Delete" THEN 2 ELSE 1) = 1
      BY ONLY <2>1
    <3> QED
      BY <1>1, <2>1, <3>1
  <2>4. global_txn_id' <= n
    <3>1. /\ global_txn_id \in Nat /\ n \in Int /\ global_txn_id + 1 <= n
          /\ \/ global_txn_id' = global_txn_id
             \/ global_txn_id' = global_txn_id + 1
      BY <1>1, <2>1, <2>3
    <3> QED
      BY ONLY <3>1
  <2> QED
    BY <2>2, <2>4
<1>10. CASE DoDelete
  <2>1. /\ state = "Execute" /\ mains.stmt.scf = "Delete" /\ state' \in {"reads", "Storage"}
        /\ global_txn_id' \in {global_txn_id + 1, global_txn_id + 1 + 1}
    BY <1>10 DEF DoDelete, Executes, Succeeds, Fails, Respond, NewTxn
  <2>2. state' \notin {"Parse", "Resolve", "Execute"}
    BY ONLY <2>1
  <2>3. global_txn_id + 2 <= n
    <3>1. (IF mains.stmt.scf = "Delete" THEN 2 ELSE 1) = 2
      BY ONLY <2>1
    <3> QED
      BY <1>1, <2>1, <3>1
  <2>4. global_txn_id' <= n
    <3>1. /\ global_txn_id \in Nat /\ n \in Int /\ global_txn_id + 2 <= n
          /\ \/ global_txn_id' = global_txn_id + 1
             \/ global_txn_id' = global_txn_id + 1 + 1
      BY <1>1, <2>1, <2>3
    <3> QED
      BY ONLY <3>1
  <2> QED
    BY <2>2, <2>4
<1> QED
  BY <1>5, <1>6, <1>7, <1>8, <1>9, <1>10 DEF ExecuteMain

\* Every step.
LEMMA NextIdsFit == IInv /\ IdsFit /\ [Next]_vars => IdsFit'
<1> SUFFICES ASSUME IInv, IdsFit, [Next]_vars PROVE IdsFit'
  OBVIOUS
<1>1. CASE UNCHANGED vars
  BY <1>1 DEF vars, server, history, IdsFit, LineNumber
<1> QED
  BY <1>1, LinesFit, StagesFit DEF Next, Stopped

\* The last id is an int.
LEMMA LastIdIsInt ==
  ASSUME IInv, IdsFit
  PROVE  global_txn_id \in 0 .. IntMax
<1>1. /\ global_txn_id \in Nat /\ lines \in Nat /\ Len(pending) \in Nat /\ MaxLines \in Nat
      /\ lines <= MaxLines /\ global_txn_id <= 2 * (lines - Len(pending))
  BY SessionAssumption DEF IInv, TxnTypes, IdsFit, LineNumber
<1>2. 2 * MaxLines <= IntMax /\ IntMax \in Nat
  BY SessionAssumption, IntAssumption
<1>3. \A g, l, p, m, h \in Nat :
        l <= m /\ g <= 2 * (l - p) /\ 2 * m <= h => g \in 0 .. h
  OBVIOUS
<1> QED
  BY <1>1, <1>2, <1>3

\* No line takes more than two transaction ids, so that as long as twice the lines
\* is an int every id handed out is one, and fits the field of a row it is kept in.
THEOREM IdsAreInts == Spec => []IdsFit
<1> QED
  BY InitIdsFit, NextIdsFit, IdsHandedOut, PTL DEF Spec

-----------------------------------------------------------------------------
(* Natural numbers: the greatest member of a set, for the folds of the     *)
(* parser, which are over sets of indices.                                 *)

\* A set of natural numbers has a least member.
LEMMA LeastNatural ==
  ASSUME NEW T \in SUBSET Nat, T # {}
  PROVE  \E x \in T : \A y \in T : x <= y
<1> DEFINE R == OpToRel(<, Nat)
<1>1. \A x, y \in Nat : x < y => <<x, y>> \in R
  BY DEF OpToRel
<1>2. PICK x \in T : \A y \in T : <<y, x>> \notin R
  <2>1. IsWellFoundedOn(R, Nat)
    BY NatLessThanWellFounded
  <2> HIDE DEF R
  <2> QED
    BY <2>1, WFMin
<1> HIDE DEF R
<1>3. ASSUME NEW y \in T PROVE x <= y
  <2>1. ~(y < x)
    BY <1>1, <1>2
  <2> QED
    BY <2>1
<1> QED
  BY <1>3

\* A set of bounded natural numbers has a greatest member.
LEMMA GreatestNatural ==
  ASSUME NEW n \in Nat, NEW T \in SUBSET (0 .. n), T # {}
  PROVE  \E x \in T : \A y \in T : y <= x
<1> DEFINE D == {n - x : x \in T}
<1>1. D \in SUBSET Nat /\ D # {}
  <2>1. \A x \in T : n - x \in Nat
    OBVIOUS
  <2>2. D \subseteq Nat
    BY <2>1
  <2>3. PICK x \in T : TRUE
    OBVIOUS
  <2>4. n - x \in D
    OBVIOUS
  <2> QED
    BY <2>2, <2>4
<1>2. PICK d \in D : \A e \in D : d <= e
  <2> HIDE DEF D
  <2> QED
    BY <1>1, LeastNatural
<1>3. PICK x \in T : d = n - x
  BY <1>2
<1>4. ASSUME NEW y \in T PROVE y <= x
  <2>1. n - y \in D
    OBVIOUS
  <2> QED
    BY <1>2, <1>3, <2>1
<1> QED
  BY <1>4

\* without its greatest number a set of numbers from 1 to k is one up to k - 1
LEMMA GreatestOut ==
  ASSUME NEW k \in Nat, NEW s \in SUBSET (1 .. k), s # {}
  PROVE  k # 0 /\ Max(s) \in s /\ s \ {Max(s)} \in SUBSET (1 .. k - 1)
<1>1. PICK x \in s : \A y \in s : y <= x
  <2>1. s \in SUBSET (0 .. k)
    OBVIOUS
  <2> QED
    BY <2>1, GreatestNatural
<1>2. \A x1, y1 \in s : x1 <= y1 <=> y1 >= x1
  OBVIOUS
<1>3. Max(s) \in s /\ \A y \in s : Max(s) >= y
  BY <1>1, <1>2 DEF Max
<1> DEFINE m == Max(s)
<1>4. m \in s /\ \A y \in s : m >= y
  BY <1>3
<1> HIDE DEF m
<1>5. m \in Nat /\ m # 0 /\ m <= k
  BY <1>4
<1>6. k # 0 /\ \A y \in s \ {m} : y \in 1 .. k - 1
  <2> SUFFICES ASSUME NEW y \in s \ {m} PROVE y \in 1 .. k - 1
    BY <1>5
  <2>1. y \in Nat /\ y # 0 /\ y <= m /\ y # m
    BY <1>4
  <2> QED
    BY <1>5, <2>1
<1>7. k # 0 /\ m \in s /\ s \ {m} \in SUBSET (1 .. k - 1)
  BY <1>4, <1>6
<1> QED
  BY <1>7 DEF m

\* The greatest of the numbers from 1 to j, and what is left without it.
LEMMA GreatestOfFirst ==
  ASSUME NEW j \in Nat, j # 0
  PROVE  Max(1 .. j) = j /\ (1 .. j) \ {Max(1 .. j)} = 1 .. j - 1
<1>1. j \in 1 .. j /\ \A y \in 1 .. j : j >= y
  OBVIOUS
<1>2. Max(1 .. j) \in 1 .. j /\ \A y \in 1 .. j : Max(1 .. j) >= y
  BY <1>1 DEF Max
<1>3. Max(1 .. j) = j
  BY <1>1, <1>2
<1> QED
  BY <1>3

\* A set of numbers that has 0, and j with j - 1, has all up to n.
LEMMA CountUp ==
  ASSUME NEW n \in Nat, NEW S, 0 \in S, \A j \in 1 .. n : j - 1 \in S => j \in S
  PROVE  \A j \in 0 .. n : j \in S
<1> DEFINE T == {j \in 0 .. n : j \notin S}
<1>1. T = {}
  <2> SUFFICES ASSUME T # {} PROVE FALSE
    OBVIOUS
  <2>1. PICK k \in T : \A j \in T : k <= j
    <3>1. T \in SUBSET Nat
      OBVIOUS
    <3> HIDE DEF T
    <3> QED
      BY <3>1, LeastNatural
  <2>2. k \in 1 .. n /\ k \notin S
    BY <2>1
  <2>3. k - 1 \in 0 .. n /\ ~(k <= k - 1)
    BY <2>2
  <2>4. k - 1 \in S
    BY <2>1, <2>3
  <2> QED
    BY <2>2, <2>4
<1> QED
  BY <1>1

-----------------------------------------------------------------------------
(* The folds of the parser, as a list of what each step leaves.            *)

WhereStep(ctx, conds, fold, s) ==
  IF s = {} THEN ctx ELSE ReduceCondition(fold[s \ {Max(s)}], conds[Max(s)])

WhereFold(ctx, conds) ==
  CHOOSE fold : fold = [s \in SUBSET DOMAIN conds |-> WhereStep(ctx, conds, fold, s)]

\* ReduceWhere is the fold at the set of all the conditions.
LEMMA WhereIsFold ==
  ASSUME NEW ctx, NEW conds
  PROVE  ReduceWhere(ctx, conds) = WhereFold(ctx, conds)[DOMAIN conds]
BY DEF ReduceWhere, FoldLeft, MapThenFoldSet, WhereFold, WhereStep

\* The fold exists: it is what it says at every set of conditions, by induction
\* on the greatest member.
LEMMA WhereDefined ==
  ASSUME NEW ctx, NEW conds, NEW n \in Nat, DOMAIN conds = 1 .. n
  PROVE  \A s \in SUBSET (1 .. n) :
           WhereFold(ctx, conds)[s] = WhereStep(ctx, conds, WhereFold(ctx, conds), s)
<1> DEFINE F(w, k) == w = [s \in SUBSET (1 .. k) |-> WhereStep(ctx, conds, w, s)]
           T == {k \in 0 .. n : \E w : F(w, k)}
<1>1. 0 \in T
  <2> DEFINE w == [s \in SUBSET (1 .. 0) |-> ctx]
  <2>1. \A s \in SUBSET (1 .. 0) : s = {}
    OBVIOUS
  <2>2. F(w, 0)
    BY <2>1 DEF WhereStep
  <2> HIDE DEF w, F
  <2>3. 0 \in 0 .. n /\ \E v : F(v, 0)
    BY <2>2
  <2> QED
    BY <2>3
<1>2. ASSUME NEW k \in 1 .. n, k - 1 \in T PROVE k \in T
  <2>1. PICK g : F(g, k - 1)
    BY <1>2
  <2> DEFINE h == [s \in SUBSET (1 .. k) |-> WhereStep(ctx, conds, g, s)]
  <2>2. ASSUME NEW s \in SUBSET (1 .. k)
        PROVE  WhereStep(ctx, conds, h, s) = WhereStep(ctx, conds, g, s)
    <3>1. CASE s = {}
      BY <3>1 DEF WhereStep
    <3>2. CASE s # {}
      <4> DEFINE rest == s \ {Max(s)}
      <4>1. rest \in SUBSET (1 .. k - 1)
        BY <3>2, GreatestOut
      <4>2. rest \in SUBSET (1 .. k)
        OBVIOUS
      <4>3. h[rest] = g[rest]
        BY <2>1, <4>1, <4>2
      <4> HIDE DEF h
      <4> QED
        BY <3>2, <4>3 DEF WhereStep
    <3> QED
      BY <3>1, <3>2
  <2>3. F(h, k)
    BY <2>2
  <2> HIDE DEF h, F
  <2>4. k \in 0 .. n /\ \E v : F(v, k)
    BY <2>3
  <2> QED
    BY <2>4
<1>3. \E w : F(w, n)
  <2>1. n \in 0 .. n
    OBVIOUS
  <2> HIDE DEF F
  <2>2. \A k \in 0 .. n : k \in T
    <3> HIDE DEF T
    <3> QED
      BY <1>1, <1>2, CountUp
  <2> QED
    BY <2>1, <2>2
<1>4. \E w : w = [s \in SUBSET DOMAIN conds |-> WhereStep(ctx, conds, w, s)]
  BY <1>3
<1> HIDE DEF F, T
<1>5. WhereFold(ctx, conds) =
        [s \in SUBSET DOMAIN conds |-> WhereStep(ctx, conds, WhereFold(ctx, conds), s)]
  BY <1>4 DEF WhereFold
<1> QED
  BY <1>5

\* The contexts after each condition of a WHERE.
WhereRun(w, ctx, conds, n) ==
  /\ w[0] = ctx /\ w[n] = ReduceWhere(ctx, conds)
  /\ \A j \in 1 .. n : w[j] = ReduceCondition(w[j - 1], conds[j])

\* There are such contexts.
LEMMA WhereSteps ==
  ASSUME NEW ctx, NEW conds, NEW n \in Nat, DOMAIN conds = 1 .. n
  PROVE  \E w : WhereRun(w, ctx, conds, n)
<1> DEFINE fold == WhereFold(ctx, conds)
           w == [j \in 0 .. n |-> fold[1 .. j]]
<1>1. \A s \in SUBSET (1 .. n) : fold[s] = WhereStep(ctx, conds, fold, s)
  BY WhereDefined
<1>2. ReduceWhere(ctx, conds) = fold[1 .. n]
  BY WhereIsFold
<1> HIDE DEF fold
<1>3. fold[1 .. 0] = ctx
  <2>1. 1 .. 0 = {} /\ 1 .. 0 \in SUBSET (1 .. n)
    OBVIOUS
  <2> QED
    BY <1>1, <2>1 DEF WhereStep
<1>4. ASSUME NEW j \in 1 .. n
      PROVE  fold[1 .. j] = ReduceCondition(fold[1 .. j - 1], conds[j])
  <2>1. 1 .. j \in SUBSET (1 .. n) /\ 1 .. j # {} /\ j \in Nat /\ j # 0
    <3>1. j \in Nat /\ j # 0 /\ j \in 1 .. j
      OBVIOUS
    <3>2. \A i \in 1 .. j : i \in 1 .. n
      OBVIOUS
    <3> QED
      BY <3>1, <3>2
  <2>2. Max(1 .. j) = j /\ (1 .. j) \ {Max(1 .. j)} = 1 .. j - 1
    BY <2>1, GreatestOfFirst
  <2>3. fold[1 .. j] = ReduceCondition(fold[(1 .. j) \ {Max(1 .. j)}], conds[Max(1 .. j)])
    BY <1>1, <2>1 DEF WhereStep
  <2> QED
    BY <2>2, <2>3
<1>5. w[0] = ctx /\ w[n] = ReduceWhere(ctx, conds)
  BY <1>2, <1>3
<1>6. ASSUME NEW j \in 1 .. n PROVE w[j] = ReduceCondition(w[j - 1], conds[j])
  <2>1. j \in 0 .. n /\ j - 1 \in 0 .. n
    OBVIOUS
  <2>2. w[j] = fold[1 .. j] /\ w[j - 1] = fold[1 .. j - 1]
    BY <2>1
  <2> QED
    BY <1>4, <2>2
<1> QED
  BY <1>5, <1>6 DEF WhereRun

LineStep(commands, fold, s) ==
  IF s = {} THEN ParserContext ELSE Reduce(fold[s \ {Max(s)}], commands[Max(s)])

LineFold(commands) ==
  CHOOSE fold : fold = [s \in SUBSET DOMAIN commands |-> LineStep(commands, fold, s)]

\* The parser's fold over the commands is LineFold at the set of all of them.
LEMMA LineIsFold ==
  ASSUME NEW commands
  PROVE  FoldLeft(Reduce, ParserContext, commands) = LineFold(commands)[DOMAIN commands]
BY DEF FoldLeft, MapThenFoldSet, LineFold, LineStep

\* That fold exists.
LEMMA LineDefined ==
  ASSUME NEW commands, NEW n \in Nat, DOMAIN commands = 1 .. n
  PROVE  \A s \in SUBSET (1 .. n) :
           LineFold(commands)[s] = LineStep(commands, LineFold(commands), s)
<1> DEFINE F(w, k) == w = [s \in SUBSET (1 .. k) |-> LineStep(commands, w, s)]
           T == {k \in 0 .. n : \E w : F(w, k)}
<1>1. 0 \in T
  <2> DEFINE w == [s \in SUBSET (1 .. 0) |-> ParserContext]
  <2>1. \A s \in SUBSET (1 .. 0) : s = {}
    OBVIOUS
  <2>2. F(w, 0)
    BY <2>1 DEF LineStep
  <2> HIDE DEF w, F
  <2>3. 0 \in 0 .. n /\ \E v : F(v, 0)
    BY <2>2
  <2> QED
    BY <2>3
<1>2. ASSUME NEW k \in 1 .. n, k - 1 \in T PROVE k \in T
  <2>1. PICK g : F(g, k - 1)
    BY <1>2
  <2> DEFINE h == [s \in SUBSET (1 .. k) |-> LineStep(commands, g, s)]
  <2>2. ASSUME NEW s \in SUBSET (1 .. k)
        PROVE  LineStep(commands, h, s) = LineStep(commands, g, s)
    <3>1. CASE s = {}
      BY <3>1 DEF LineStep
    <3>2. CASE s # {}
      <4> DEFINE rest == s \ {Max(s)}
      <4>1. rest \in SUBSET (1 .. k - 1)
        BY <3>2, GreatestOut
      <4>2. rest \in SUBSET (1 .. k)
        OBVIOUS
      <4>3. h[rest] = g[rest]
        BY <2>1, <4>1, <4>2
      <4> HIDE DEF h
      <4> QED
        BY <3>2, <4>3 DEF LineStep
    <3> QED
      BY <3>1, <3>2
  <2>3. F(h, k)
    BY <2>2
  <2> HIDE DEF h, F
  <2>4. k \in 0 .. n /\ \E v : F(v, k)
    BY <2>3
  <2> QED
    BY <2>4
<1>3. \E w : F(w, n)
  <2>1. n \in 0 .. n
    OBVIOUS
  <2> HIDE DEF F
  <2>2. \A k \in 0 .. n : k \in T
    <3> HIDE DEF T
    <3> QED
      BY <1>1, <1>2, CountUp
  <2> QED
    BY <2>1, <2>2
<1>4. \E w : w = [s \in SUBSET DOMAIN commands |-> LineStep(commands, w, s)]
  BY <1>3
<1> HIDE DEF F, T
<1>5. LineFold(commands) =
        [s \in SUBSET DOMAIN commands |-> LineStep(commands, LineFold(commands), s)]
  BY <1>4 DEF LineFold
<1> QED
  BY <1>5

\* The contexts after each command of a line.
LineRun(w, commands, n) ==
  /\ w[0] = ParserContext /\ w[n] = FoldLeft(Reduce, ParserContext, commands)
  /\ \A j \in 1 .. n : w[j] = Reduce(w[j - 1], commands[j])

\* There are such contexts.
LEMMA LineSteps ==
  ASSUME NEW commands, NEW n \in Nat, DOMAIN commands = 1 .. n
  PROVE  \E w : LineRun(w, commands, n)
<1> DEFINE fold == LineFold(commands)
           w == [j \in 0 .. n |-> fold[1 .. j]]
<1>1. \A s \in SUBSET (1 .. n) : fold[s] = LineStep(commands, fold, s)
  BY LineDefined
<1>2. FoldLeft(Reduce, ParserContext, commands) = fold[1 .. n]
  BY LineIsFold
<1> HIDE DEF fold
<1>3. fold[1 .. 0] = ParserContext
  <2>1. 1 .. 0 = {} /\ 1 .. 0 \in SUBSET (1 .. n)
    OBVIOUS
  <2> QED
    BY <1>1, <2>1 DEF LineStep
<1>4. ASSUME NEW j \in 1 .. n
      PROVE  fold[1 .. j] = Reduce(fold[1 .. j - 1], commands[j])
  <2>1. 1 .. j \in SUBSET (1 .. n) /\ 1 .. j # {} /\ j \in Nat /\ j # 0
    <3>1. j \in Nat /\ j # 0 /\ j \in 1 .. j
      OBVIOUS
    <3>2. \A i \in 1 .. j : i \in 1 .. n
      OBVIOUS
    <3> QED
      BY <3>1, <3>2
  <2>2. Max(1 .. j) = j /\ (1 .. j) \ {Max(1 .. j)} = 1 .. j - 1
    BY <2>1, GreatestOfFirst
  <2>3. fold[1 .. j] = Reduce(fold[(1 .. j) \ {Max(1 .. j)}], commands[Max(1 .. j)])
    BY <1>1, <2>1 DEF LineStep
  <2> QED
    BY <2>2, <2>3
<1>5. w[0] = ParserContext /\ w[n] = FoldLeft(Reduce, ParserContext, commands)
  BY <1>2, <1>3
<1>6. ASSUME NEW j \in 1 .. n PROVE w[j] = Reduce(w[j - 1], commands[j])
  <2>1. j \in 0 .. n /\ j - 1 \in 0 .. n
    OBVIOUS
  <2>2. w[j] = fold[1 .. j] /\ w[j - 1] = fold[1 .. j - 1]
    BY <2>1
  <2> QED
    BY <1>4, <2>2
<1> QED
  BY <1>5, <1>6 DEF LineRun

-----------------------------------------------------------------------------
(* Queries, and the contexts of the parser.                                *)

SelectQueries == [scf : {"Select"}, attrs : Seq(RelAttrs), rels : Seq(Names),
                  conds : Seq(Conditions)]
InsertQueries == [scf : {"Insert"}, rel : Names, values : Seq(Values)]
DeleteQueries == [scf : {"Delete"}, rel : Names, conds : Seq(Conditions)]
CreateTableQueries == [scf : {"CreateTable"}, rel : Names, attrs : Seq(AttrInfo)]
CreateIndexQueries == [scf : {"CreateIndex"}, index : Names, attr : RelAttrs]
DropTableQueries   == [scf : {"DropTable"}, rel : Names]

QueriesOf(kind) == CASE kind = "Select"      -> SelectQueries
                     [] kind = "Insert"      -> InsertQueries
                     [] kind = "Delete"      -> DeleteQueries
                     [] kind = "CreateTable" -> CreateTableQueries
                     [] kind = "CreateIndex" -> CreateIndexQueries
                     [] kind = "DropTable"   -> DropTableQueries
                     [] OTHER                -> {}

Kinds == {"Select", "Insert", "Delete", "CreateTable", "CreateIndex", "DropTable"}

\* A query names its kind.
LEMMA QueryKinds ==
  ASSUME NEW kind, NEW q \in QueriesOf(kind)
  PROVE  kind \in Kinds /\ q.scf = kind /\ q # NullQuery /\ q # ErrorQuery
<1>1. kind \in Kinds /\ q.scf = kind
  BY DEF QueriesOf, Kinds, SelectQueries, InsertQueries, DeleteQueries, CreateTableQueries,
         CreateIndexQueries, DropTableQueries
<1>2. NullQuery.scf = "null" /\ ErrorQuery.scf = "Error"
  BY DEF NullQuery, ErrorQuery
<1> QED
  BY <1>1, <1>2 DEF Kinds

Contexts(kind) == [query : {NullQuery} \cup QueriesOf(kind),
                   values : Seq(Values), conditions : Seq(Conditions)]

\* The parts of a context.
LEMMA ContextParts ==
  ASSUME NEW kind, NEW ctx \in Contexts(kind)
  PROVE  /\ ctx = [query |-> ctx.query, values |-> ctx.values, conditions |-> ctx.conditions]
         /\ ctx.query \in {NullQuery} \cup QueriesOf(kind)
         /\ ctx.values \in Seq(Values) /\ ctx.conditions \in Seq(Conditions)
BY DEF Contexts

\* A context is made of its parts.
LEMMA ContextMade ==
  ASSUME NEW kind, NEW q \in {NullQuery} \cup QueriesOf(kind), NEW v \in Seq(Values),
         NEW c \in Seq(Conditions)
  PROVE  [query |-> q, values |-> v, conditions |-> c] \in Contexts(kind)
BY DEF Contexts

\* The items of two sequences put together.
LEMMA Joined ==
  ASSUME NEW S, NEW a \in Seq(S), NEW b \in Seq(S)
  PROVE  /\ a \o b \in Seq(S) /\ Len(a \o b) = Len(a) + Len(b)
         /\ \A i \in 1 .. Len(a) : (a \o b)[i] = a[i]
         /\ \A i \in 1 .. Len(b) : (a \o b)[Len(a) + i] = b[i]
<1>1. a \o b \in Seq(S) /\ Len(a \o b) = Len(a) + Len(b)
  OBVIOUS
<1>2. \A i \in 1 .. Len(a) : (a \o b)[i] = a[i]
  OBVIOUS
<1>3. \A i \in 1 .. Len(b) : (a \o b)[Len(a) + i] = b[i]
  OBVIOUS
<1> QED
  BY <1>1, <1>2, <1>3

\* A sequence reversed is one of the same length.
LEMMA Reversed ==
  ASSUME NEW S, NEW a \in Seq(S)
  PROVE  Reverse(a) \in Seq(S) /\ Len(Reverse(a)) = Len(a)
<1>1. \A i \in 1 .. Len(a) : a[(Len(a) - i) + 1] \in S
  OBVIOUS
<1>2. Reverse(a) = [i \in 1 .. Len(a) |-> a[(Len(a) - i) + 1]]
  BY DEF Reverse
<1> HIDE DEF Reverse
<1> QED
  BY <1>1, <1>2

\* Values are taken from the end of the array they were put in.
LEMMA TakenFromEnd ==
  ASSUME NEW V, NEW old \in Seq(V), NEW l \in Seq(V), NEW r \in Seq(V)
  PROVE  /\ old \o l \o r \in Seq(V)
         /\ Len(l) = 1 => (old \o l \o r)[Len(old \o l \o r) - Len(r)] = l[1]
         /\ Len(r) = 1 => (old \o l \o r)[Len(old \o l \o r)] = r[1]
<1> DEFINE most == old \o l
           whl  == most \o r
<1>1. /\ most \in Seq(V) /\ Len(most) = Len(old) + Len(l)
      /\ \A i \in 1 .. Len(l) : most[Len(old) + i] = l[i]
  BY Joined
<1> HIDE DEF most
<1>2. /\ whl \in Seq(V) /\ Len(whl) = Len(most) + Len(r)
      /\ \A i \in 1 .. Len(most) : whl[i] = most[i]
      /\ \A i \in 1 .. Len(r) : whl[Len(most) + i] = r[i]
  <2>1. most \in Seq(V)
    BY <1>1
  <2> QED
    BY ONLY <2>1, r \in Seq(V), Joined
<1> HIDE DEF whl
<1>3. Len(old) \in Nat /\ Len(r) \in Nat /\ Len(l) \in Nat
  OBVIOUS
<1>4. ASSUME Len(l) = 1 PROVE whl[Len(whl) - Len(r)] = l[1]
  <2>1. Len(most) = Len(old) + 1 /\ Len(whl) - Len(r) = Len(old) + 1
    BY <1>1, <1>2, <1>3, <1>4
  <2>2. most[Len(old) + 1] = l[1]
    BY <1>1, <1>4
  <2>3. Len(old) + 1 \in 1 .. Len(most)
    BY <1>3, <2>1
  <2> QED
    BY <1>2, <2>1, <2>2, <2>3
<1>5. ASSUME Len(r) = 1 PROVE whl[Len(whl)] = r[1]
  BY <1>1, <1>2, <1>3, <1>5
<1> QED
  BY <1>2, <1>4, <1>5 DEF most, whl

\* Both literals of a condition are taken again from the end of the values.
LEMMA ValuesTaken ==
  ASSUME NEW old \in Seq(Values), NEW a \in Operands, NEW b \in Operands
  PROVE  LET left   == IF a.is = "value" THEN <<a>> ELSE <<>>
             right  == IF b.is = "value" THEN <<b>> ELSE <<>>
             values == old \o left \o right
             n      == Len(values)
         IN  /\ values \in Seq(Values)
             /\ a.is = "value" => values[n - Len(right)] = a
             /\ b.is = "value" => values[n] = b
<1>1. \A o \in Operands : o.is = "value" => o \in Values
  BY DEF Operands, RelAttrs
<1>2. (a.is = "value" => a \in Values) /\ (b.is = "value" => b \in Values)
  BY <1>1
<1> DEFINE left   == IF a.is = "value" THEN <<a>> ELSE <<>>
           right  == IF b.is = "value" THEN <<b>> ELSE <<>>
           values == old \o left \o right
<1>3. left \in Seq(Values) /\ right \in Seq(Values)
  BY <1>2
<1>4. /\ a.is = "value" => Len(left) = 1 /\ left[1] = a
      /\ b.is = "value" => Len(right) = 1 /\ right[1] = b
  OBVIOUS
<1> HIDE DEF left, right
<1>5. /\ values \in Seq(Values)
      /\ Len(left) = 1 => values[Len(values) - Len(right)] = left[1]
      /\ Len(right) = 1 => values[Len(values)] = right[1]
  BY <1>3, TakenFromEnd
<1> HIDE DEF values
<1>6. /\ values \in Seq(Values)
      /\ a.is = "value" => values[Len(values) - Len(right)] = a
      /\ b.is = "value" => values[Len(values)] = b
  BY <1>4, <1>5
<1> QED
  BY <1>6 DEF left, right, values

\* A condition takes its values from the context and is added to its conditions.
LEMMA ConditionTyped ==
  ASSUME NEW kind, NEW ctx \in Contexts(kind), NEW c \in Conditions
  PROVE  /\ ReduceCondition(ctx, c) \in Contexts(kind)
         /\ ReduceCondition(ctx, c).query = ctx.query
         /\ ReduceCondition(ctx, c).conditions = Append(ctx.conditions, c)
<1> DEFINE left   == IF c.left.is = "value" THEN <<c.left>> ELSE <<>>
           right  == IF c.right.is = "value" THEN <<c.right>> ELSE <<>>
           values == ctx.values \o left \o right
           n      == Len(values)
           cond   == Condition(IF c.left.is = "value" THEN values[n - Len(right)] ELSE c.left,
                               c.comp,
                               IF c.right.is = "value" THEN values[n] ELSE c.right)
           next   == ReduceCondition(ctx, c)
<1>1. c = [left |-> c.left, comp |-> c.comp, right |-> c.right]
      /\ c.left \in Operands /\ c.right \in Operands
  BY DEF Conditions
<1>2. ctx.values \in Seq(Values) /\ ctx.conditions \in Seq(Conditions)
      /\ ctx.query \in {NullQuery} \cup QueriesOf(kind)
      /\ ctx = [query |-> ctx.query, values |-> ctx.values, conditions |-> ctx.conditions]
  BY ContextParts
<1>3. /\ values \in Seq(Values)
      /\ c.left.is = "value" => values[n - Len(right)] = c.left
      /\ c.right.is = "value" => values[n] = c.right
  BY <1>1, <1>2, ValuesTaken
<1>4. cond = c
  BY <1>1, <1>3 DEF Condition
<1>5. next = [ctx EXCEPT !.values = values, !.conditions = Append(@, cond)]
  BY DEF ReduceCondition
<1> HIDE DEF values, cond, next
<1>6. next = [query |-> ctx.query, values |-> values, conditions |-> Append(ctx.conditions, c)]
  BY <1>2, <1>4, <1>5
<1>7. Append(ctx.conditions, c) \in Seq(Conditions)
  BY <1>2
<1>8. next \in Contexts(kind)
  BY <1>2, <1>3, <1>6, <1>7, ContextMade
<1>9. next.query = ctx.query /\ next.conditions = Append(ctx.conditions, c)
  BY <1>6
<1> QED
  BY <1>8, <1>9 DEF next

\* A WHERE leaves its conditions, and the query as it was.
LEMMA WhereTyped ==
  ASSUME NEW kind, NEW ctx \in Contexts(kind), NEW conds \in Seq(Conditions)
  PROVE  /\ ReduceWhere(ctx, conds) \in Contexts(kind)
         /\ ReduceWhere(ctx, conds).query = ctx.query
         /\ ctx.conditions = <<>> => ReduceWhere(ctx, conds).conditions = conds
<1> DEFINE n == Len(conds)
           Begin(j) == [i \in 1 .. j |-> conds[i]]
<1>1. n \in Nat /\ DOMAIN conds = 1 .. n /\ \A j \in 1 .. n : conds[j] \in Conditions
  OBVIOUS
<1>2. Begin(0) = <<>> /\ Begin(n) = conds
  BY <1>1
<1> HIDE DEF n
<1>3. n \in Nat /\ DOMAIN conds = 1 .. n
  BY <1>1
<1>4. ASSUME NEW j \in 1 .. n
      PROVE  Append(Begin(j - 1), conds[j]) = Begin(j)
  <2>1. j - 1 \in Nat /\ j \in Nat
    OBVIOUS
  <2> QED
    BY <2>1
<1> HIDE DEF Begin
<1>5. PICK w : WhereRun(w, ctx, conds, n)
  BY ONLY <1>3, WhereSteps
<1>6. /\ w[0] = ctx /\ w[n] = ReduceWhere(ctx, conds)
      /\ \A j \in 1 .. n : w[j] = ReduceCondition(w[j - 1], conds[j])
  BY <1>5 DEF WhereRun
<1> DEFINE S == {j \in 0 .. n :
                   /\ w[j] \in Contexts(kind) /\ w[j].query = ctx.query
                   /\ ctx.conditions = <<>> => w[j].conditions = Begin(j)}
<1>7. 0 \in S
  BY <1>1, <1>6, <1>2
<1>8. ASSUME NEW j \in 1 .. n, j - 1 \in S PROVE j \in S
  <2>1. /\ w[j - 1] \in Contexts(kind) /\ w[j - 1].query = ctx.query
        /\ ctx.conditions = <<>> => w[j - 1].conditions = Begin(j - 1)
    BY <1>8
  <2>2. w[j] = ReduceCondition(w[j - 1], conds[j]) /\ conds[j] \in Conditions
    BY <1>1, <1>6
  <2>3. /\ w[j] \in Contexts(kind) /\ w[j].query = w[j - 1].query
        /\ w[j].conditions = Append(w[j - 1].conditions, conds[j])
    BY <2>1, <2>2, ConditionTyped
  <2>4. j \in 0 .. n
    BY <1>1
  <2> QED
    BY <1>4, <2>1, <2>3, <2>4
<1>9. n \in S
  <2> HIDE DEF S
  <2>1. \A j \in 0 .. n : j \in S
    BY <1>1, <1>7, <1>8, CountUp
  <2> QED
    BY <1>1, <2>1
<1> QED
  BY <1>6, <1>2, <1>9

\* The query of a line: a new one, or the one of an earlier command.
LEMMA QueryTyped ==
  ASSUME NEW kind, NEW ctx \in Contexts(kind), NEW empty \in QueriesOf(kind)
  PROVE  QueryOf(ctx, empty) \in QueriesOf(kind)
BY ContextParts DEF QueryOf

\* The commands, one kind at a time: what each leaves in the context is a query of
\* its kind.
LEMMA SelectTyped ==
  ASSUME NEW ctx \in Contexts("Select"), NEW c \in Commands, c.cmd = "Select"
  PROVE  /\ Reduce(ctx, c) \in Contexts("Select")
         /\ Reduce(ctx, c).query # NullQuery
<1> DEFINE q  == QueryOf(ctx, SelectQuery)
           in == ReduceWhere(ctx, c.conds)
           attrs == q.attrs \o Reverse(c.attrs)
           rels  == q.rels \o Reverse(c.rels)
           conds == q.conds \o in.conditions
           new   == [scf |-> "Select", attrs |-> attrs, rels |-> rels, conds |-> conds]
<1>1. c.attrs \in Seq(RelAttrs) /\ c.rels \in Seq(Names) /\ c.conds \in Seq(Conditions)
  BY DEF Commands, OtherCommand
<1>2. in \in Contexts("Select")
  BY <1>1, WhereTyped
<1>3. q \in SelectQueries
  <2>1. SelectQuery \in QueriesOf("Select")
    BY DEF SelectQuery, SelectQueries, QueriesOf
  <2>2. q \in QueriesOf("Select")
    BY <2>1, QueryTyped
  <2> HIDE DEF q
  <2> QED
    BY <2>2 DEF QueriesOf
<1>4. Reduce(ctx, c) = [in EXCEPT !.query = [q EXCEPT !.attrs = @ \o Reverse(c.attrs),
                                                    !.rels  = @ \o Reverse(c.rels),
                                                    !.conds = @ \o in.conditions],
                                 !.conditions = <<>>]
  BY DEF Reduce, ReduceSelect
<1> HIDE DEF q, in
<1>5. /\ q = [scf |-> "Select", attrs |-> q.attrs, rels |-> q.rels, conds |-> q.conds]
      /\ q.attrs \in Seq(RelAttrs) /\ q.rels \in Seq(Names) /\ q.conds \in Seq(Conditions)
  BY <1>3 DEF SelectQueries
<1>6. /\ in = [query |-> in.query, values |-> in.values, conditions |-> in.conditions]
      /\ in.values \in Seq(Values) /\ in.conditions \in Seq(Conditions)
  BY <1>2, ContextParts
<1>7. attrs \in Seq(RelAttrs)
  <2>1. Reverse(c.attrs) \in Seq(RelAttrs)
    BY <1>1, Reversed
  <2> QED
    BY ONLY <1>5, <2>1, Joined
<1>8. rels \in Seq(Names)
  <2>1. Reverse(c.rels) \in Seq(Names)
    BY <1>1, Reversed
  <2> QED
    BY ONLY <1>5, <2>1, Joined
<1>9. conds \in Seq(Conditions)
  BY ONLY <1>5, <1>6, Joined
<1>10. [q EXCEPT !.attrs = @ \o Reverse(c.attrs), !.rels = @ \o Reverse(c.rels),
                 !.conds = @ \o in.conditions] = new
  <2> HIDE DEF attrs, rels, conds
  <2> DEFINE p == [q EXCEPT !.attrs = attrs]
             r == [p EXCEPT !.rels = rels]
  <2>1. p = [scf |-> "Select", attrs |-> attrs, rels |-> q.rels, conds |-> q.conds]
    BY <1>5
  <2>2. p = [q EXCEPT !.attrs = @ \o Reverse(c.attrs)]
    BY DEF attrs
  <2> HIDE DEF p
  <2>3. r = [scf |-> "Select", attrs |-> attrs, rels |-> rels, conds |-> q.conds]
    BY <2>1
  <2>4. r = [p EXCEPT !.rels = @ \o Reverse(c.rels)]
    BY <2>1 DEF rels
  <2> HIDE DEF r
  <2>5. [r EXCEPT !.conds = conds] = new
    BY <2>3
  <2>6. [r EXCEPT !.conds = conds] = [r EXCEPT !.conds = @ \o in.conditions]
    BY <2>3 DEF conds
  <2> QED
    BY <2>2, <2>4, <2>5, <2>6
<1> HIDE DEF attrs, rels, conds
<1>11. new \in QueriesOf("Select")
  BY <1>7, <1>8, <1>9 DEF QueriesOf, SelectQueries
<1> HIDE DEF new
<1>12. Reduce(ctx, c) = [query |-> new, values |-> in.values, conditions |-> <<>>]
  BY <1>4, <1>6, <1>10
<1>13. [query |-> new, values |-> in.values, conditions |-> <<>>] \in Contexts("Select")
  <2>1. <<>> \in Seq(Conditions)
    OBVIOUS
  <2> QED
    BY <1>6, <1>11, <2>1, ContextMade
<1>14. Reduce(ctx, c).query = new
  BY <1>12
<1> QED
  BY <1>11, <1>12, <1>13, <1>14, QueryKinds

\* An INSERT leaves a query of its kind.
LEMMA InsertTyped ==
  ASSUME NEW ctx \in Contexts("Insert"), NEW c \in Commands, c.cmd = "Insert"
  PROVE  /\ Reduce(ctx, c) \in Contexts("Insert")
         /\ Reduce(ctx, c).query # NullQuery
<1> DEFINE q == QueryOf(ctx, InsertQuery)
           values == q.values \o ctx.values \o c.values
           new == [scf |-> "Insert", rel |-> c.rel, values |-> values]
<1>1. c.rel \in Names /\ c.values \in Seq(Values)
  BY DEF Commands, OtherCommand
<1>2. q \in InsertQueries
  <2>1. InsertQuery \in QueriesOf("Insert")
    BY NameAssumption DEF InsertQuery, InsertQueries, QueriesOf
  <2>2. q \in QueriesOf("Insert")
    BY <2>1, QueryTyped
  <2> HIDE DEF q
  <2> QED
    BY <2>2 DEF QueriesOf
<1>3. Reduce(ctx, c) = [ctx EXCEPT !.query = [q EXCEPT !.rel = c.rel,
                                                     !.values = @ \o ctx.values \o c.values],
                                  !.values = <<>>]
  BY DEF Reduce, ReduceInsert
<1> HIDE DEF q
<1>4. q = [scf |-> "Insert", rel |-> q.rel, values |-> q.values] /\ q.values \in Seq(Values)
  BY <1>2 DEF InsertQueries
<1>5. /\ ctx = [query |-> ctx.query, values |-> ctx.values, conditions |-> ctx.conditions]
      /\ ctx.values \in Seq(Values) /\ ctx.conditions \in Seq(Conditions)
  BY ContextParts
<1>6. values \in Seq(Values)
  <2>1. q.values \o ctx.values \in Seq(Values)
    BY ONLY <1>4, <1>5, Joined
  <2> QED
    BY ONLY <1>1, <2>1, Joined
<1>7. [q EXCEPT !.rel = c.rel, !.values = @ \o ctx.values \o c.values] = new
  <2> DEFINE p == [q EXCEPT !.rel = c.rel]
  <2>1. p = [scf |-> "Insert", rel |-> c.rel, values |-> q.values]
    BY <1>4
  <2> HIDE DEF p, values
  <2>2. [p EXCEPT !.values = values] = new
    BY <2>1
  <2>3. [q EXCEPT !.rel = c.rel, !.values = @ \o ctx.values \o c.values] = [p EXCEPT !.values = @ \o ctx.values \o c.values]
    BY DEF p
  <2>4. [p EXCEPT !.values = @ \o ctx.values \o c.values] = [p EXCEPT !.values = values]
    BY <2>1 DEF values
  <2> QED
    BY <2>2, <2>3, <2>4
<1> HIDE DEF values
<1>8. new \in QueriesOf("Insert")
  BY <1>1, <1>6 DEF QueriesOf, InsertQueries
<1> HIDE DEF new
<1>9. Reduce(ctx, c) = [query |-> new, values |-> <<>>, conditions |-> ctx.conditions]
  BY <1>3, <1>5, <1>7
<1>10. [query |-> new, values |-> <<>>, conditions |-> ctx.conditions] \in Contexts("Insert")
  <2>1. <<>> \in Seq(Values)
    OBVIOUS
  <2> QED
    BY <1>5, <1>8, <2>1, ContextMade
<1>11. Reduce(ctx, c).query = new
  BY <1>9
<1> QED
  BY <1>8, <1>9, <1>10, <1>11, QueryKinds

\* A DELETE leaves a query of its kind.
LEMMA DeleteTyped ==
  ASSUME NEW ctx \in Contexts("Delete"), NEW c \in Commands, c.cmd = "Delete"
  PROVE  /\ Reduce(ctx, c) \in Contexts("Delete")
         /\ Reduce(ctx, c).query # NullQuery
<1> DEFINE q  == QueryOf(ctx, DeleteQuery)
           in == ReduceWhere(ctx, c.conds)
           conds == q.conds \o in.conditions
           new   == [scf |-> "Delete", rel |-> c.rel, conds |-> conds]
<1>1. c.rel \in Names /\ c.conds \in Seq(Conditions)
  BY DEF Commands, OtherCommand
<1>2. in \in Contexts("Delete")
  BY <1>1, WhereTyped
<1>3. q \in DeleteQueries
  <2>1. DeleteQuery \in QueriesOf("Delete")
    BY NameAssumption DEF DeleteQuery, DeleteQueries, QueriesOf
  <2>2. q \in QueriesOf("Delete")
    BY <2>1, QueryTyped
  <2> HIDE DEF q
  <2> QED
    BY <2>2 DEF QueriesOf
<1>4. Reduce(ctx, c) = [in EXCEPT !.query = [q EXCEPT !.rel = c.rel,
                                                    !.conds = @ \o in.conditions],
                                 !.conditions = <<>>]
  BY DEF Reduce, ReduceDelete
<1> HIDE DEF q, in
<1>5. q = [scf |-> "Delete", rel |-> q.rel, conds |-> q.conds] /\ q.conds \in Seq(Conditions)
  BY <1>3 DEF DeleteQueries
<1>6. /\ in = [query |-> in.query, values |-> in.values, conditions |-> in.conditions]
      /\ in.values \in Seq(Values) /\ in.conditions \in Seq(Conditions)
  BY <1>2, ContextParts
<1>7. conds \in Seq(Conditions)
  BY ONLY <1>5, <1>6, Joined
<1>8. [q EXCEPT !.rel = c.rel, !.conds = @ \o in.conditions] = new
  <2> DEFINE p == [q EXCEPT !.rel = c.rel]
  <2>1. p = [scf |-> "Delete", rel |-> c.rel, conds |-> q.conds]
    BY <1>5
  <2> HIDE DEF p, conds
  <2>2. [p EXCEPT !.conds = conds] = new
    BY <2>1
  <2>3. [q EXCEPT !.rel = c.rel, !.conds = @ \o in.conditions] = [p EXCEPT !.conds = @ \o in.conditions]
    BY DEF p
  <2>4. [p EXCEPT !.conds = @ \o in.conditions] = [p EXCEPT !.conds = conds]
    BY <2>1 DEF conds
  <2> QED
    BY <2>2, <2>3, <2>4
<1> HIDE DEF conds
<1>9. new \in QueriesOf("Delete")
  BY <1>1, <1>7 DEF QueriesOf, DeleteQueries
<1> HIDE DEF new
<1>10. Reduce(ctx, c) = [query |-> new, values |-> in.values, conditions |-> <<>>]
  BY <1>4, <1>6, <1>8
<1>11. [query |-> new, values |-> in.values, conditions |-> <<>>] \in Contexts("Delete")
  <2>1. <<>> \in Seq(Conditions)
    OBVIOUS
  <2> QED
    BY <1>6, <1>9, <2>1, ContextMade
<1>12. Reduce(ctx, c).query = new
  BY <1>10
<1> QED
  BY <1>9, <1>10, <1>11, <1>12, QueryKinds

\* A CREATE TABLE leaves a query of its kind.
LEMMA CreateTableTyped ==
  ASSUME NEW ctx \in Contexts("CreateTable"), NEW c \in Commands, c.cmd = "CreateTable"
  PROVE  /\ Reduce(ctx, c) \in Contexts("CreateTable")
         /\ Reduce(ctx, c).query # NullQuery
<1> DEFINE q == QueryOf(ctx, CreateTableQuery)
           attrs == q.attrs \o c.attrs
           new == [scf |-> "CreateTable", rel |-> c.rel, attrs |-> attrs]
<1>1. c.rel \in Names /\ c.attrs \in Seq(AttrInfo)
  BY DEF Commands, OtherCommand
<1>2. q \in CreateTableQueries
  <2>1. CreateTableQuery \in QueriesOf("CreateTable")
    BY NameAssumption DEF CreateTableQuery, CreateTableQueries, QueriesOf
  <2>2. q \in QueriesOf("CreateTable")
    BY <2>1, QueryTyped
  <2> HIDE DEF q
  <2> QED
    BY <2>2 DEF QueriesOf
<1>3. Reduce(ctx, c) = [ctx EXCEPT !.query = [q EXCEPT !.rel = c.rel, !.attrs = @ \o c.attrs]]
  BY DEF Reduce, ReduceCreateTable
<1> HIDE DEF q
<1>4. q = [scf |-> "CreateTable", rel |-> q.rel, attrs |-> q.attrs] /\ q.attrs \in Seq(AttrInfo)
  BY <1>2 DEF CreateTableQueries
<1>5. /\ ctx = [query |-> ctx.query, values |-> ctx.values, conditions |-> ctx.conditions]
      /\ ctx.values \in Seq(Values) /\ ctx.conditions \in Seq(Conditions)
  BY ContextParts
<1>6. attrs \in Seq(AttrInfo)
  BY ONLY <1>1, <1>4, Joined
<1>7. [q EXCEPT !.rel = c.rel, !.attrs = @ \o c.attrs] = new
  <2> DEFINE p == [q EXCEPT !.rel = c.rel]
  <2>1. p = [scf |-> "CreateTable", rel |-> c.rel, attrs |-> q.attrs]
    BY <1>4
  <2> HIDE DEF p, attrs
  <2>2. [p EXCEPT !.attrs = attrs] = new
    BY <2>1
  <2>3. [q EXCEPT !.rel = c.rel, !.attrs = @ \o c.attrs] = [p EXCEPT !.attrs = @ \o c.attrs]
    BY DEF p
  <2>4. [p EXCEPT !.attrs = @ \o c.attrs] = [p EXCEPT !.attrs = attrs]
    BY <2>1 DEF attrs
  <2> QED
    BY <2>2, <2>3, <2>4
<1> HIDE DEF attrs
<1>8. new \in QueriesOf("CreateTable")
  BY <1>1, <1>6 DEF QueriesOf, CreateTableQueries
<1> HIDE DEF new
<1>9. Reduce(ctx, c) = [query |-> new, values |-> ctx.values, conditions |-> ctx.conditions]
  BY <1>3, <1>5, <1>7
<1>10. [query |-> new, values |-> ctx.values, conditions |-> ctx.conditions]
         \in Contexts("CreateTable")
  BY <1>5, <1>8, ContextMade
<1>11. Reduce(ctx, c).query = new
  BY <1>9
<1> QED
  BY <1>8, <1>9, <1>10, <1>11, QueryKinds

\* A CREATE INDEX leaves a query of its kind.
LEMMA CreateIndexTyped ==
  ASSUME NEW ctx \in Contexts("CreateIndex"), NEW c \in Commands, c.cmd = "CreateIndex"
  PROVE  /\ Reduce(ctx, c) \in Contexts("CreateIndex")
         /\ Reduce(ctx, c).query # NullQuery
<1> DEFINE q == QueryOf(ctx, CreateIndexQuery)
           new == [scf |-> "CreateIndex", index |-> c.index, attr |-> c.attr]
<1>1. c.index \in Names /\ c.attr \in RelAttrs
  BY DEF Commands, OtherCommand
<1>2. q \in CreateIndexQueries
  <2>1. CreateIndexQuery \in QueriesOf("CreateIndex")
    BY NameAssumption
    DEF CreateIndexQuery, CreateIndexQueries, QueriesOf, Star, RelAttr, RelAttrs
  <2>2. q \in QueriesOf("CreateIndex")
    BY <2>1, QueryTyped
  <2> HIDE DEF q
  <2> QED
    BY <2>2 DEF QueriesOf
<1>3. Reduce(ctx, c) = [ctx EXCEPT !.query = [q EXCEPT !.index = c.index, !.attr = c.attr]]
  BY DEF Reduce, ReduceCreateIndex
<1> HIDE DEF q
<1>4. q = [scf |-> "CreateIndex", index |-> q.index, attr |-> q.attr]
  BY <1>2 DEF CreateIndexQueries
<1>5. /\ ctx = [query |-> ctx.query, values |-> ctx.values, conditions |-> ctx.conditions]
      /\ ctx.values \in Seq(Values) /\ ctx.conditions \in Seq(Conditions)
  BY ContextParts
<1>6. [q EXCEPT !.index = c.index, !.attr = c.attr] = new
  <2> DEFINE p == [q EXCEPT !.index = c.index]
  <2>1. p = [scf |-> "CreateIndex", index |-> c.index, attr |-> q.attr]
    BY <1>4
  <2> HIDE DEF p
  <2>2. [p EXCEPT !.attr = c.attr] = new
    BY <2>1
  <2>3. [q EXCEPT !.index = c.index, !.attr = c.attr] = [p EXCEPT !.attr = c.attr]
    BY DEF p
  <2>4. [p EXCEPT !.attr = c.attr] = [p EXCEPT !.attr = c.attr]
    BY <2>1
  <2> QED
    BY <2>2, <2>3, <2>4
<1>7. new \in QueriesOf("CreateIndex")
  BY <1>1 DEF QueriesOf, CreateIndexQueries
<1> HIDE DEF new
<1>8. Reduce(ctx, c) = [query |-> new, values |-> ctx.values, conditions |-> ctx.conditions]
  BY <1>3, <1>5, <1>6
<1>9. [query |-> new, values |-> ctx.values, conditions |-> ctx.conditions]
        \in Contexts("CreateIndex")
  BY <1>5, <1>7, ContextMade
<1>10. Reduce(ctx, c).query = new
  BY <1>8
<1> QED
  BY <1>7, <1>8, <1>9, <1>10, QueryKinds

\* A DROP TABLE leaves a query of its kind.
LEMMA DropTableTyped ==
  ASSUME NEW ctx \in Contexts("DropTable"), NEW c \in Commands, c.cmd = "DropTable"
  PROVE  /\ Reduce(ctx, c) \in Contexts("DropTable")
         /\ Reduce(ctx, c).query # NullQuery
<1> DEFINE q == QueryOf(ctx, DropTableQuery)
           new == [scf |-> "DropTable", rel |-> c.rel]
<1>1. c.rel \in Names
  BY DEF Commands, OtherCommand
<1>2. q \in DropTableQueries
  <2>1. DropTableQuery \in QueriesOf("DropTable")
    BY NameAssumption DEF DropTableQuery, DropTableQueries, QueriesOf
  <2>2. q \in QueriesOf("DropTable")
    BY <2>1, QueryTyped
  <2> HIDE DEF q
  <2> QED
    BY <2>2 DEF QueriesOf
<1>3. Reduce(ctx, c) = [ctx EXCEPT !.query = [q EXCEPT !.rel = c.rel]]
  BY DEF Reduce, ReduceDropTable
<1> HIDE DEF q
<1>4. q = [scf |-> "DropTable", rel |-> q.rel]
  BY <1>2 DEF DropTableQueries
<1>5. /\ ctx = [query |-> ctx.query, values |-> ctx.values, conditions |-> ctx.conditions]
      /\ ctx.values \in Seq(Values) /\ ctx.conditions \in Seq(Conditions)
  BY ContextParts
<1>6. [q EXCEPT !.rel = c.rel] = new
  BY <1>4
<1>7. new \in QueriesOf("DropTable")
  BY <1>1 DEF QueriesOf, DropTableQueries
<1> HIDE DEF new
<1>8. Reduce(ctx, c) = [query |-> new, values |-> ctx.values, conditions |-> ctx.conditions]
  BY <1>3, <1>5, <1>6
<1>9. [query |-> new, values |-> ctx.values, conditions |-> ctx.conditions]
        \in Contexts("DropTable")
  BY <1>5, <1>7, ContextMade
<1>10. Reduce(ctx, c).query = new
  BY <1>8
<1> QED
  BY <1>7, <1>8, <1>9, <1>10, QueryKinds

\* UPDATE leaves its value and its conditions in the arrays, and no query.
LEMMA UpdateTyped ==
  ASSUME NEW kind, NEW ctx \in Contexts(kind), NEW c \in Commands, c.cmd = "Update"
  PROVE  Reduce(ctx, c) \in Contexts(kind) /\ Reduce(ctx, c).query = ctx.query
<1> DEFINE more == [ctx EXCEPT !.values = Append(@, c.value)]
           new  == Append(ctx.values, c.value)
<1>1. c.value \in Values /\ c.conds \in Seq(Conditions)
  BY DEF Commands, OtherCommand
<1>2. Reduce(ctx, c) = ReduceWhere(more, c.conds)
  BY DEF Reduce, ReduceUpdate
<1>3. /\ ctx = [query |-> ctx.query, values |-> ctx.values, conditions |-> ctx.conditions]
      /\ ctx.query \in {NullQuery} \cup QueriesOf(kind)
      /\ ctx.values \in Seq(Values) /\ ctx.conditions \in Seq(Conditions)
  BY ContextParts
<1>4. new \in Seq(Values)
  BY <1>1, <1>3
<1>5. more = [query |-> ctx.query, values |-> new, conditions |-> ctx.conditions]
  BY <1>3
<1> HIDE DEF more, new
<1>6. [query |-> ctx.query, values |-> new, conditions |-> ctx.conditions] \in Contexts(kind)
  BY <1>3, <1>4, ContextMade
<1>7. more \in Contexts(kind) /\ more.query = ctx.query
  BY <1>5, <1>6
<1>8. ReduceWhere(more, c.conds) \in Contexts(kind) /\ ReduceWhere(more, c.conds).query = more.query
  BY <1>1, <1>7, WhereTyped
<1> QED
  BY <1>2, <1>7, <1>8

\* A command of the kind of the line, or one without a query.
LEMMA ReduceTyped ==
  ASSUME NEW kind, NEW ctx \in Contexts(kind), NEW c \in Commands,
         c.cmd \in {kind, "Update", "other"}
  PROVE  /\ Reduce(ctx, c) \in Contexts(kind)
         /\ IF c.cmd \in {"Update", "other"} THEN Reduce(ctx, c).query = ctx.query
                                            ELSE Reduce(ctx, c).query # NullQuery
<1>1. c.cmd \in Kinds \cup {"Update", "other"}
  BY DEF Commands, OtherCommand, Kinds
<1>2. CASE c.cmd = "Update"
  BY <1>2, UpdateTyped
<1>3. CASE c.cmd = "other"
  BY <1>3 DEF Reduce
<1>4. CASE c.cmd = kind /\ c.cmd \in Kinds
  <2>1. CASE kind = "Select"
    BY <1>4, <2>1, SelectTyped
  <2>2. CASE kind = "Insert"
    BY <1>4, <2>2, InsertTyped
  <2>3. CASE kind = "Delete"
    BY <1>4, <2>3, DeleteTyped
  <2>4. CASE kind = "CreateTable"
    BY <1>4, <2>4, CreateTableTyped
  <2>5. CASE kind = "CreateIndex"
    BY <1>4, <2>5, CreateIndexTyped
  <2>6. CASE kind = "DropTable"
    BY <1>4, <2>6, DropTableTyped
  <2> QED
    BY <1>4, <2>1, <2>2, <2>3, <2>4, <2>5, <2>6 DEF Kinds
<1> QED
  BY <1>1, <1>2, <1>3, <1>4

\* A line that yacc accepts makes no query or one of the kind of its last command.
LEMMA ParseTyped ==
  ASSUME NEW line, IsLine(line), line.error = FALSE, SqlParse(line) # NullQuery
  PROVE  SqlParse(line) \in QueriesOf(line.commands[Len(line.commands)].cmd)
<1> DEFINE commands == line.commands
           n        == Len(commands)
           kind     == commands[n].cmd
           last     == FoldLeft(Reduce, ParserContext, commands)
<1>1. commands \in Seq(Commands) /\ OneKind(commands)
  BY DEF IsLine
<1>2. SqlParse(line) = last.query
  BY DEF SqlParse
<1> HIDE DEF commands, last
<1>3. n \in Nat /\ DOMAIN commands = 1 .. n /\ \A i \in 1 .. n : commands[i] \in Commands
  BY <1>1
<1>4. \A i \in 1 .. n : commands[i].cmd \in {kind, "Update", "other"}
  BY <1>1, <1>3 DEF OneKind
<1> HIDE DEF n, kind
<1>5. n \in Nat /\ DOMAIN commands = 1 .. n
  BY <1>3
<1>6. PICK w : LineRun(w, commands, n)
  BY ONLY <1>5, LineSteps
<1>7. /\ w[0] = ParserContext /\ w[n] = FoldLeft(Reduce, ParserContext, commands)
      /\ \A j \in 1 .. n : w[j] = Reduce(w[j - 1], commands[j])
  BY <1>6 DEF LineRun
<1> DEFINE S == {j \in 0 .. n : w[j] \in Contexts(kind)}
<1>8. 0 \in S
  <2>1. NullQuery \in {NullQuery} \cup QueriesOf(kind) /\ <<>> \in Seq(Values)
        /\ <<>> \in Seq(Conditions)
    OBVIOUS
  <2>2. ParserContext \in Contexts(kind)
    BY <2>1, ContextMade DEF ParserContext
  <2> QED
    BY <1>5, <1>7, <2>2
<1>9. ASSUME NEW j \in 1 .. n, j - 1 \in S PROVE j \in S
  <2>1. w[j - 1] \in Contexts(kind) /\ w[j] = Reduce(w[j - 1], commands[j]) /\ j \in 0 .. n
    BY <1>5, <1>7, <1>9
  <2>2. commands[j] \in Commands /\ commands[j].cmd \in {kind, "Update", "other"}
    BY <1>3, <1>4
  <2>3. Reduce(w[j - 1], commands[j]) \in Contexts(kind)
    BY <2>1, <2>2, ReduceTyped
  <2> QED
    BY <2>1, <2>3
<1>10. w[n] \in Contexts(kind)
  <2>1. \A j \in 0 .. n : j \in S
    <3> HIDE DEF S
    <3> QED
      BY <1>5, <1>8, <1>9, CountUp
  <2> QED
    BY <1>5, <2>1
<1>11. last \in Contexts(kind)
  BY <1>7, <1>10 DEF last
<1>12. last.query \in {NullQuery} \cup QueriesOf(kind)
  BY <1>11, ContextParts
<1> QED
  BY <1>2, <1>12 DEF kind, n, commands

\* A line of one command.
LEMMA ParseOne ==
  ASSUME NEW line, IsLine(line), line.error = FALSE, Len(line.commands) = 1
  PROVE  /\ line.commands[1] \in Commands
         /\ SqlParse(line) = Reduce(ParserContext, line.commands[1]).query
<1> DEFINE commands == line.commands
           last     == FoldLeft(Reduce, ParserContext, commands)
<1>1. commands \in Seq(Commands)
  BY DEF IsLine
<1>2. SqlParse(line) = last.query
  BY DEF SqlParse
<1>3. 1 \in Nat /\ DOMAIN commands = 1 .. 1 /\ commands[1] \in Commands
  BY <1>1
<1> HIDE DEF commands
<1>4. PICK w : LineRun(w, commands, 1)
  BY ONLY <1>3, LineSteps
<1>5. /\ w[0] = ParserContext /\ w[1] = FoldLeft(Reduce, ParserContext, commands)
      /\ \A j \in 1 .. 1 : w[j] = Reduce(w[j - 1], commands[j])
  BY <1>4 DEF LineRun
<1>6. w[1] = Reduce(w[0], commands[1])
  <2>1. 1 \in 1 .. 1 /\ 1 - 1 = 0
    OBVIOUS
  <2> QED
    BY <1>5, <2>1
<1> QED
  BY <1>2, <1>3, <1>5, <1>6 DEF commands

\* What the parser makes of one INSERT.
LEMMA ParseInsert ==
  ASSUME NEW line, IsLine(line), line.error = FALSE, Len(line.commands) = 1,
         line.commands[1].cmd = "Insert"
  PROVE  /\ SqlParse(line).rel = line.commands[1].rel
         /\ SqlParse(line).values = line.commands[1].values
<1> DEFINE c == line.commands[1]
           q == QueryOf(ParserContext, InsertQuery)
           p == [q EXCEPT !.rel = c.rel]
           r == [q EXCEPT !.rel = c.rel, !.values = @ \o ParserContext.values \o c.values]
<1>1. c \in Commands /\ SqlParse(line) = Reduce(ParserContext, c).query
  BY ParseOne
<1>2. c.values \in Seq(Values)
  BY <1>1 DEF Commands, OtherCommand
<1>3. q = [scf |-> "Insert", rel |-> NoName, values |-> <<>>] /\ ParserContext.values = <<>>
  BY DEF QueryOf, ParserContext, InsertQuery
<1> HIDE DEF q, c
<1>4. Reduce(ParserContext, c) = [ParserContext EXCEPT !.query = r, !.values = <<>>]
  BY DEF Reduce, ReduceInsert, q, c
<1>5. p = [scf |-> "Insert", rel |-> c.rel, values |-> <<>>]
  BY <1>3
<1> DEFINE s == p.values \o ParserContext.values \o c.values
<1>6. r = [p EXCEPT !.values = s]
  BY <1>3, <1>5
<1>7. s = c.values
  BY <1>2, <1>3, <1>5
<1> HIDE DEF p, s
<1>8. r.rel = c.rel /\ r.values = c.values
  BY <1>5, <1>6, <1>7
<1> HIDE DEF r
<1>9. Reduce(ParserContext, c).query = r
  BY <1>4 DEF ParserContext
<1> QED
  BY <1>1, <1>8, <1>9 DEF c

-----------------------------------------------------------------------------
(* What Statement::Handle makes of the queries.                            *)

\* The texts that say that something was done.
Done == {"rows", "INSERT SUCCEEDED."} \cup AfterDelete

\* A result is refused with a text of its kind or none, not with one that says
\* that something was done, or resolved to a statement of its kind.
Settled(r, kind) ==
  \/ /\ r.ok = FALSE /\ r.text \in TextsOf(kind) \cup {""}
     /\ r.text \notin Done
  \/ r.ok = TRUE /\ r.stmt.scf = kind

\* The first of a set of indices is in it.
LEMMA FirstIn ==
  ASSUME NEW S \in SUBSET Nat, S # {}
  PROVE  First(S) \in S /\ \A j \in S : First(S) <= j
BY LeastNatural DEF First

\* It is the one no other is smaller than.
LEMMA FirstIs ==
  ASSUME NEW S \in SUBSET Nat, NEW k \in S, \A j \in S : k <= j
  PROVE  First(S) = k
<1>1. First(S) \in S /\ First(S) <= k /\ k <= First(S)
  BY FirstIn
<1>2. First(S) \in Nat /\ k \in Nat
  BY <1>1
<1> QED
  BY <1>1, <1>2

SelectTexts == {"SELECT FAILED,NO SUCH TABLE", "SELECT FAILED,NO SUCH FIELD",
                "SELECT FAILED,ATTR GIVEN NOT CLEARLY", "SELECT FAILED,SOME FIELDS NOT FOUND"}

\* The answers to a SELECT.
LEMMA TextsOfSelect == TextsOf("Select") = {"rows"} \cup SelectTexts
BY DEF TextsOf, SelectTexts

\* The fields of a SELECT are refused with a text of a SELECT.
LEMMA SelectedTexts ==
  ASSUME NEW db, NEW rels, NEW a
  PROVE  SelectedFields(db, rels, a).text \in SelectTexts \cup {""}
<1> DEFINE t    == IF a.rel # NoName THEN a.rel ELSE rels[1]
           at   == GetField(db[t].fields, a.attr)
           wild == FlattenSeq([i \in DOMAIN rels |-> WildcardFields(db, rels[i])])
           one  == <<[rel |-> t, at |-> at]>>
           r    == SelectedFields(db, rels, a)
<1>1. r =  IF a = Star THEN [text |-> "", fields |-> wild]
      ELSE IF a.rel # NoName /\ a.rel \notin ToSet(rels)
      THEN [text |-> "SELECT FAILED,NO SUCH TABLE", fields |-> <<>>]
      ELSE IF a.rel = NoName /\ Len(rels) # 1
      THEN [text |-> "SELECT FAILED,ATTR GIVEN NOT CLEARLY", fields |-> <<>>]
      ELSE IF at = 0 THEN [text |-> "SELECT FAILED,NO SUCH FIELD", fields |-> <<>>]
      ELSE [text |-> "", fields |-> one]
  BY DEF SelectedFields
<1> HIDE DEF wild, one, at, r
<1>2. r.text \in SelectTexts \cup {""}
  BY <1>1 DEF SelectTexts
<1> QED
  BY <1>2 DEF r

\* Every SELECT is refused or resolved as one.
LEMMA SelectSettled ==
  ASSUME NEW db, NEW q \in QueriesOf("Select")
  PROVE  Settled(HandleStatement(db, q), "Select")
<1> DEFINE attrs == AttrOrder(q.attrs)
           parts == [i \in DOMAIN attrs |-> SelectedFields(db, q.rels, attrs[i])]
           wrong == {i \in DOMAIN attrs : parts[i].text # ""}
           bad   == First(wrong)
           default == IF Len(q.rels) = 1 THEN q.rels[1] ELSE NoName
           re    == FilterRe(db, default, q.rels, q.conds)
           stmt  == [scf |-> "Select", tables |-> q.rels,
                     fields |-> FlattenSeq([i \in DOMAIN parts |-> parts[i].fields]),
                     filter |-> CreateFilter(db, default, q.rels, q.conds)]
           r     == HandleSelect(db, q)
<1>1. q.scf = "Select" /\ q.attrs \in Seq(RelAttrs)
  BY DEF QueriesOf, SelectQueries
<1>2. attrs \in Seq(RelAttrs)
  BY <1>1, Reversed DEF AttrOrder
<1>3. HandleStatement(db, q) = r
  BY <1>1 DEF HandleStatement
<1>4. r = IF ~(ToSet(q.rels) \subseteq DOMAIN db) THEN Refused("SELECT FAILED,NO SUCH TABLE")
      ELSE IF bad # 0 THEN Refused(parts[bad].text)
      ELSE IF re # "Success"
      THEN Refused(IF re = "SchemaFieldNotExist" THEN "SELECT FAILED,SOME FIELDS NOT FOUND" ELSE "")
      ELSE Resolved(stmt)
  BY DEF HandleSelect
<1>5. stmt.scf = "Select"
  OBVIOUS
<1> HIDE DEF attrs, stmt, re, r
<1>6. ASSUME bad # 0 PROVE parts[bad].text \in SelectTexts \cup {""}
  <2>1. wrong # {}
    <3> HIDE DEF wrong
    <3> QED
      BY <1>6 DEF First
  <2>2. wrong \in SUBSET Nat
    <3>1. DOMAIN attrs \in SUBSET Nat
      BY <1>2
    <3> HIDE DEF parts
    <3> QED
      BY <3>1
  <2>3. bad \in wrong
    <3> HIDE DEF wrong
    <3> QED
      BY <2>1, <2>2, FirstIn
  <2>4. bad \in DOMAIN attrs
    <3> HIDE DEF bad, parts
    <3> QED
      BY <2>3
  <2> HIDE DEF bad, wrong
  <2>5. parts[bad] = SelectedFields(db, q.rels, attrs[bad])
    BY <2>4
  <2> HIDE DEF parts
  <2> QED
    BY <2>5, SelectedTexts
<1> HIDE DEF parts, bad
<1>7. \/ \E text \in SelectTexts \cup {""} : r = Refused(text)
      \/ r = Resolved(stmt)
  BY <1>4, <1>6 DEF SelectTexts
<1>8. Settled(r, "Select")
  <2>1. CASE r = Resolved(stmt)
    BY <1>5, <2>1, Outcomes DEF Settled, Done, AfterDelete
  <2>2. CASE \E text \in SelectTexts \cup {""} : r = Refused(text)
    <3>1. r.ok = FALSE /\ r.text \in SelectTexts \cup {""}
      BY <2>2, Outcomes
    <3> QED
      BY <3>1, TextsOfSelect DEF Settled, SelectTexts, Done, AfterDelete
  <2> QED
    BY <1>7, <2>1, <2>2
<1> QED
  BY <1>3, <1>8

\* Every INSERT is refused or resolved as one, and then it fits its table.
LEMMA InsertSettled ==
  ASSUME NEW db, NEW q \in QueriesOf("Insert")
  PROVE  LET r == HandleStatement(db, q)
             user == Tail(db[q.rel].fields)
         IN  /\ Settled(r, "Insert")
             /\ r.ok = TRUE =>
                  /\ q.rel \in DOMAIN db
                  /\ r.stmt.table = q.rel /\ r.stmt.values = q.values
                  /\ Len(q.values) = Len(user)
                  /\ \A i \in DOMAIN user : q.values[i].type = user[i].type
<1> DEFINE r == HandleInsert(db, q)
           user == Tail(db[q.rel].fields)
           stmt == [scf |-> "Insert", table |-> q.rel, values |-> q.values]
<1>1. q.scf = "Insert"
  BY DEF QueriesOf, InsertQueries
<1>2. HandleStatement(db, q) = r
  BY <1>1 DEF HandleStatement
<1>3. \/ r \in {Refused("INSERT ERROR,INVALID GIVEN ARGS"), Refused("INSERT ERROR,NO SUCH TABLE"),
                Refused("INSERT ERROR,VALUES NUM INVALID"),
                Refused("INSERT ERROR,VALUES TYPE INVALID")}
      \/ /\ q.rel \in DOMAIN db /\ Len(q.values) = Len(user) /\ r = Resolved(stmt)
         /\ \A i \in DOMAIN user : q.values[i].type = user[i].type
  BY DEF HandleInsert
<1> HIDE DEF r, user
<1>4. CASE r \in {Refused("INSERT ERROR,INVALID GIVEN ARGS"), Refused("INSERT ERROR,NO SUCH TABLE"),
                Refused("INSERT ERROR,VALUES NUM INVALID"),
                Refused("INSERT ERROR,VALUES TYPE INVALID")}
  <2>1. r.ok = FALSE /\ r.text \in TextsOf("Insert")
        /\ r.text \notin Done
    BY <1>4, Outcomes DEF TextsOf, Done, AfterDelete
  <2>2. Settled(r, "Insert") /\ ~(r.ok = TRUE)
    BY <2>1 DEF Settled
  <2> QED
    BY <1>2, <2>2
<1>5. CASE /\ q.rel \in DOMAIN db /\ Len(q.values) = Len(user) /\ r = Resolved(stmt)
           /\ \A i \in DOMAIN user : q.values[i].type = user[i].type
  <2>1. r.ok = TRUE /\ r.stmt = stmt
    BY <1>5, Outcomes
  <2>2. r.stmt.scf = "Insert"
    BY <2>1
  <2>3. Settled(r, "Insert")
    BY <2>1, <2>2 DEF Settled
  <2> QED
    BY <1>2, <1>5, <2>1, <2>3 DEF user
<1> QED
  BY <1>3, <1>4, <1>5

\* Every DELETE is refused or resolved as one, and then its table and its filter exist.
LEMMA DeleteSettled ==
  ASSUME NEW db, NEW q \in QueriesOf("Delete")
  PROVE  LET r == HandleStatement(db, q)
         IN  /\ Settled(r, "Delete")
             /\ r.ok = TRUE =>
                  /\ q.rel \in DOMAIN db
                  /\ r.stmt.table = q.rel
                  /\ r.stmt.filter = CreateFilter(db, q.rel, <<q.rel>>, q.conds)
                  /\ FilterRe(db, q.rel, <<q.rel>>, q.conds) = "Success"
<1> DEFINE r == HandleDelete(db, q)
           re == FilterRe(db, q.rel, <<q.rel>>, q.conds)
           filter == CreateFilter(db, q.rel, <<q.rel>>, q.conds)
           stmt == [scf |-> "Delete", table |-> q.rel, filter |-> filter]
<1>1. q.scf = "Delete"
  BY DEF QueriesOf, DeleteQueries
<1>2. HandleStatement(db, q) = r
  BY <1>1 DEF HandleStatement
<1>3. \/ r \in {Refused("DELETE FAILED,NO SUCH TABLE"),
                Refused("DELETE FAILED,SOME FIELDS NOT FOUND"), Refused("")}
      \/ q.rel \in DOMAIN db /\ re = "Success" /\ r = Resolved(stmt)
  BY DEF HandleDelete, DeleteConds
<1> HIDE DEF r, re, filter
<1>4. CASE r \in {Refused("DELETE FAILED,NO SUCH TABLE"),
                Refused("DELETE FAILED,SOME FIELDS NOT FOUND"), Refused("")}
  <2>1. r.ok = FALSE /\ r.text \in TextsOf("Delete") \cup {""}
        /\ r.text \notin Done
    BY <1>4, Outcomes DEF TextsOf, Done, AfterDelete
  <2>2. Settled(r, "Delete") /\ ~(r.ok = TRUE)
    BY <2>1 DEF Settled
  <2> QED
    BY <1>2, <2>2
<1>5. CASE q.rel \in DOMAIN db /\ re = "Success" /\ r = Resolved(stmt)
  <2>1. r.ok = TRUE /\ r.stmt = stmt
    BY <1>5, Outcomes
  <2>2. r.stmt.scf = "Delete"
    BY <2>1
  <2>3. Settled(r, "Delete")
    BY <2>1, <2>2 DEF Settled
  <2> QED
    BY <1>2, <1>5, <2>1, <2>3 DEF re, filter
<1> QED
  BY <1>3, <1>4, <1>5

\* Every CREATE TABLE is refused or resolved as one, and then its fields are valid.
LEMMA CreateTableSettled ==
  ASSUME NEW db, NEW q \in QueriesOf("CreateTable")
  PROVE  LET r == HandleStatement(db, q)
         IN  /\ Settled(r, "CreateTable")
             /\ r.ok = TRUE => r.stmt = q /\ \A i \in DOMAIN q.attrs : IsFieldValid(q.attrs[i])
<1>1. q.scf = "CreateTable"
  BY DEF QueriesOf, CreateTableQueries
<1>2. HandleStatement(db, q) = HandleCreateTable(q)
  BY <1>1 DEF HandleStatement
<1>3. CASE \E i \in DOMAIN q.attrs : ~IsFieldValid(q.attrs[i])
  <2>1. HandleCreateTable(q) = Refused("CREATE TABLE FAILED,ATTRIBUTE LEN IS INVALID")
    BY <1>3 DEF HandleCreateTable
  <2> QED
    BY <1>2, <2>1, Outcomes DEF Settled, TextsOf, Done, AfterDelete
<1>4. CASE \A i \in DOMAIN q.attrs : IsFieldValid(q.attrs[i])
  <2>1. HandleCreateTable(q) = Resolved(q)
    BY <1>4 DEF HandleCreateTable
  <2> QED
    BY <1>1, <1>2, <1>4, <2>1, Outcomes DEF Settled
<1> QED
  BY <1>3, <1>4

\* CREATE INDEX and DROP TABLE are not looked at.
LEMMA OthersSettled ==
  ASSUME NEW db, NEW kind \in {"CreateIndex", "DropTable"}, NEW q \in QueriesOf(kind)
  PROVE  Settled(HandleStatement(db, q), kind)
<1>1. q.scf = kind
  BY QueryKinds
<1>2. HandleStatement(db, q) = Resolved(q)
  BY <1>1 DEF HandleStatement
<1> QED
  BY <1>1, <1>2, Outcomes DEF Settled

\* Every query.
LEMMA AllSettled ==
  ASSUME NEW db, NEW kind, NEW q \in QueriesOf(kind)
  PROVE  Settled(HandleStatement(db, q), kind) /\ kind \in Kinds
<1>1. kind \in Kinds
  BY QueryKinds
<1>2. CASE kind = "Select"
  BY <1>2, SelectSettled DEF Kinds
<1>3. CASE kind = "Insert"
  BY <1>3, InsertSettled DEF Kinds
<1>4. CASE kind = "Delete"
  BY <1>4, DeleteSettled DEF Kinds
<1>5. CASE kind = "CreateTable"
  BY <1>5, CreateTableSettled DEF Kinds
<1>6. CASE kind \in {"CreateIndex", "DropTable"}
  BY <1>6, OthersSettled DEF Kinds
<1> QED
  BY <1>1, <1>2, <1>3, <1>4, <1>5, <1>6 DEF Kinds

-----------------------------------------------------------------------------
(* Tables and rows.                                                        *)

\* The bytes of a string that are copied: with its NUL, or as many as there is
\* room for.
LEMMA KeptBytes ==
  ASSUME NEW d \in Seq(Nat \ {0}), NEW n \in Nat \ {0}
  PROVE  LET kept == CharsKept(d, n)
         IN  IF n > Len(d)
             THEN kept = Append(d, 0)
             ELSE kept = [i \in 1 .. n |-> d[i]]
<1> DEFINE a == Append(d, 0)
<1>1. /\ Len(d) \in Nat /\ a \in Seq(Nat) /\ Len(a) = Len(d) + 1
      /\ \A i \in 1 .. Len(d) : a[i] = d[i]
  OBVIOUS
<1>2. CharsKept(d, n) = SubSeq(a, 1, IF n > Len(d) + 1 THEN Len(d) + 1 ELSE n)
  BY DEF CharsKept
<1>3. CASE n > Len(d)
  <2>1. (IF n > Len(d) + 1 THEN Len(d) + 1 ELSE n) = Len(a)
    BY <1>1, <1>3
  <2> HIDE DEF a
  <2>2. SubSeq(a, 1, Len(a)) = a
    BY <1>1
  <2> QED
    BY <1>2, <1>3, <2>1, <2>2 DEF a
<1>4. CASE ~(n > Len(d))
  <2>1. (IF n > Len(d) + 1 THEN Len(d) + 1 ELSE n) = n
    BY <1>1, <1>4
  <2>2. n \in 1 .. Len(a) /\ \A i \in 1 .. n : i \in 1 .. Len(d)
    BY <1>1, <1>4
  <2> HIDE DEF a
  <2>3. SubSeq(a, 1, n) = [i \in 1 .. n |-> a[i]]
    BY <1>1, <2>2
  <2>4. [i \in 1 .. n |-> a[i]] = [i \in 1 .. n |-> d[i]]
    BY <1>1, <2>2
  <2> QED
    BY <1>2, <1>4, <2>1, <2>3, <2>4
<1> QED
  BY <1>3, <1>4

\* Bytes are natural numbers, and NUL is one.
LEMMA BytesAreNat ==
  /\ 0 \in Byte /\ \A x \in Byte : x \in Nat
  /\ \A s \in Seq(Byte) : s \in Seq(Nat)
  /\ \A s \in Seq(Byte \ {0}) : s \in Seq(Nat \ {0}) /\ s \in Seq(Byte)
<1>1. 0 \in Byte /\ \A x \in Byte : x \in Nat
  BY ByteAssumption DEF Byte
<1> QED
  BY <1>1

\* What is copied of a string is what a field of characters may hold.
LEMMA KeptHolds ==
  ASSUME NEW d \in Seq(Byte \ {0}), NEW field, field.type = "Chars", field.len \in Nat \ {0}
  PROVE  Holds(field, CharsKept(d, field.len)) /\ CharsKept(d, field.len) \in Seq(Int)
<1> DEFINE n == field.len
           kept == CharsKept(d, n)
<1>0. d \in Seq(Nat \ {0}) /\ \A i \in 1 .. Len(d) : d[i] \in Byte /\ d[i] # 0
  BY BytesAreNat
<1>1. IF n > Len(d) THEN kept = Append(d, 0) ELSE kept = [i \in 1 .. n |-> d[i]]
  BY <1>0, KeptBytes
<1> HIDE DEF kept
<1>2. n \in Nat \ {0}
  OBVIOUS
<1> HIDE DEF n
<1>3. kept \in Seq(Byte) => kept \in Seq(Int)
  <2>1. \A x \in Byte : x \in Int
    BY BytesAreNat
  <2> QED
    BY <2>1
<1>4. CASE n > Len(d)
  <2>1. Len(d) \in Nat /\ Len(kept) = Len(d) + 1 /\ kept[Len(kept)] = 0
    BY <1>0, <1>1, <1>4
  <2>2. kept \in Seq(Byte)
    BY <1>1, <1>4, BytesAreNat
  <2>3. \A i \in 1 .. Len(kept) - 1 : kept[i] = d[i] /\ d[i] # 0
    BY <1>0, <1>1, <1>4, <2>1
  <2>4. kept # <<>> /\ Len(kept) <= n
    BY <1>2, <1>4, <2>1
  <2> QED
    BY <1>3, <1>4, <2>1, <2>2, <2>3, <2>4 DEF Holds, kept, n
<1>5. CASE ~(n > Len(d))
  <2>1. n \in Nat /\ \A i \in 1 .. n : d[i] \in Byte /\ d[i] # 0
    BY <1>0, <1>2, <1>5
  <2>2. kept \in Seq(Byte) /\ Len(kept) = n
    BY <1>1, <1>5, <2>1
  <2>3. \A i \in 1 .. Len(kept) - 1 : kept[i] # 0
    BY <1>1, <1>5, <2>1, <2>2
  <2> QED
    BY <1>3, <2>1, <2>2, <2>3 DEF Holds, kept, n
<1> QED
  BY <1>2, <1>4, <1>5

\* A string without NUL ends where the bytes have a NUL, or where they end.
LEMMA KeptText ==
  ASSUME NEW d \in Seq(Nat \ {0}), NEW n \in Nat \ {0}
  PROVE  TextOf("Chars", CharsKept(d, n)) = SubSeq(d, 1, IF Len(d) < n THEN Len(d) ELSE n)
<1> DEFINE kept == CharsKept(d, n)
           ends == {i \in 1 .. Len(kept) : kept[i] = 0} \cup {Len(kept) + 1}
<1>1. IF n > Len(d) THEN kept = Append(d, 0) ELSE kept = [i \in 1 .. n |-> d[i]]
  BY KeptBytes
<1>2. TextOf("Chars", kept) = SubSeq(kept, 1, First(ends) - 1)
  BY DEF TextOf
<1> HIDE DEF kept
<1>3. \A i \in 1 .. Len(d) : d[i] \in Nat /\ d[i] # 0
  OBVIOUS
<1>4. CASE n > Len(d)
  <2>1. /\ Len(d) \in Nat /\ Len(kept) = Len(d) + 1 /\ kept \in Seq(Nat) /\ kept[Len(d) + 1] = 0
        /\ \A i \in 1 .. Len(d) : kept[i] = d[i]
    BY <1>1, <1>4
  <2>2. Len(d) + 1 \in ends /\ ends \in SUBSET Nat
    BY <2>1
  <2>3. \A j \in ends : Len(d) + 1 <= j
    BY <1>3, <2>1
  <2> HIDE DEF ends
  <2>4. First(ends) = Len(d) + 1
    BY <2>2, <2>3, FirstIs
  <2>5. SubSeq(kept, 1, Len(d)) = d
    BY <2>1
  <2>6. SubSeq(d, 1, Len(d)) = d /\ First(ends) - 1 = Len(d)
    BY <2>1, <2>4
  <2> QED
    BY <1>2, <1>4, <2>1, <2>5, <2>6 DEF kept
<1>5. CASE ~(n > Len(d))
  <2>1. /\ n \in Nat /\ \A i \in 1 .. n : i \in 1 .. Len(d) /\ d[i] \in Nat
    BY <1>3, <1>5
  <2>2. /\ kept \in Seq(Nat) /\ Len(kept) = n
        /\ \A i \in 1 .. n : kept[i] = d[i]
    BY <1>1, <1>5, <2>1
  <2>3. n + 1 \in ends /\ ends \in SUBSET Nat
    BY <2>1, <2>2
  <2>4. \A j \in ends : n + 1 <= j
    BY <1>3, <2>1, <2>2
  <2> HIDE DEF ends
  <2>5. First(ends) = n + 1
    BY <2>3, <2>4, FirstIs
  <2>6. SubSeq(kept, 1, n) = SubSeq(d, 1, n)
    BY <2>1, <2>2
  <2>7. First(ends) - 1 = n /\ (IF Len(d) < n THEN Len(d) ELSE n) = n
    BY <1>5, <2>1, <2>5
  <2> QED
    BY <1>2, <2>6, <2>7 DEF kept
<1> QED
  BY <1>4, <1>5

\* A number is a sequence of integers.
LEMMA NumberIsBytes ==
  ASSUME NEW x \in [1 .. 1 -> Int]
  PROVE  x \in Seq(Int) /\ Len(x) = 1 /\ x[1] \in Int
<1>1. x[1] \in Int /\ x = [i \in 1 .. 1 |-> x[i]]
  OBVIOUS
<1>2. \A i \in 1 .. 1 : x[i] \in Int
  BY <1>1
<1>3. [i \in 1 .. 1 |-> x[i]] \in Seq(Int) /\ Len([i \in 1 .. 1 |-> x[i]]) = 1
  BY <1>2
<1> QED
  BY <1>1, <1>3

\* Ints are integers.
LEMMA IntsAreIntegers ==
  /\ [1 .. 1 -> IntRange] \subseteq [1 .. 1 -> Int]
  /\ \A i \in 0 .. IntMax : i \in IntRange
BY IntAssumption DEF IntRange

\* The fields of a table, and those a user gave it.
LEMMA FieldsOfTable ==
  ASSUME NEW table, IsTable(table)
  PROVE  /\ table.fields \in Seq(AttrInfo) /\ Len(table.fields) \in Nat \ {0}
         /\ table.fields[1].type = "Ints"
         /\ Len(Tail(table.fields)) = Len(table.fields) - 1
         /\ \A i \in 1 .. Len(table.fields) - 1 : Tail(table.fields)[i] = table.fields[i + 1]
         /\ \A i \in 1 .. Len(table.fields) :
              /\ table.fields[i].type \in {"Ints", "Floats", "Chars"}
              /\ table.fields[i].type = "Chars" => table.fields[i].len \in Nat \ {0}
<1>1. /\ table.fields \in Seq(AttrInfo) /\ table.fields # <<>> /\ table.fields[1] = TxnField
      /\ \A i \in DOMAIN table.fields :
           table.fields[i].type # "Dates" /\ IsFieldValid(table.fields[i])
  BY DEF IsTable
<1>2. Len(table.fields) \in Nat \ {0} /\ DOMAIN table.fields = 1 .. Len(table.fields)
  BY <1>1
<1>3. table.fields[1].type = "Ints"
  BY <1>1 DEF TxnField, Field
<1>4. /\ Len(Tail(table.fields)) = Len(table.fields) - 1
      /\ \A i \in 1 .. Len(table.fields) - 1 : Tail(table.fields)[i] = table.fields[i + 1]
  BY <1>1, <1>2
<1>5. ASSUME NEW i \in 1 .. Len(table.fields)
      PROVE  /\ table.fields[i].type \in {"Ints", "Floats", "Chars"}
             /\ table.fields[i].type = "Chars" => table.fields[i].len \in Nat \ {0}
  <2>1. table.fields[i] \in AttrInfo
    BY <1>1, <1>2
  <2> QED
    BY <1>1, <1>2, <2>1 DEF AttrInfo, AttrType, IsFieldValid
<1> QED
  BY <1>1, <1>2, <1>3, <1>4, <1>5

\* The values of an INSERT that Handle lets through.
Fits(values, table) ==
  /\ values \in Seq(Values) /\ Len(values) = Len(Tail(table.fields))
  /\ \A i \in DOMAIN Tail(table.fields) : values[i].type = Tail(table.fields)[i].type

\* The record made of values that fit is a row, and reads as the values were given.
LEMMA RowMade ==
  ASSUME NEW table, IsTable(table), NEW values, Fits(values, table), NEW txn \in 0 .. IntMax
  PROVE  LET row == MakeRecord(table, values, txn)
         IN  /\ IsRow(table.fields, row)
             /\ \A i \in DOMAIN values : TextOf(table.fields[i + 1].type, row[i + 1]) =
                                           Given(table.fields[i + 1], values[i])
<1> DEFINE fields == table.fields
           row    == MakeRecord(table, values, txn)
           n      == Len(fields)
<1>1. /\ fields \in Seq(AttrInfo) /\ n \in Nat \ {0} /\ fields[1].type = "Ints"
      /\ Len(Tail(fields)) = n - 1
      /\ \A i \in 1 .. n - 1 : Tail(fields)[i] = fields[i + 1]
      /\ \A i \in 1 .. n : /\ fields[i].type \in {"Ints", "Floats", "Chars"}
                           /\ fields[i].type = "Chars" => fields[i].len \in Nat \ {0}
  BY FieldsOfTable
<1>2. /\ values \in Seq(Values) /\ Len(values) = n - 1
      /\ \A i \in 1 .. n - 1 : values[i].type = fields[i + 1].type
  <2>1. /\ values \in Seq(Values) /\ Len(values) = Len(Tail(fields))
        /\ \A i \in DOMAIN Tail(fields) : values[i].type = Tail(fields)[i].type
    BY DEF Fits
  <2>2. DOMAIN Tail(fields) = 1 .. n - 1
    BY <1>1
  <2> QED
    BY <1>1, <2>1, <2>2
<1>3. DOMAIN values = 1 .. n - 1 /\ \A i \in 1 .. n - 1 : values[i] \in Values
  BY <1>1, <1>2
<1>4. row = [i \in DOMAIN fields |->
               IF i = 1 THEN <<txn>>
               ELSE IF fields[i].type = "Chars" THEN CharsKept(values[i - 1].data, fields[i].len)
               ELSE values[i - 1].data]
  BY DEF MakeRecord
<1>5. DOMAIN fields = 1 .. n
  BY <1>1
<1> HIDE DEF fields, row, n
<1>6. row[1] = <<txn>> /\ \A i \in 1 .. n - 1 :
        row[i + 1] = IF fields[i + 1].type = "Chars"
                     THEN CharsKept(values[i].data, fields[i + 1].len) ELSE values[i].data
  <2>1. 1 \in 1 .. n
    BY <1>1
  <2>2. row[1] = <<txn>>
    BY <1>4, <1>5, <2>1
  <2>3. ASSUME NEW i \in 1 .. n - 1
        PROVE  row[i + 1] = IF fields[i + 1].type = "Chars"
                            THEN CharsKept(values[i].data, fields[i + 1].len) ELSE values[i].data
    <3>1. i + 1 \in 1 .. n /\ i + 1 # 1 /\ (i + 1) - 1 = i
      BY <1>1
    <3> QED
      BY <1>4, <1>5, <3>1
  <2> QED
    BY <2>2, <2>3
<1>7. ASSUME NEW i \in 1 .. n - 1
      PROVE  /\ Holds(fields[i + 1], row[i + 1]) /\ row[i + 1] \in Seq(Int)
             /\ TextOf(fields[i + 1].type, row[i + 1]) = Given(fields[i + 1], values[i])
  <2>1. i + 1 \in 1 .. n /\ values[i] \in Values /\ values[i].type = fields[i + 1].type
    BY <1>1, <1>2, <1>3
  <2>2. CASE fields[i + 1].type = "Chars"
    <3>1. values[i].data \in Seq(Byte \ {0}) /\ fields[i + 1].len \in Nat \ {0}
      BY <1>1, <2>1, <2>2 DEF Values
    <3>2. row[i + 1] = CharsKept(values[i].data, fields[i + 1].len)
      BY <1>6, <2>2
    <3>3. Holds(fields[i + 1], row[i + 1]) /\ row[i + 1] \in Seq(Int)
      BY <2>2, <3>1, <3>2, KeptHolds
    <3>4. TextOf(fields[i + 1].type, row[i + 1]) =
            SubSeq(values[i].data, 1, IF Len(values[i].data) < fields[i + 1].len
                                      THEN Len(values[i].data) ELSE fields[i + 1].len)
      BY <2>2, <3>1, <3>2, BytesAreNat, KeptText
    <3> QED
      BY <2>2, <3>3, <3>4 DEF Given
  <2>3. CASE fields[i + 1].type # "Chars"
    <3>1. /\ values[i].data \in [1 .. 1 -> Int]
          /\ fields[i + 1].type = "Ints" => values[i].data \in [1 .. 1 -> IntRange]
      BY <2>1, <2>3, IntsAreIntegers DEF Values
    <3>2. row[i + 1] = values[i].data
      BY <1>6, <2>3
    <3>3. values[i].data \in Seq(Int)
      BY <3>1, NumberIsBytes
    <3> QED
      BY <2>3, <3>1, <3>2, <3>3 DEF Holds, TextOf, Given
  <2> QED
    BY <2>2, <2>3
<1>8. Holds(fields[1], row[1]) /\ row[1] \in Seq(Int)
  <2>1. txn \in IntRange /\ txn \in Int
    BY IntsAreIntegers, IntAssumption
  <2>2. <<txn>> \in [1 .. 1 -> IntRange] /\ <<txn>> \in Seq(Int)
    BY <2>1
  <2> QED
    BY <1>1, <1>6, <2>2 DEF Holds
<1>9. \A i \in 1 .. n : Holds(fields[i], row[i]) /\ row[i] \in Seq(Int)
  <2> SUFFICES ASSUME NEW i \in 1 .. n, i # 1
               PROVE  Holds(fields[i], row[i]) /\ row[i] \in Seq(Int)
    BY <1>8
  <2>1. i - 1 \in 1 .. n - 1 /\ (i - 1) + 1 = i
    BY <1>1
  <2> QED
    BY <1>7, <2>1
<1>10. row \in Seq(Seq(Int)) /\ Len(row) = n
  <2>1. DOMAIN row = 1 .. n /\ row = [i \in 1 .. n |-> row[i]]
    BY <1>4, <1>5
  <2> QED
    BY <1>1, <1>9, <2>1
<1>11. IsRow(fields, row)
  BY <1>5, <1>9, <1>10 DEF IsRow, n
<1> QED
  BY <1>3, <1>7, <1>11 DEF fields, row

\* The table that CREATE TABLE makes is one.
LEMMA TableMade ==
  ASSUME NEW q \in QueriesOf("CreateTable"), ~HandleDies(q),
         \A i \in DOMAIN q.attrs : IsFieldValid(q.attrs[i])
  PROVE  LET table == [fields |-> <<TxnField>> \o q.attrs, rows |-> <<>>]
         IN  IsTable(table) /\ DOMAIN table.rows = {}
<1> DEFINE fields == <<TxnField>> \o q.attrs
<1>1. q.attrs \in Seq(AttrInfo) /\ q.scf = "CreateTable"
  BY DEF QueriesOf, CreateTableQueries
<1>2. TxnField \in AttrInfo /\ TxnField.type = "Ints" /\ IsFieldValid(TxnField)
  BY TxnAssumption DEF TxnField, Field, AttrInfo, AttrType, IsFieldValid
<1>3. <<TxnField>> \in Seq(AttrInfo) /\ Len(<<TxnField>>) = 1
  BY <1>2
<1>4. /\ fields \in Seq(AttrInfo) /\ Len(fields) = 1 + Len(q.attrs)
      /\ \A i \in 1 .. 1 : fields[i] = <<TxnField>>[i]
      /\ \A i \in 1 .. Len(q.attrs) : fields[1 + i] = q.attrs[i]
  <2>1. q.attrs \in Seq(AttrInfo)
    BY <1>1
  <2> QED
    BY ONLY <1>3, <2>1, Joined
<1>5. \A i \in DOMAIN q.attrs : q.attrs[i].type # "Dates"
  <2> SUFFICES ASSUME NEW i \in DOMAIN q.attrs, q.attrs[i].type = "Dates" PROVE FALSE
    OBVIOUS
  <2>1. \A j \in 1 .. i - 1 : j \in DOMAIN q.attrs
    BY <1>1
  <2> QED
    BY <1>1, <2>1 DEF HandleDies
<1> HIDE DEF fields
<1>6. fields # <<>> /\ fields[1] = TxnField
  BY <1>1, <1>4
<1>7. ASSUME NEW i \in DOMAIN fields
      PROVE  fields[i].type # "Dates" /\ IsFieldValid(fields[i])
  <2>1. CASE i = 1
    BY <1>2, <1>6, <2>1
  <2>2. CASE i # 1
    <3>1. i - 1 \in DOMAIN q.attrs /\ fields[1 + (i - 1)] = q.attrs[i - 1] /\ 1 + (i - 1) = i
      BY <1>1, <1>4, <2>2
    <3>2. q.attrs[i - 1].type # "Dates" /\ IsFieldValid(q.attrs[i - 1])
      BY <1>5, <3>1
    <3> QED
      BY <3>1, <3>2
  <2> QED
    BY <2>1, <2>2
<1>8. DOMAIN <<>> = {}
  OBVIOUS
<1> QED
  BY <1>4, <1>6, <1>7, <1>8 DEF IsTable, fields

-----------------------------------------------------------------------------
(* What the code compares and what a condition means: a filter made of sound *)
(* conditions lets through the rows that they are true of.                  *)

\* The difference of two ints that has an int is exact; any other is not zero.
LEMMA DifferenceOfInts ==
  ASSUME NEW a \in IntRange, NEW b \in IntRange
  PROVE  /\ a - b \in IntRange => CompareInt(a, b) = a - b
         /\ a = b <=> CompareInt(a, b) = 0
<1> DEFINE h == IntMax + 1
           x == a - b + h
           m == 2 * h
<1>1. IntMax \in Nat /\ a \in Int /\ b \in Int /\ -h <= a /\ a < h /\ -h <= b /\ b < h
  BY IntAssumption DEF IntRange
<1>2. CompareInt(a, b) = (x % m) - h
  BY <1>1 DEF CompareInt
<1>3. x \in Int /\ m \in Int /\ m > 0
  BY <1>1
<1>4. CASE x >= 0 /\ x < m
  <2>1. x % m = x
    BY <1>3, <1>4
  <2> QED
    BY <1>1, <1>2, <1>4, <2>1 DEF IntRange
<1>5. CASE x < 0
  <2>1. x >= -m /\ x + m >= 0 /\ x + m < m
    BY <1>1, <1>5
  <2>2. x % m = x + m
    BY <1>3, <2>1
  <2> QED
    BY <1>1, <1>2, <1>5, <2>2 DEF IntRange
<1>6. CASE x >= m
  <2>1. x - m >= 0 /\ x - m < m
    BY <1>1, <1>6
  <2>2. x % m = x - m
    BY <1>3, <2>1
  <2> QED
    BY <1>1, <1>2, <1>6, <2>2 DEF IntRange
<1> QED
  BY <1>1, <1>4, <1>5, <1>6

-----------------------------------------------------------------------------
(* Comparisons of strings.                                                 *)

\* Two strings that agree before place k, where the left one ends or has the
\* smaller character.
LEMMA LessAt ==
  ASSUME NEW v \in Seq(Nat \ {0}), NEW w \in Seq(Nat \ {0}), NEW k \in Nat \ {0},
         k <= Len(w), k <= Len(v) + 1, \A i \in 1 .. k - 1 : v[i] = w[i],
         k <= Len(v) => v[k] < w[k]
  PROVE  Less(v, w) /\ ~Less(w, v) /\ v # w
<1>1. /\ Len(v) \in Nat /\ Len(w) \in Nat
      /\ \A i \in 1 .. Len(v) : v[i] \in Nat
      /\ \A i \in 1 .. Len(w) : w[i] \in Nat
  OBVIOUS
<1>2. \A s \in Seq(Nat \ {0}) : \A n \in 0 .. Len(s) :
        /\ Len(SubSeq(s, 1, n)) = n /\ SubSeq(s, 1, n) \in Seq(Nat \ {0})
        /\ \A i \in 1 .. n : SubSeq(s, 1, n)[i] = s[i]
  OBVIOUS
<1>3. v # w
  BY <1>1
<1>4. Less(v, w)
  <2>1. CASE k = Len(v) + 1
    <3>1. Len(v) < Len(w) /\ Len(v) \in 0 .. Len(w)
      BY <1>1, <2>1
    <3>2. \A i \in 1 .. Len(v) : SubSeq(w, 1, Len(v))[i] = v[i]
      BY <1>1, <1>2, <2>1, <3>1
    <3>3. SubSeq(w, 1, Len(v)) \in Seq(Nat \ {0}) /\ Len(SubSeq(w, 1, Len(v))) = Len(v)
      BY <1>2, <3>1
    <3>4. SubSeq(w, 1, Len(v)) = v
      BY <3>2, <3>3
    <3> QED
      BY <3>1, <3>4 DEF Less, Begins
  <2>2. CASE k <= Len(v)
    <3>1. k - 1 \in 0 .. Len(v) /\ k - 1 \in 0 .. Len(w)
      BY <1>1, <2>2
    <3>2. \A i \in 1 .. k - 1 : SubSeq(v, 1, k - 1)[i] = SubSeq(w, 1, k - 1)[i]
      BY <1>2, <3>1
    <3>3. /\ SubSeq(v, 1, k - 1) \in Seq(Nat \ {0}) /\ Len(SubSeq(v, 1, k - 1)) = k - 1
          /\ SubSeq(w, 1, k - 1) \in Seq(Nat \ {0}) /\ Len(SubSeq(w, 1, k - 1)) = k - 1
      BY <1>2, <3>1
    <3>4. SubSeq(v, 1, k - 1) = SubSeq(w, 1, k - 1)
      BY <3>2, <3>3
    <3>5. k \in 1 .. (IF Len(v) < Len(w) THEN Len(v) ELSE Len(w))
      BY <1>1, <2>2
    <3> QED
      BY <2>2, <3>4, <3>5 DEF Less
  <2> QED
    BY <1>1, <2>1, <2>2
<1>5. ASSUME Less(w, v) PROVE FALSE
  <2>1. CASE Len(w) < Len(v) /\ w = SubSeq(v, 1, Len(w))
    <3>1. k \in 1 .. Len(w) /\ k <= Len(v) /\ Len(w) \in 0 .. Len(v)
      BY <1>1, <2>1
    <3>2. w[k] = v[k]
      BY <1>2, <2>1, <3>1
    <3> QED
      BY <1>1, <3>1, <3>2
  <2>2. CASE \E j \in 1 .. (IF Len(w) < Len(v) THEN Len(w) ELSE Len(v)) :
               w[j] < v[j] /\ SubSeq(w, 1, j - 1) = SubSeq(v, 1, j - 1)
    <3>1. PICK j \in 1 .. (IF Len(w) < Len(v) THEN Len(w) ELSE Len(v)) :
               w[j] < v[j] /\ SubSeq(w, 1, j - 1) = SubSeq(v, 1, j - 1)
      BY <2>2
    <3>2. j \in Nat /\ j >= 1 /\ j <= Len(w) /\ j <= Len(v)
      BY <1>1
    <3>3. CASE j < k
      BY <1>1, <3>1, <3>2, <3>3
    <3>4. CASE j = k
      BY <1>1, <3>1, <3>2, <3>4
    <3>5. CASE k < j
      <4>1. j - 1 \in 0 .. Len(w) /\ j - 1 \in 0 .. Len(v) /\ k \in 1 .. j - 1
        BY <3>2, <3>5
      <4>2. w[k] = v[k]
        BY <1>2, <3>1, <4>1
      <4> QED
        BY <1>1, <3>2, <3>5, <4>2
    <3> QED
      BY <3>2, <3>3, <3>4, <3>5
  <2> QED
    BY <1>5, <2>1, <2>2 DEF Less, Begins
<1> QED
  BY <1>3, <1>4, <1>5

\* No string is less than itself.
LEMMA NotLessItself ==
  ASSUME NEW v \in Seq(Int)
  PROVE  ~Less(v, v)
<1>1. Len(v) \in Nat /\ \A i \in 1 .. Len(v) : v[i] \in Int
  OBVIOUS
<1> QED
  BY <1>1 DEF Less, Begins

\* Of one number it is the order of numbers.
LEMMA LessNumber ==
  ASSUME NEW v \in [1 .. 1 -> Int], NEW w \in [1 .. 1 -> Int]
  PROVE  (Less(v, w) <=> v[1] < w[1]) /\ (v = w <=> v[1] = w[1])
<1>1. v \in Seq(Int) /\ w \in Seq(Int) /\ Len(v) = 1 /\ Len(w) = 1
  BY NumberIsBytes
<1>2. SubSeq(v, 1, 0) = SubSeq(w, 1, 0)
  BY <1>1
<1>3. Less(v, w) <=> v[1] < w[1]
  <2>1. Less(v, w) <=> \E i \in 1 .. 1 : v[i] < w[i] /\ SubSeq(v, 1, i - 1) = SubSeq(w, 1, i - 1)
    BY <1>1 DEF Less, Begins
  <2>2. \A i \in 1 .. 1 : i = 1 /\ i - 1 = 0
    OBVIOUS
  <2>3. 1 \in 1 .. 1
    OBVIOUS
  <2> QED
    BY <1>2, <2>1, <2>2, <2>3
<1>4. v = w <=> v[1] = w[1]
  <2>1. v[1] = w[1] => \A i \in 1 .. 1 : v[i] = w[i]
    OBVIOUS
  <2> QED
    BY <2>1
<1> QED
  BY <1>3, <1>4


\* The bytes of a unit are those of a string, with its NUL where there is room.
IsText(u, v) ==
  /\ v \in Seq(Byte \ {0}) /\ u.len \in Nat /\ Len(v) <= u.len
  /\ u.data = IF Len(v) < u.len THEN Append(v, 0) ELSE v

CharAt(u, i) == IF i <= Len(u.data) THEN u.data[i] ELSE 0

\* The characters of a unit are those of its string, and then NUL.
LEMMA CharsOfText ==
  ASSUME NEW u, NEW v, IsText(u, v)
  PROVE  /\ Len(v) \in Nat /\ \A i \in 1 .. Len(v) : v[i] \in Nat /\ v[i] # 0
         /\ \A i \in 1 .. u.len : CharAt(u, i) = IF i <= Len(v) THEN v[i] ELSE 0
         /\ Len(u.data) = IF Len(v) < u.len THEN Len(v) + 1 ELSE Len(v)
         /\ \A i \in 1 .. Len(v) : u.data[i] = v[i]
         /\ Len(v) < u.len => u.data[Len(v) + 1] = 0
<1>1. v \in Seq(Nat \ {0}) /\ u.len \in Nat /\ Len(v) <= u.len
  BY BytesAreNat DEF IsText
<1>2. Len(v) \in Nat /\ \A i \in 1 .. Len(v) : v[i] \in Nat /\ v[i] # 0
  BY <1>1
<1>3. CASE Len(v) < u.len
  <2>1. u.data = Append(v, 0)
    BY <1>3 DEF IsText
  <2>2. Len(u.data) = Len(v) + 1 /\ u.data[Len(v) + 1] = 0
        /\ \A i \in 1 .. Len(v) : u.data[i] = v[i]
    BY <1>1, <2>1
  <2>3. \A i \in 1 .. u.len : CharAt(u, i) = IF i <= Len(v) THEN v[i] ELSE 0
    BY <1>1, <1>2, <2>2 DEF CharAt
  <2> QED
    BY <1>2, <1>3, <2>2, <2>3
<1>4. CASE Len(v) = u.len
  <2>1. u.data = v
    BY <1>4 DEF IsText
  <2>2. \A i \in 1 .. u.len : CharAt(u, i) = IF i <= Len(v) THEN v[i] ELSE 0
    BY <1>1, <1>2, <1>4, <2>1 DEF CharAt
  <2> QED
    BY <1>2, <1>4, <2>1, <2>2
<1> QED
  BY <1>1, <1>2, <1>3, <1>4

\* What a field of characters holds is its text, with its NUL where there is room.
LEMMA FieldText ==
  ASSUME NEW field, field.type = "Chars", field.len \in Nat \ {0}, NEW data, Holds(field, data),
         NEW u, u.len = field.len, u.data = data
  PROVE  IsText(u, TextOf("Chars", data))
<1> DEFINE n    == Len(data)
           v    == TextOf("Chars", data)
           ends == {i \in 1 .. n : data[i] = 0} \cup {n + 1}
<1>1. /\ data \in Seq(Nat) /\ n <= field.len /\ \A i \in 1 .. n : data[i] \in Byte
      /\ \A i \in 1 .. n - 1 : data[i] # 0
      /\ n < field.len => data # <<>> /\ data[n] = 0
  BY BytesAreNat DEF Holds
<1>2. n \in Nat /\ field.len \in Nat /\ field.len # 0 /\ n # 0
  <2>1. n = 0 => data = <<>>
    BY <1>1
  <2> QED
    BY <1>1, <2>1
<1>3. \A i \in 1 .. n : data[i] \in Nat
  BY <1>1
<1>4. v = SubSeq(data, 1, First(ends) - 1)
  BY DEF TextOf
<1>5. ends \in SUBSET Nat
  BY <1>2
<1>6. CASE data[n] = 0
  <2>1. n \in ends /\ \A j \in ends : n <= j
    BY <1>1, <1>2, <1>6
  <2>2. First(ends) = n
    <3> HIDE DEF ends, n
    <3> QED
      BY <1>5, <2>1, FirstIs
  <2>3. v = SubSeq(data, 1, n - 1)
    BY <1>4, <2>2
  <2> HIDE DEF v, ends
  <2>4. n - 1 \in 0 .. n
    BY <1>2
  <2>5. Len(v) = n - 1 /\ \A i \in 1 .. n - 1 : v[i] = data[i]
    <3>1. \A m \in 0 .. Len(data) :
            Len(SubSeq(data, 1, m)) = m /\ \A i \in 1 .. m : SubSeq(data, 1, m)[i] = data[i]
      BY <1>1
    <3> QED
      BY <2>3, <2>4, <3>1
  <2>6. v = [i \in 1 .. n - 1 |-> data[i]]
    BY <1>1, <2>3, <2>4
  <2>7. \A i \in 1 .. n - 1 : data[i] \in Byte \ {0}
    BY <1>1, <1>2
  <2>8. v \in Seq(Byte \ {0})
    BY <1>2, <2>6, <2>7
  <2>9. Append(v, 0) = data
    <3>0. v \in Seq(Nat)
      BY <2>8, BytesAreNat
    <3>1. Append(v, 0) \in Seq(Nat) /\ Len(Append(v, 0)) = n
      BY <1>2, <2>5, <3>0
    <3>2. \A i \in 1 .. n : Append(v, 0)[i] = data[i]
      BY <1>2, <1>6, <2>5, <3>0
    <3> QED
      BY <1>1, <3>1, <3>2, SeqEqual
  <2>10. Len(v) < u.len /\ Len(v) <= u.len /\ u.len \in Nat
    BY <1>1, <1>2, <2>5
  <2> QED
    BY <2>8, <2>9, <2>10 DEF IsText, v
<1>7. CASE data[n] # 0
  <2>1. n + 1 \in ends /\ \A j \in ends : n + 1 <= j
    BY <1>1, <1>2, <1>7
  <2>2. First(ends) = n + 1
    <3> HIDE DEF ends, n
    <3>1. n + 1 \in ends /\ \A j \in ends : n + 1 <= j
      BY <2>1
    <3> QED
      BY ONLY <1>5, <3>1, FirstIs
  <2>3. v = SubSeq(data, 1, (n + 1) - 1)
    BY <1>4, <2>2
  <2>4. (n + 1) - 1 = n
    BY <1>2
  <2>5. v = data
    BY <1>1, <2>3, <2>4
  <2>6. n = field.len
    BY <1>1, <1>2, <1>7
  <2>7. \A i \in 1 .. n : data[i] \in Byte \ {0}
    BY <1>1, <1>2, <1>7
  <2>8. data \in Seq(Byte \ {0})
    <3>1. data = [i \in 1 .. n |-> data[i]]
      BY <1>1
    <3> QED
      BY <1>2, <2>7, <3>1
  <2> HIDE DEF v
  <2> QED
    BY <1>2, <2>5, <2>6, <2>8 DEF IsText, v
<1> QED
  BY <1>6, <1>7

\* A literal is its text.
LEMMA LiteralText ==
  ASSUME NEW data \in Seq(Byte \ {0}), NEW u, u.len = Len(data), u.data = data
  PROVE  IsText(u, data)
BY DEF IsText


\* Two strings that agree up to place k and have no place after it are equal.
LEMMA SameText ==
  ASSUME NEW v \in Seq(Nat \ {0}), NEW w \in Seq(Nat \ {0}), Len(v) = Len(w),
         \A i \in 1 .. Len(v) : v[i] = w[i]
  PROVE  v = w
BY SeqEqual

\* CompareString by the characters of both sides.
LEMMA ComparedChars ==
  ASSUME NEW a, NEW b
  PROVE  LET max     == IF a.len < b.len THEN a.len ELSE b.len
             ends    == First({i \in 1 .. max : CharAt(a, i) # CharAt(b, i) \/ CharAt(a, i) = 0})
             Rest(u) == IF max < Len(u.data) THEN {Char(u.data[max + 1])} ELSE AnySign
         IN  CompareString(a, b) =
               IF ends # 0 /\ CharAt(a, ends) # CharAt(b, ends)
               THEN {CharAt(a, ends) - CharAt(b, ends)}
               ELSE IF a.len > b.len THEN Rest(a)
               ELSE IF a.len < b.len THEN Rest(b) ELSE {0}
BY DEF CompareString, CharAt

Equal(v, w)   == v = w /\ ~Less(v, w) /\ ~Less(w, v)
Smaller(v, w) == v # w /\ Less(v, w) /\ ~Less(w, v)

\* A string that agrees with a longer one over its length begins it.
LEMMA BeginsLonger ==
  ASSUME NEW v \in Seq(Nat \ {0}), NEW w \in Seq(Nat \ {0}), Len(v) < Len(w),
         \A i \in 1 .. Len(v) : v[i] = w[i]
  PROVE  Begins(v, w) /\ Smaller(v, w)
<1>1. Len(v) \in Nat /\ Len(w) \in Nat /\ Len(v) \in 0 .. Len(w)
  OBVIOUS
<1>2. Begins(v, w)
  <2>1. \A m \in 0 .. Len(w) :
          /\ SubSeq(w, 1, m) \in Seq(Nat \ {0}) /\ Len(SubSeq(w, 1, m)) = m
          /\ \A i \in 1 .. m : SubSeq(w, 1, m)[i] = w[i]
    OBVIOUS
  <2>2. PICK p : p = SubSeq(w, 1, Len(v))
    OBVIOUS
  <2>3. p \in Seq(Nat \ {0}) /\ Len(v) = Len(p) /\ \A i \in 1 .. Len(v) : v[i] = p[i]
    BY <1>1, <2>1, <2>2
  <2>4. v = p
    BY <2>3, SameText
  <2> QED
    BY <2>2, <2>4 DEF Begins
<1>3. Smaller(v, w)
  <2>1. PICK k \in Nat \ {0} : k = Len(v) + 1
    BY <1>1
  <2>2. /\ k <= Len(w) /\ k <= Len(v) + 1 /\ \A i \in 1 .. k - 1 : v[i] = w[i]
        /\ ~(k <= Len(v))
    BY <1>1, <2>1
  <2> QED
    BY <2>2, LessAt DEF Smaller
<1> QED
  BY <1>2, <1>3

\* The sign of a byte as a char.
LEMMA SignOfChar ==
  ASSUME NEW x \in Byte, x # 0
  PROVE  /\ Char(x) \in Int /\ Char(x) # 0
         /\ x < SignBit => Char(x) > 0
         /\ x >= SignBit => Char(x) < 0
BY ByteAssumption DEF Byte, Char

\* What a comparison of strings finds: it tells equal strings, unless they fill
\* neither of two sides of different lengths; and the order, unless one that
\* fills its side begins the other and the next char has the wrong sign.

LEMMA StringsCompared ==
  ASSUME NEW a, NEW b, NEW v, NEW w, IsText(a, v), IsText(b, w)
  PROVE  \/ Equal(v, w) /\ CompareString(a, b) = {0}
         \/ v = w /\ a.len # b.len /\ Len(v) < a.len /\ Len(v) < b.len
         \/ Smaller(v, w) /\ \E c \in Int : c < 0 /\ CompareString(a, b) = {c}
         \/ Smaller(w, v) /\ \E c \in Int : c > 0 /\ CompareString(a, b) = {c}
         \/ /\ Len(v) = a.len /\ Begins(v, w) /\ w[Len(v) + 1] < SignBit /\ v # w
            /\ \E c \in Int : c # 0 /\ CompareString(a, b) = {c}
         \/ /\ Len(w) = b.len /\ Begins(w, v) /\ v[Len(w) + 1] >= SignBit /\ v # w
            /\ \E c \in Int : c # 0 /\ CompareString(a, b) = {c}
<1> DEFINE max   == IF a.len < b.len THEN a.len ELSE b.len
           stops == {i \in 1 .. max : CharAt(a, i) # CharAt(b, i) \/ CharAt(a, i) = 0}
           ends  == First(stops)
           Rest(u) == IF max < Len(u.data) THEN {Char(u.data[max + 1])} ELSE AnySign
           result == CompareString(a, b)
<1>1. /\ v \in Seq(Nat \ {0}) /\ w \in Seq(Nat \ {0}) /\ a.len \in Nat /\ b.len \in Nat
      /\ Len(v) \in Nat /\ Len(w) \in Nat /\ Len(v) <= a.len /\ Len(w) <= b.len
      /\ \A i \in 1 .. Len(v) : v[i] \in Nat /\ v[i] # 0 /\ v[i] \in Byte
      /\ \A i \in 1 .. Len(w) : w[i] \in Nat /\ w[i] # 0 /\ w[i] \in Byte
  BY CharsOfText, BytesAreNat DEF IsText
<1>2. /\ \A i \in 1 .. a.len : CharAt(a, i) = IF i <= Len(v) THEN v[i] ELSE 0
      /\ \A i \in 1 .. b.len : CharAt(b, i) = IF i <= Len(w) THEN w[i] ELSE 0
  BY CharsOfText
<1>3. result = IF ends # 0 /\ CharAt(a, ends) # CharAt(b, ends)
               THEN {CharAt(a, ends) - CharAt(b, ends)}
               ELSE IF a.len > b.len THEN Rest(a)
               ELSE IF a.len < b.len THEN Rest(b) ELSE {0}
  BY ComparedChars
<1>4. max \in Nat /\ max <= a.len /\ max <= b.len /\ (max = a.len \/ max = b.len)
  BY <1>1
<1>5. stops \in SUBSET Nat /\ stops \subseteq 1 .. max
  BY <1>4
<1>6. \A i \in 1 .. max : i \notin stops => CharAt(a, i) = CharAt(b, i) /\ CharAt(a, i) # 0
  OBVIOUS
<1>7. \A i \in stops : CharAt(a, i) # CharAt(b, i) \/ CharAt(a, i) = 0
  OBVIOUS
<1> HIDE DEF stops, result
<1>8. \A i \in 1 .. max : i \notin stops =>
        i <= Len(v) /\ i <= Len(w) /\ v[i] = w[i]
  BY <1>1, <1>2, <1>4, <1>6
<1>9. v = w => Equal(v, w)
  BY <1>1, NotLessItself DEF Equal
<1>0. Char(0) = 0
  BY ByteAssumption DEF Char
<1>10. CASE stops = {}
  <2>1. ends = 0
    BY <1>10 DEF First
  <2>2. max <= Len(v) /\ max <= Len(w) /\ \A i \in 1 .. max : v[i] = w[i]
    <3>1. \A i \in 1 .. max : i <= Len(v) /\ i <= Len(w) /\ v[i] = w[i]
      BY <1>8, <1>10
    <3>2. max = 0 \/ max \in 1 .. max
      BY <1>4
    <3> QED
      BY <1>1, <3>1, <3>2
  <2>3. result = IF a.len > b.len THEN Rest(a) ELSE IF a.len < b.len THEN Rest(b) ELSE {0}
    BY <1>3, <2>1
  <2> HIDE DEF ends
  <2>4. CASE a.len = b.len
    <3>1. Len(v) = Len(w) /\ Len(v) = max
      BY <1>1, <1>4, <2>2, <2>4
    <3>2. v = w
      BY <1>1, <2>2, <3>1, SameText
    <3>3. result = {0}
      BY <1>1, <2>3, <2>4
    <3> QED
      BY <1>9, <3>2, <3>3 DEF result
  <2>5. CASE a.len > b.len
    <3>1. max = b.len /\ Len(w) = max /\ result = Rest(a)
      BY <1>1, <1>4, <2>2, <2>3, <2>5
    <3>2. CASE Len(v) = max
      <4>1. v = w
        BY <1>1, <2>2, <3>1, <3>2, SameText
      <4>2. max < Len(a.data) /\ a.data[max + 1] = 0
        BY <1>1, <2>5, <3>1, <3>2, CharsOfText
      <4>3. result = {0}
        BY <1>0, <3>1, <4>2
      <4> QED
        BY <1>9, <4>1, <4>3 DEF result
    <3>3. CASE Len(v) > max
      <4>1. max + 1 \in 1 .. Len(v)
        BY <1>1, <1>4, <3>3
      <4>2. max < Len(a.data) /\ a.data[max + 1] = v[max + 1]
        <5>1. /\ Len(a.data) = IF Len(v) < a.len THEN Len(v) + 1 ELSE Len(v)
              /\ \A i \in 1 .. Len(v) : a.data[i] = v[i]
          BY CharsOfText
        <5> QED
          BY ONLY <1>1, <1>4, <3>3, <4>1, <5>1
      <4>3. PICK x \in Byte : x = v[max + 1] /\ x # 0 /\ x \in Nat
        BY <1>1, <4>1
      <4>4. result = {Char(x)}
        BY <3>1, <4>2, <4>3
      <4>5. Begins(w, v) /\ Smaller(w, v)
        <5>1. Len(w) < Len(v) /\ \A i \in 1 .. Len(w) : w[i] = v[i]
          BY <1>1, <2>2, <3>1, <3>3
        <5> QED
          BY ONLY <1>1, <5>1, BeginsLonger
      <4>6. CASE x < SignBit
        BY <4>3, <4>4, <4>5, <4>6, SignOfChar DEF result
      <4>7. CASE x >= SignBit
        BY <3>1, <4>3, <4>4, <4>5, <4>7, SignOfChar DEF result, Smaller
      <4> QED
        BY <4>3, <4>6, <4>7, ByteAssumption
    <3> QED
      BY <1>1, <1>4, <2>2, <3>2, <3>3
  <2>6. CASE a.len < b.len
    <3>1. max = a.len /\ Len(v) = max /\ result = Rest(b)
      BY <1>1, <1>4, <2>2, <2>3, <2>6
    <3>2. CASE Len(w) = max
      <4>1. v = w
        BY <1>1, <2>2, <3>1, <3>2, SameText
      <4>2. max < Len(b.data) /\ b.data[max + 1] = 0
        BY <1>1, <2>6, <3>1, <3>2, CharsOfText
      <4>3. result = {0}
        BY <1>0, <3>1, <4>2
      <4> QED
        BY <1>9, <4>1, <4>3 DEF result
    <3>3. CASE Len(w) > max
      <4>1. max + 1 \in 1 .. Len(w)
        BY <1>1, <1>4, <3>3
      <4>2. max < Len(b.data) /\ b.data[max + 1] = w[max + 1]
        BY <1>1, <1>4, <4>1, CharsOfText
      <4>3. PICK x \in Byte : x = w[max + 1] /\ x # 0 /\ x \in Nat
        BY <1>1, <4>1
      <4>4. result = {Char(x)}
        BY <3>1, <4>2, <4>3
      <4>5. Begins(v, w) /\ Smaller(v, w)
        <5>1. Len(v) < Len(w) /\ \A i \in 1 .. Len(v) : v[i] = w[i]
          BY <1>1, <2>2, <3>1, <3>3
        <5> QED
          BY ONLY <1>1, <5>1, BeginsLonger
      <4>6. CASE x < SignBit
        BY <3>1, <4>3, <4>4, <4>5, <4>6, SignOfChar DEF result, Smaller
      <4>7. CASE x >= SignBit
        BY <4>3, <4>4, <4>5, <4>7, SignOfChar DEF result
      <4> QED
        BY <4>3, <4>6, <4>7, ByteAssumption
    <3> QED
      BY <1>1, <1>4, <2>2, <3>2, <3>3
  <2> QED
    BY <1>1, <2>4, <2>5, <2>6
<1>11. CASE stops # {}
  <2>1. ends \in stops /\ \A j \in stops : ends <= j
    BY <1>5, <1>11, FirstIn
  <2>2. PICK k \in stops : k = ends
    BY <2>1
  <2> HIDE DEF ends
  <2>3. /\ k \in Nat \ {0} /\ k <= max /\ k \in 1 .. max
        /\ \A i \in 1 .. k - 1 : i \notin stops /\ i \in 1 .. max
    BY <1>4, <1>5, <2>1, <2>2
  <2>4. k <= Len(v) + 1 /\ k <= Len(w) + 1 /\ \A i \in 1 .. k - 1 : v[i] = w[i]
    <3>1. \A i \in 1 .. k - 1 : i <= Len(v) /\ i <= Len(w) /\ v[i] = w[i]
      BY <1>8, <2>3
    <3>2. k = 1 \/ k - 1 \in 1 .. k - 1
      BY <2>3
    <3> QED
      BY <1>1, <2>3, <3>1, <3>2
  <2>5. /\ CharAt(a, k) = IF k <= Len(v) THEN v[k] ELSE 0
        /\ CharAt(b, k) = IF k <= Len(w) THEN w[k] ELSE 0
        /\ CharAt(a, k) \in Nat /\ CharAt(b, k) \in Nat
    BY <1>1, <1>2, <1>4, <2>3
  <2>6. CASE CharAt(a, k) < CharAt(b, k)
    <3>1. k <= Len(w) /\ (k <= Len(v) => v[k] < w[k])
      BY <1>1, <2>5, <2>6
    <3>2. Smaller(v, w)
      BY <1>1, <2>3, <2>4, <3>1, LessAt DEF Smaller
    <3>3. result = {CharAt(a, k) - CharAt(b, k)}
      BY <1>3, <2>2, <2>3, <2>5, <2>6
    <3>4. CharAt(a, k) - CharAt(b, k) \in Int /\ CharAt(a, k) - CharAt(b, k) < 0
      BY <2>5, <2>6
    <3> QED
      BY <3>2, <3>3, <3>4 DEF result
  <2>7. CASE CharAt(b, k) < CharAt(a, k)
    <3>1. k <= Len(v) /\ (k <= Len(w) => w[k] < v[k])
      BY <1>1, <2>5, <2>7
    <3>2. Smaller(w, v)
      BY <1>1, <2>3, <2>4, <3>1, LessAt DEF Smaller
    <3>3. result = {CharAt(a, k) - CharAt(b, k)}
      BY <1>3, <2>2, <2>3, <2>5, <2>7
    <3>4. CharAt(a, k) - CharAt(b, k) \in Int /\ CharAt(a, k) - CharAt(b, k) > 0
      BY <2>5, <2>7
    <3> QED
      BY <3>2, <3>3, <3>4 DEF result
  <2>8. CASE CharAt(a, k) = CharAt(b, k)
    <3>1. CharAt(a, k) = 0
      BY <1>7, <2>8
    <3>2. Len(v) = k - 1 /\ Len(w) = k - 1
      BY <1>1, <2>3, <2>4, <2>5, <2>8, <3>1
    <3>3. v = w
      BY <1>1, <2>4, <3>2, SameText
    <3>4. Len(v) < a.len /\ Len(v) < b.len
      BY <1>1, <1>4, <2>3, <3>2
    <3>5. CASE a.len = b.len
      <4>1. result = {0}
        BY <1>1, <1>3, <2>2, <2>8, <3>5
      <4> QED
        BY <1>9, <3>3, <4>1 DEF result
    <3> QED
      BY <3>3, <3>4, <3>5
  <2> QED
    BY <2>5, <2>6, <2>7, <2>8
<1> QED
  BY <1>10, <1>11


-----------------------------------------------------------------------------
(* Comparisons of values.                                                  *)

\* The bytes of a unit of a type are those of a value.
IsUnit(u, type, v) ==
  /\ u.type = type
  /\ type = "Ints" => u.data = v /\ v \in [1 .. 1 -> IntRange]
  /\ type = "Floats" => u.data = v /\ v \in [1 .. 1 -> Int]
  /\ type = "Chars" => IsText(u, v)

\* The comparisons of Blind, by the values.
Open(comp, type, a, b, v, w) ==
  \/ type = "Floats" /\ comp \notin {"LessEqual", "GreatThan"} /\ v = w
  \/ type = "Floats" /\ ByOrder(comp) /\ v[1] - w[1] \in 1 .. Epsilon
  \/ type = "Ints" /\ ByOrder(comp) /\ v[1] - w[1] \notin IntRange
  \/ type = "Chars" /\ ByOrder(comp)
       /\ Len(v) = a.len /\ Begins(v, w) /\ w[Len(v) + 1] < SignBit
  \/ type = "Chars" /\ ByOrder(comp)
       /\ Len(w) = b.len /\ Begins(w, v) /\ v[Len(w) + 1] >= SignBit
  \/ type = "Chars" /\ a.len # b.len /\ v = w /\ Len(v) < a.len /\ Len(v) < b.len

\* What a comparison means of two values.
Relates(comp, v, w) ==
  CASE comp = "EqualTo"    -> v = w
    [] comp = "NotEqual"   -> v # w
    [] comp = "LessThan"   -> Less(v, w)
    [] comp = "LessEqual"  -> ~Less(w, v)
    [] comp = "GreatThan"  -> Less(w, v)
    [] comp = "GreatEqual" -> ~Less(v, w)

\* A result that tells what is asked of it.
Tells(comp, v, w, c) ==
  /\ c \in Int
  /\ comp \in {"EqualTo", "NotEqual"} => (c = 0 <=> v = w)
  /\ comp \in {"LessThan", "GreatEqual"} => (c < 0 <=> Less(v, w))
  /\ comp \in {"LessEqual", "GreatThan"} => (c > 0 <=> Less(w, v))

OneResult(comp, a, b, v, w) == \E c : Compare(a, b) = {c} /\ Tells(comp, v, w, c)

\* A comparison that is not open has one result, and it tells.
LEMMA ResultTells ==
  ASSUME NEW comp, NEW type \in {"Ints", "Floats", "Chars"}, NEW a, NEW b, NEW v, NEW w,
         IsUnit(a, type, v), IsUnit(b, type, w), ~Open(comp, type, a, b, v, w)
  PROVE  OneResult(comp, a, b, v, w)
<1>1. CASE type = "Ints"
  <2>1. /\ a.type = "Ints" /\ b.type = "Ints" /\ a.data = v /\ b.data = w
        /\ v \in [1 .. 1 -> IntRange] /\ w \in [1 .. 1 -> IntRange]
    BY <1>1 DEF IsUnit
  <2>2. Compare(a, b) = {CompareInt(v[1], w[1])}
    BY <2>1 DEF Compare
  <2>3. v[1] \in IntRange /\ w[1] \in IntRange
    BY <2>1
  <2>4. v[1] \in Int /\ w[1] \in Int
    BY <2>3, IntAssumption DEF IntRange
  <2>5. /\ Less(v, w) <=> v[1] < w[1]
        /\ Less(w, v) <=> w[1] < v[1]
        /\ v = w <=> v[1] = w[1]
    <3>1. v \in [1 .. 1 -> Int] /\ w \in [1 .. 1 -> Int]
      BY <2>1, IntsAreIntegers
    <3> QED
      BY <3>1, LessNumber
  <2>6. PICK c : c = CompareInt(v[1], w[1])
    OBVIOUS
  <2>7. /\ v[1] - w[1] \in IntRange => c = v[1] - w[1]
        /\ v[1] = w[1] <=> c = 0
    BY <2>3, <2>6, DifferenceOfInts
  <2>8. c \in Int
    <3>1. IntMax \in Nat
      BY IntAssumption
    <3>2. \A x \in Int, m \in Nat : (x % (2 * (m + 1))) - (m + 1) \in Int
      OBVIOUS
    <3> QED
      BY <2>4, <2>6, <3>1, <3>2 DEF CompareInt
  <2>9. ByOrder(comp) => c = v[1] - w[1]
    BY <1>1, <2>7 DEF Open
  <2>10. Tells(comp, v, w, c)
    BY <2>4, <2>5, <2>7, <2>8, <2>9 DEF Tells, ByOrder
  <2> QED
    BY <2>2, <2>6, <2>10 DEF OneResult
<1>2. CASE type = "Floats"
  <2>1. /\ a.type = "Floats" /\ b.type = "Floats" /\ a.data = v /\ b.data = w
        /\ v \in [1 .. 1 -> Int] /\ w \in [1 .. 1 -> Int]
    BY <1>2 DEF IsUnit
  <2>2. Compare(a, b) = {CompareFloat(v[1], w[1])}
    BY <2>1 DEF Compare
  <2>3. v[1] \in Int /\ w[1] \in Int
    BY <2>1
  <2>4. /\ Less(v, w) <=> v[1] < w[1]
        /\ Less(w, v) <=> w[1] < v[1]
        /\ v = w <=> v[1] = w[1]
    BY <2>1, LessNumber
  <2>5. PICK c : c = CompareFloat(v[1], w[1])
    OBVIOUS
  <2>6. c = IF v[1] - w[1] > Epsilon THEN 1 ELSE -1
    BY <2>5 DEF CompareFloat
  <2>7. /\ c \in Int /\ c # 0
        /\ v[1] - w[1] \notin 1 .. Epsilon => (c > 0 <=> w[1] < v[1])
        /\ v[1] - w[1] \notin 1 .. Epsilon /\ v[1] # w[1] => (c < 0 <=> v[1] < w[1])
    BY ONLY <2>3, <2>6, FloatAssumption
  <2>8. /\ ByOrder(comp) => v[1] - w[1] \notin 1 .. Epsilon
        /\ comp \notin {"LessEqual", "GreatThan"} => v # w
    BY <1>2 DEF Open
  <2>9. Tells(comp, v, w, c)
    BY <2>4, <2>7, <2>8 DEF Tells, ByOrder
  <2> QED
    BY <2>2, <2>5, <2>9 DEF OneResult
<1>3. CASE type = "Chars"
  <2>1. a.type = "Chars" /\ b.type = "Chars" /\ IsText(a, v) /\ IsText(b, w)
    BY <1>3 DEF IsUnit
  <2>2. Compare(a, b) = CompareString(a, b)
    BY <2>1 DEF Compare
  <2>3. \/ Equal(v, w) /\ CompareString(a, b) = {0}
        \/ Smaller(v, w) /\ \E c \in Int : c < 0 /\ CompareString(a, b) = {c}
        \/ Smaller(w, v) /\ \E c \in Int : c > 0 /\ CompareString(a, b) = {c}
        \/ ~ByOrder(comp) /\ v # w /\ \E c \in Int : c # 0 /\ CompareString(a, b) = {c}
    BY <1>3, <2>1, StringsCompared DEF Open
  <2> QED
    BY <2>2, <2>3 DEF OneResult, Tells, Equal, Smaller, ByOrder
<1> QED
  BY <1>1, <1>2, <1>3

\* Whether a result satisfies a comparison is true or false.
LEMMA SatisfiesIs ==
  ASSUME NEW c \in Int
  PROVE  \A comp \in {"EqualTo", "LessEqual", "NotEqual", "LessThan", "GreatEqual", "GreatThan"} :
           Satisfies(comp, c) \in BOOLEAN
<1>1. Satisfies("EqualTo", c) \in BOOLEAN
  BY DEF Satisfies
<1>2. Satisfies("NotEqual", c) \in BOOLEAN
  BY DEF Satisfies
<1>3. Satisfies("LessThan", c) \in BOOLEAN
  <2>1. Satisfies("LessThan", c) = (c < 0)
    BY DEF Satisfies
  <2>2. (c < 0) \in BOOLEAN
    OBVIOUS
  <2> QED
    BY <2>1, <2>2, Zenon
<1>4. Satisfies("LessEqual", c) \in BOOLEAN
  <2>1. Satisfies("LessEqual", c) = (c <= 0)
    BY DEF Satisfies
  <2>2. (c <= 0) \in BOOLEAN
    OBVIOUS
  <2> QED
    BY <2>1, <2>2, Zenon
<1>5. Satisfies("GreatThan", c) \in BOOLEAN
  <2>1. Satisfies("GreatThan", c) = (c > 0)
    BY DEF Satisfies
  <2>2. (c > 0) \in BOOLEAN
    OBVIOUS
  <2> QED
    BY <2>1, <2>2, Zenon
<1>6. Satisfies("GreatEqual", c) \in BOOLEAN
  <2>1. Satisfies("GreatEqual", c) = (c >= 0)
    BY DEF Satisfies
  <2>2. (c >= 0) \in BOOLEAN
    OBVIOUS
  <2> QED
    BY <2>1, <2>2, Zenon
<1> QED
  BY <1>1, <1>2, <1>3, <1>4, <1>5, <1>6

\* What the predicate says of a comparison that is not open is what it means.
LEMMA ComparedAsMeant ==
  ASSUME NEW comp \in CompOp, NEW type \in {"Ints", "Floats", "Chars"}, NEW a, NEW b, NEW v,
         NEW w, IsUnit(a, type, v), IsUnit(b, type, w), ~Open(comp, type, a, b, v, w)
  PROVE  {Satisfies(comp, c) : c \in Compare(a, b)} =
           IF Relates(comp, v, w) THEN {TRUE} ELSE {FALSE}
<1>0. OneResult(comp, a, b, v, w)
  BY ResultTells
<1>1. PICK c : Compare(a, b) = {c} /\ Tells(comp, v, w, c)
  BY <1>0 DEF OneResult
<1>2. /\ c \in Int
      /\ comp \in {"EqualTo", "NotEqual"} => (c = 0 <=> v = w)
      /\ comp \in {"LessThan", "GreatEqual"} => (c < 0 <=> Less(v, w))
      /\ comp \in {"LessEqual", "GreatThan"} => (c > 0 <=> Less(w, v))
  BY <1>1 DEF Tells
<1>3. Satisfies(comp, c) <=> Relates(comp, v, w)
  <2>1. CASE comp = "EqualTo"
    BY <1>2, <2>1 DEF Satisfies, Relates
  <2>2. CASE comp = "NotEqual"
    BY <1>2, <2>2 DEF Satisfies, Relates
  <2>3. CASE comp = "LessThan"
    <3>1. Relates(comp, v, w) <=> Less(v, w)
      BY <2>3 DEF Relates
    <3>2. Satisfies(comp, c) <=> c < 0
      BY <2>3 DEF Satisfies
    <3>3. c < 0 <=> Less(v, w)
      BY <1>2, <2>3
    <3> QED
      BY <3>1, <3>2, <3>3
  <2>4. CASE comp = "LessEqual"
    <3>1. Relates(comp, v, w) <=> ~Less(w, v)
      BY <2>4 DEF Relates
    <3>2. Satisfies(comp, c) <=> c <= 0
      BY <2>4 DEF Satisfies
    <3>3. c <= 0 <=> ~Less(w, v)
      BY <1>2, <2>4
    <3> QED
      BY <3>1, <3>2, <3>3
  <2>5. CASE comp = "GreatThan"
    <3>1. Relates(comp, v, w) <=> Less(w, v)
      BY <2>5 DEF Relates
    <3>2. Satisfies(comp, c) <=> c > 0
      BY <2>5 DEF Satisfies
    <3>3. c > 0 <=> Less(w, v)
      BY <1>2, <2>5
    <3> QED
      BY <3>1, <3>2, <3>3
  <2>6. CASE comp = "GreatEqual"
    <3>1. Relates(comp, v, w) <=> ~Less(v, w)
      BY <2>6 DEF Relates
    <3>2. Satisfies(comp, c) <=> c >= 0
      BY <2>6 DEF Satisfies
    <3>3. c >= 0 <=> ~Less(v, w)
      BY <1>2, <2>6
    <3> QED
      BY <3>1, <3>2, <3>3
  <2> QED
    BY <2>1, <2>2, <2>3, <2>4, <2>5, <2>6 DEF CompOp
<1>4. {Satisfies(comp, d) : d \in {c}} = {Satisfies(comp, c)}
  OBVIOUS
<1>5. Satisfies(comp, c) \in BOOLEAN
  BY <1>2, SatisfiesIs DEF CompOp
<1> QED
  BY <1>1, <1>3, <1>4, <1>5


-----------------------------------------------------------------------------
(* WHERE: the rows a filter lets through are those it means.               *)

\* A name that is one field's only is found there.
LEMMA FieldNamed ==
  ASSUME NEW table, IsTable(table), NEW o, NamesField(table, o)
  PROVE  /\ FieldAt(table, o.attr) \in 1 .. Len(table.fields)
         /\ table.fields[FieldAt(table, o.attr)].name = o.attr
         /\ GetField(table.fields, o.attr) = FieldAt(table, o.attr)
         /\ \A j \in 1 .. Len(table.fields) :
              table.fields[j].name = o.attr => j = FieldAt(table, o.attr)
<1> DEFINE named == {i \in DOMAIN table.fields : table.fields[i].name = o.attr}
<1>1. DOMAIN table.fields = 1 .. Len(table.fields) /\ Len(table.fields) \in Nat
  BY FieldsOfTable
<1>2. IsFiniteSet(named)
  <2>1. IsFiniteSet(1 .. Len(table.fields))
    BY <1>1, FS_Interval
  <2>2. named \subseteq 1 .. Len(table.fields)
    BY <1>1
  <2> HIDE DEF named
  <2> QED
    BY <2>1, <2>2, FS_Subset
<1>3. Cardinality(named) = 1
  BY DEF NamesField
<1>4. PICK i : named = {i}
  <2> HIDE DEF named
  <2> QED
    BY <1>2, <1>3, FS_Singleton
<1>5. i \in 1 .. Len(table.fields) /\ table.fields[i].name = o.attr
  BY <1>1, <1>4
<1>6. \A j \in DOMAIN table.fields : table.fields[j].name = o.attr => j = i
  BY <1>4
<1>7. FieldAt(table, o.attr) = i
  BY <1>1, <1>5, <1>6 DEF FieldAt
<1>8. GetField(table.fields, o.attr) = i
  <2>1. named \in SUBSET Nat /\ i \in named /\ \A j \in named : i <= j
    BY <1>1, <1>4, <1>5
  <2>2. First(named) = i
    <3> HIDE DEF named
    <3> QED
      BY <2>1, FirstIs
  <2> QED
    BY <2>2 DEF GetField
<1> QED
  BY <1>1, <1>5, <1>6, <1>7, <1>8

Types3 == {"Ints", "Floats", "Chars"}

\* The unit of a field of a row is its value.
LEMMA UnitOfField ==
  ASSUME NEW table, IsTable(table), NEW row, IsRow(table.fields, row),
         NEW i \in 1 .. Len(table.fields),
         NEW u, u = Unit(table.fields[i].type, table.fields[i].len, row[i])
  PROVE  /\ table.fields[i].type \in Types3
         /\ IsUnit(u, table.fields[i].type, TextOf(table.fields[i].type, row[i]))
         /\ u.len = table.fields[i].len
<1> DEFINE field == table.fields[i]
<1>1. /\ field.type \in Types3
      /\ field.type = "Chars" => field.len \in Nat \ {0}
  BY FieldsOfTable DEF Types3
<1>2. Holds(field, row[i])
  <2>1. table.fields \in Seq(AttrInfo)
    BY FieldsOfTable
  <2> QED
    BY <2>1 DEF IsRow
<1> HIDE DEF field
<1>3. u.type = field.type /\ u.len = field.len /\ u.data = row[i]
  BY DEF Unit, field
<1>4. CASE field.type = "Ints"
  BY <1>2, <1>3, <1>4 DEF IsUnit, Holds, TextOf, field, Types3
<1>5. CASE field.type = "Floats"
  BY <1>2, <1>3, <1>5 DEF IsUnit, Holds, TextOf, field, Types3
<1>6. CASE field.type = "Chars"
  <2>1. IsText(u, TextOf("Chars", row[i]))
    BY <1>1, <1>2, <1>3, <1>6, FieldText
  <2> QED
    BY <1>3, <1>6, <2>1 DEF IsUnit, field, Types3
<1> QED
  BY <1>1, <1>4, <1>5, <1>6 DEF Types3

\* The operand of a condition on one table, when the condition is resolved.
UnitOf(db, t, row, o) == GetValue(db[t], row, ExpressionOf(db, t, <<t>>, o))

LEMMA OperandUnit ==
  ASSUME NEW db, NEW t, IsTable(db[t]), NEW row, IsRow(db[t].fields, row), NEW o \in Operands,
         OperandRe(db, t, <<t>>, o) = "Success", o.is = "attr" => NamesField(db[t], o)
  PROVE  /\ TypeIn(db[t], o) \in Types3
         /\ IsUnit(UnitOf(db, t, row, o), TypeIn(db[t], o), ValueOf(db[t], row, o))
         /\ UnitOf(db, t, row, o).len = WidthIn(db[t], o)
<1> DEFINE table == db[t]
           u == UnitOf(db, t, row, o)
<1>1. CASE o.is = "value"
  <2>1. o \in Values
    BY <1>1 DEF Operands, RelAttrs
  <2>2. u = Unit(o.type, Len(o.data), o.data)
    BY <1>1 DEF UnitOf, GetValue, ExpressionOf
  <2>3. u.type = o.type /\ u.len = Len(o.data) /\ u.data = o.data
    BY <2>2 DEF Unit
  <2>4. /\ TypeIn(table, o) = o.type /\ ValueOf(table, row, o) = o.data
        /\ WidthIn(table, o) = Len(o.data)
    BY <1>1 DEF TypeIn, ValueOf, WidthIn
  <2> HIDE DEF u
  <2>5. CASE o.type = "Ints"
    <3>1. o.data \in [1 .. 1 -> IntRange]
      BY <2>1, <2>5 DEF Values
    <3> QED
      BY <2>3, <2>4, <2>5, <3>1 DEF IsUnit, Types3, u
  <2>6. CASE o.type = "Floats"
    <3>1. o.data \in [1 .. 1 -> Int]
      BY <2>1, <2>6 DEF Values
    <3> QED
      BY <2>3, <2>4, <2>6, <3>1 DEF IsUnit, Types3, u
  <2>7. CASE o.type = "Chars"
    <3>1. o.data \in Seq(Byte \ {0})
      BY <2>1, <2>7 DEF Values
    <3>2. IsText(u, o.data)
      BY <2>3, <3>1, LiteralText
    <3> QED
      BY <2>3, <2>4, <2>7, <3>2 DEF IsUnit, Types3, u
  <2>8. o.type \in Types3
    BY <2>1 DEF Values, Types3
  <2> QED
    BY <2>5, <2>6, <2>7, <2>8 DEF Types3
<1>2. CASE o.is = "attr"
  <2>1. NamesField(table, o)
    BY <1>2
  <2> DEFINE i == FieldAt(table, o.attr)
  <2>2. /\ i \in 1 .. Len(table.fields) /\ table.fields[i].name = o.attr
        /\ GetField(table.fields, o.attr) = i
    BY <2>1, FieldNamed
  <2> HIDE DEF i
  <2>3. TableOf(t, <<t>>, o) = t
    <3>1. TableOf(t, <<t>>, o) # NoName
      BY <1>2 DEF OperandRe
    <3>2. ToSet(<<t>>) = {t}
      BY DEF ToSet
    <3> QED
      BY <3>1, <3>2 DEF TableOf
  <2>4. PICK e : e = ExpressionOf(db, t, <<t>>, o)
    OBVIOUS
  <2>5. e.is = "field" /\ e.at = i
    BY <1>2, <2>2, <2>3, <2>4 DEF ExpressionOf
  <2>6. u = GetUnit(table, row, i)
    BY <2>4, <2>5 DEF UnitOf, GetValue
  <2>7. u = Unit(table.fields[i].type, table.fields[i].len, row[i])
    BY <2>2, <2>6 DEF GetUnit
  <2>8. /\ TypeIn(table, o) = table.fields[i].type
        /\ ValueOf(table, row, o) = TextOf(table.fields[i].type, row[i])
        /\ WidthIn(table, o) = table.fields[i].len
    BY <1>2 DEF TypeIn, ValueOf, WidthIn, i
  <2> HIDE DEF u
  <2>9. /\ table.fields[i].type \in Types3
        /\ IsUnit(u, table.fields[i].type, TextOf(table.fields[i].type, row[i]))
        /\ u.len = table.fields[i].len
    BY <2>2, <2>7, UnitOfField
  <2> QED
    BY <2>8, <2>9 DEF u
<1>3. o.is \in {"value", "attr"}
  BY DEF Operands, Values, RelAttrs
<1> QED
  BY <1>1, <1>2, <1>3


\* A set of two.
LEMMA TwoTypes ==
  ASSUME NEW a, NEW b, Cardinality({a, b}) # 2
  PROVE  a = b
<1> SUFFICES ASSUME a # b PROVE FALSE
  OBVIOUS
<1>1. IsFiniteSet({b}) /\ Cardinality({b}) = 1
  BY FS_Singleton
<1>2. Cardinality({b} \cup {a}) = 1 + 1
  BY <1>1, FS_AddElement
<1>3. {b} \cup {a} = {a, b}
  OBVIOUS
<1> QED
  BY <1>2, <1>3

\* What a predicate says of one comparison of a row.
SaysOf(table, row, unit) ==
  {Satisfies(unit.comp, c) : c \in Compare(GetValue(table, row, unit.left),
                                           GetValue(table, row, unit.right))}

\* A comparison that is not blind says what it means.
LEMMA ConditionMeant ==
  ASSUME NEW db, NEW t, IsTable(db[t]), NEW row, IsRow(db[t].fields, row), NEW c \in Conditions,
         FilterUnitRe(db, t, <<t>>, c) = "Success", ~Blind(db[t], row, c),
         \A o \in {c.left, c.right} : o.is = "attr" => NamesField(db[t], o)
  PROVE  SaysOf(db[t], row, FilterUnit(db, t, <<t>>, c)) =
           IF IsTrue(db[t], row, c) THEN {TRUE} ELSE {FALSE}
<1> DEFINE table == db[t]
           a  == UnitOf(db, t, row, c.left)
           b  == UnitOf(db, t, row, c.right)
           v  == ValueOf(table, row, c.left)
           w  == ValueOf(table, row, c.right)
           tl == TypeIn(table, c.left)
           tr == TypeIn(table, c.right)
<1>1. c.left \in Operands /\ c.right \in Operands /\ c.comp \in CompOp
  BY DEF Conditions
<1>2. OperandRe(db, t, <<t>>, c.left) = "Success" /\ OperandRe(db, t, <<t>>, c.right) = "Success"
  BY DEF FilterUnitRe
<1>3. tl \in Types3 /\ IsUnit(a, tl, v) /\ a.len = WidthIn(table, c.left)
  BY <1>1, <1>2, OperandUnit
<1>4. tr \in Types3 /\ IsUnit(b, tr, w) /\ b.len = WidthIn(table, c.right)
  BY <1>1, <1>2, OperandUnit
<1>5. ~(\/ Cardinality({tl, tr}) = 2
        \/ {tl, tr} = {"Floats"} /\ c.comp \notin {"LessEqual", "GreatThan"} /\ v = w
        \/ {tl, tr} = {"Floats"} /\ ByOrder(c.comp) /\ v[1] - w[1] \in 1 .. Epsilon
        \/ {tl, tr} = {"Ints"} /\ ByOrder(c.comp) /\ v[1] - w[1] \notin IntRange
        \/ {tl, tr} = {"Chars"} /\ ByOrder(c.comp)
             /\ Len(v) = WidthIn(table, c.left) /\ Begins(v, w) /\ w[Len(v) + 1] < SignBit
        \/ {tl, tr} = {"Chars"} /\ ByOrder(c.comp)
             /\ Len(w) = WidthIn(table, c.right) /\ Begins(w, v) /\ v[Len(w) + 1] >= SignBit
        \/ {tl, tr} = {"Chars"} /\ c.left.is = "attr" /\ c.right.is = "attr"
             /\ WidthIn(table, c.left) # WidthIn(table, c.right) /\ v = w
             /\ Len(v) < WidthIn(table, c.left) /\ Len(v) < WidthIn(table, c.right))
  BY DEF Blind
<1>6. tl = tr
  <2> HIDE DEF tl, tr
  <2> QED
    BY <1>5, TwoTypes
<1>7. /\ c.left.is # "attr" => WidthIn(table, c.left) = Len(v)
      /\ c.right.is # "attr" => WidthIn(table, c.right) = Len(w)
  <2>1. c.left.is \in {"value", "attr"} /\ c.right.is \in {"value", "attr"}
    BY <1>1 DEF Operands, Values, RelAttrs
  <2> QED
    BY <2>1 DEF WidthIn, ValueOf
<1>8. SaysOf(table, row, FilterUnit(db, t, <<t>>, c)) =
        {Satisfies(c.comp, d) : d \in Compare(a, b)}
  BY DEF SaysOf, FilterUnit, Condition, UnitOf
<1>9. IsTrue(table, row, c) <=> Relates(c.comp, v, w)
  BY <1>1 DEF IsTrue, Relates, CompOp
<1> HIDE DEF a, b, v, w, tl, tr
<1>10. tl = "Chars" => Len(v) \in Nat /\ Len(w) \in Nat
  <2>1. tl = "Chars" => IsText(a, v) /\ IsText(b, w)
    BY <1>3, <1>4, <1>6 DEF IsUnit
  <2> QED
    BY <2>1, CharsOfText
<1>11. ~Open(c.comp, tl, a, b, v, w)
  <2>1. ~(tl = "Floats" /\ c.comp \notin {"LessEqual", "GreatThan"} /\ v = w)
        /\ ~(tl = "Floats" /\ ByOrder(c.comp) /\ v[1] - w[1] \in 1 .. Epsilon)
    BY <1>5, <1>6
  <2>2. ~(tl = "Ints" /\ ByOrder(c.comp) /\ v[1] - w[1] \notin IntRange)
    BY <1>5, <1>6
  <2>3. /\ ~(tl = "Chars" /\ ByOrder(c.comp)
               /\ Len(v) = a.len /\ Begins(v, w) /\ w[Len(v) + 1] < SignBit)
        /\ ~(tl = "Chars" /\ ByOrder(c.comp)
               /\ Len(w) = b.len /\ Begins(w, v) /\ v[Len(w) + 1] >= SignBit)
    BY <1>3, <1>4, <1>5, <1>6
  <2>4. ~(tl = "Chars" /\ a.len # b.len /\ v = w /\ Len(v) < a.len /\ Len(v) < b.len)
    <3> SUFFICES ASSUME tl = "Chars", a.len # b.len, v = w, Len(v) < a.len, Len(v) < b.len
                 PROVE  FALSE
      OBVIOUS
    <3>1. ~(c.left.is = "attr" /\ c.right.is = "attr")
      BY <1>3, <1>4, <1>5, <1>6
    <3>2. Len(v) = a.len \/ Len(w) = b.len
      BY <1>3, <1>4, <1>7, <3>1
    <3> QED
      BY <1>10, <3>2
  <2> QED
    BY <2>1, <2>2, <2>3, <2>4 DEF Open
<1>12. {Satisfies(c.comp, d) : d \in Compare(a, b)} =
         IF Relates(c.comp, v, w) THEN {TRUE} ELSE {FALSE}
  <2>1. c.comp \in CompOp /\ tl \in {"Ints", "Floats", "Chars"} /\ IsUnit(b, tl, w)
        /\ IsUnit(a, tl, v)
    BY <1>1, <1>3, <1>4, <1>6 DEF Types3
  <2> QED
    BY ONLY <1>11, <2>1, ComparedAsMeant
<1> QED
  BY <1>8, <1>9, <1>12

\* A filter that is made has every condition resolved.
LEMMA FilterMade ==
  ASSUME NEW db, NEW default, NEW rels, NEW conds \in Seq(Conditions),
         FilterRe(db, default, rels, conds) = "Success"
  PROVE  \A i \in DOMAIN conds : FilterUnitRe(db, default, rels, conds[i]) = "Success"
<1> DEFINE bad == {i \in DOMAIN conds : FilterUnitRe(db, default, rels, conds[i]) # "Success"}
<1>1. FilterRe(db, default, rels, conds) =
        IF First(bad) = 0 THEN "Success" ELSE FilterUnitRe(db, default, rels, conds[First(bad)])
  BY DEF FilterRe
<1>2. bad \in SUBSET Nat /\ \A i \in bad : i # 0
  <2>1. DOMAIN conds = 1 .. Len(conds) /\ Len(conds) \in Nat
    OBVIOUS
  <2> QED
    BY <2>1
<1>3. bad = {}
  <2> SUFFICES ASSUME bad # {} PROVE FALSE
    OBVIOUS
  <2>1. First(bad) \in bad
    <3> HIDE DEF bad
    <3> QED
      BY <1>2, FirstIn
  <2>2. FilterUnitRe(db, default, rels, conds[First(bad)]) # "Success"
    BY <2>1
  <2>3. First(bad) # 0
    BY <1>2, <2>1
  <2> HIDE DEF bad
  <2> QED
    BY <1>1, <2>2, <2>3
<1> QED
  BY <1>3

\* The rows that a filter made of sound conditions lets through are those that the
\* conditions are true of.
LEMMA WhereMeant ==
  ASSUME NEW db, NEW t, IsTable(db[t]), NEW conds \in Seq(Conditions),
         FilterRe(db, t, <<t>>, conds) = "Success", Sound(db[t], conds),
         NEW kept \in LetThrough(db[t], CreateFilter(db, t, <<t>>, conds))
  PROVE  kept = Meant(db[t], conds)
<1> DEFINE table  == db[t]
           filter == CreateFilter(db, t, <<t>>, conds)
           rows   == table.rows
<1>1. /\ kept \subseteq DOMAIN rows
      /\ \A s \in DOMAIN rows : (s \in kept) \in Predicate(table, filter, rows[s])
  BY DEF LetThrough
<1>2. /\ DOMAIN filter = DOMAIN conds
      /\ \A i \in DOMAIN conds : filter[i] = FilterUnit(db, t, <<t>>, conds[i])
  BY DEF CreateFilter
<1>3. \A i \in DOMAIN conds : conds[i] \in Conditions
  OBVIOUS
<1>4. \A s \in DOMAIN rows : IsRow(table.fields, rows[s])
  BY DEF IsTable
<1> HIDE DEF filter
<1>5. ASSUME NEW s \in DOMAIN rows, NEW i \in DOMAIN conds
      PROVE  SaysOf(table, rows[s], filter[i]) =
               IF IsTrue(table, rows[s], conds[i]) THEN {TRUE} ELSE {FALSE}
  <2>1. FilterUnitRe(db, t, <<t>>, conds[i]) = "Success"
    BY FilterMade
  <2>2. /\ ~Blind(table, rows[s], conds[i])
        /\ \A o \in {conds[i].left, conds[i].right} : o.is = "attr" => NamesField(table, o)
    BY DEF Sound
  <2>3. PICK row, c : row = rows[s] /\ c = conds[i]
    OBVIOUS
  <2>4. /\ IsRow(db[t].fields, row) /\ c \in Conditions
        /\ FilterUnitRe(db, t, <<t>>, c) = "Success" /\ ~Blind(db[t], row, c)
        /\ \A o \in {c.left, c.right} : o.is = "attr" => NamesField(db[t], o)
    BY <1>3, <1>4, <2>1, <2>2, <2>3
  <2>5. SaysOf(db[t], row, FilterUnit(db, t, <<t>>, c)) =
          IF IsTrue(db[t], row, c) THEN {TRUE} ELSE {FALSE}
    BY ONLY IsTable(db[t]), <2>4, ConditionMeant
  <2> QED
    BY <1>2, <2>3, <2>5
<1>6. ASSUME NEW s \in DOMAIN rows
      PROVE  s \in kept <=> \A i \in DOMAIN conds : IsTrue(table, rows[s], conds[i])
  <2>1. Predicate(table, filter, rows[s]) =
          IF \E i \in DOMAIN filter : SaysOf(table, rows[s], filter[i]) = {FALSE} THEN {FALSE}
          ELSE IF \A i \in DOMAIN filter : SaysOf(table, rows[s], filter[i]) = {TRUE} THEN {TRUE}
          ELSE BOOLEAN
    BY DEF Predicate, SaysOf
  <2>2. {TRUE} # {FALSE}
    OBVIOUS
  <2>3. CASE \A i \in DOMAIN conds : IsTrue(table, rows[s], conds[i])
    <3>1. \A i \in DOMAIN filter : SaysOf(table, rows[s], filter[i]) = {TRUE}
      BY <1>2, <1>5, <2>3
    <3>2. Predicate(table, filter, rows[s]) = {TRUE}
      BY <2>1, <2>2, <3>1
    <3> QED
      BY <1>1, <2>3, <3>2
  <2>4. CASE \E i \in DOMAIN conds : ~IsTrue(table, rows[s], conds[i])
    <3>1. \E i \in DOMAIN filter : SaysOf(table, rows[s], filter[i]) = {FALSE}
      BY <1>2, <1>5, <2>4
    <3>2. Predicate(table, filter, rows[s]) = {FALSE}
      BY <2>1, <3>1
    <3> QED
      BY <1>1, <2>4, <3>2
  <2> QED
    BY <2>3, <2>4
<1>7. Meant(table, conds) =
        {s \in DOMAIN rows : \A i \in DOMAIN conds : IsTrue(table, rows[s], conds[i])}
  BY DEF Meant
<1> QED
  BY <1>1, <1>6, <1>7

-----------------------------------------------------------------------------
(* What the parser makes of one DELETE and of one SELECT. *)

\* The context a line begins with.
LEMMA EmptyContext ==
  ASSUME NEW kind
  PROVE  ParserContext \in Contexts(kind) /\ ParserContext.conditions = <<>>
<1>1. NullQuery \in {NullQuery} \cup QueriesOf(kind) /\ <<>> \in Seq(Values) /\ <<>> \in Seq(Conditions)
  OBVIOUS
<1> QED
  BY <1>1, ContextMade DEF ParserContext

\* What the parser makes of one DELETE.
LEMMA ParseDelete ==
  ASSUME NEW line, IsLine(line), line.error = FALSE, Len(line.commands) = 1,
         line.commands[1].cmd = "Delete"
  PROVE  /\ line.commands[1].conds \in Seq(Conditions)
         /\ SqlParse(line).rel = line.commands[1].rel
         /\ SqlParse(line).conds = line.commands[1].conds
<1> DEFINE c == line.commands[1]
           q == QueryOf(ParserContext, DeleteQuery)
           in == ReduceWhere(ParserContext, c.conds)
           p == [q EXCEPT !.rel = c.rel]
           r == [q EXCEPT !.rel = c.rel, !.conds = @ \o in.conditions]
<1>1. c \in Commands /\ SqlParse(line) = Reduce(ParserContext, c).query
  BY ParseOne
<1>2. c.conds \in Seq(Conditions)
  BY <1>1 DEF Commands, OtherCommand
<1>3. q = [scf |-> "Delete", rel |-> NoName, conds |-> <<>>]
  BY DEF QueryOf, ParserContext, DeleteQuery
<1>4. in.conditions = c.conds /\ in \in Contexts("Delete")
  BY <1>2, EmptyContext, WhereTyped
<1>5. Reduce(ParserContext, c) = [in EXCEPT !.query = r, !.conditions = <<>>]
  BY DEF Reduce, ReduceDelete
<1> HIDE DEF q, c, in
<1>6. p = [scf |-> "Delete", rel |-> c.rel, conds |-> <<>>]
  BY <1>3
<1> DEFINE s == p.conds \o in.conditions
<1>7. r = [p EXCEPT !.conds = s]
  BY <1>3, <1>6
<1>8. s = c.conds
  <2>1. p.conds = <<>>
    BY <1>6
  <2> HIDE DEF p
  <2>2. <<>> \o c.conds = c.conds
    BY <1>2
  <2> QED
    BY <1>4, <2>1, <2>2
<1> HIDE DEF p, s
<1>9. r.rel = c.rel /\ r.conds = c.conds
  BY <1>6, <1>7, <1>8
<1> HIDE DEF r
<1>10. Reduce(ParserContext, c).query = r
  <2>1. in = [query |-> in.query, values |-> in.values, conditions |-> in.conditions]
    BY <1>4, ContextParts
  <2> QED
    BY <1>5, <2>1
<1> QED
  BY <1>1, <1>2, <1>9, <1>10 DEF c


\* The items of a list of one in the other order.
LEMMA ReverseOne ==
  ASSUME NEW s, Len(s) = 1, NEW S, s \in Seq(S)
  PROVE  Reverse(s) = s /\ s = <<s[1]>>
<1>1. DOMAIN s = 1 .. 1
  OBVIOUS
<1>2. Reverse(s) = [i \in 1 .. 1 |-> s[(1 - i) + 1]]
  BY DEF Reverse
<1>3. s = [i \in 1 .. 1 |-> s[i]]
  BY <1>1
<1>4. \A i \in 1 .. 1 : (1 - i) + 1 = i
  OBVIOUS
<1>5. Reverse(s) = s
  BY <1>2, <1>3, <1>4
<1>6. s = <<s[1]>>
  OBVIOUS
<1> QED
  BY <1>5, <1>6

\* Twice the other order is the order.
LEMMA ReverseTwice ==
  ASSUME NEW S, NEW s \in Seq(S)
  PROVE  Reverse(Reverse(s)) = s
<1> DEFINE n == Len(s)
           r == Reverse(s)
<1>1. n \in Nat /\ s = [i \in 1 .. n |-> s[i]]
  OBVIOUS
<1>2. r = [i \in 1 .. n |-> s[(n - i) + 1]]
  BY DEF Reverse
<1>3. Len(r) = n /\ \A i \in 1 .. n : r[i] = s[(n - i) + 1]
  BY <1>1, <1>2
<1> HIDE DEF r, n
<1>4. Reverse(r) = [i \in 1 .. n |-> r[(n - i) + 1]]
  BY <1>3 DEF Reverse
<1>5. \A i \in 1 .. n : (n - i) + 1 \in 1 .. n /\ (n - ((n - i) + 1)) + 1 = i
  BY <1>1
<1>6. \A i \in 1 .. n : r[(n - i) + 1] = s[i]
  BY <1>3, <1>5
<1>7. Reverse(r) = [i \in 1 .. n |-> s[i]]
  BY <1>4, <1>6
<1> QED
  BY <1>1, <1>7 DEF r

\* What the parser makes of one SELECT.
LEMMA ParseSelect ==
  ASSUME NEW line, IsLine(line), line.error = FALSE, Len(line.commands) = 1,
         line.commands[1].cmd = "Select"
  PROVE  /\ line.commands[1].conds \in Seq(Conditions)
         /\ line.commands[1].attrs \in Seq(RelAttrs)
         /\ line.commands[1].rels \in Seq(Names)
         /\ SqlParse(line).attrs = Reverse(line.commands[1].attrs)
         /\ SqlParse(line).rels = Reverse(line.commands[1].rels)
         /\ SqlParse(line).conds = line.commands[1].conds
<1> DEFINE c == line.commands[1]
           q == QueryOf(ParserContext, SelectQuery)
           in == ReduceWhere(ParserContext, c.conds)
           ra == Reverse(c.attrs)
           rr == Reverse(c.rels)
           r == [q EXCEPT !.attrs = @ \o Reverse(c.attrs), !.rels = @ \o Reverse(c.rels),
                          !.conds = @ \o in.conditions]
<1>1. c \in Commands /\ SqlParse(line) = Reduce(ParserContext, c).query
  BY ParseOne
<1>2. c.conds \in Seq(Conditions) /\ c.attrs \in Seq(RelAttrs) /\ c.rels \in Seq(Names)
  BY <1>1 DEF Commands, OtherCommand
<1>3. q = [scf |-> "Select", attrs |-> <<>>, rels |-> <<>>, conds |-> <<>>]
  BY DEF QueryOf, ParserContext, SelectQuery
<1>4. in.conditions = c.conds /\ in \in Contexts("Select")
  BY <1>2, EmptyContext, WhereTyped
<1>5. Reduce(ParserContext, c) = [in EXCEPT !.query = r, !.conditions = <<>>]
  BY DEF Reduce, ReduceSelect
<1>6. ra \in Seq(RelAttrs) /\ rr \in Seq(Names)
  BY <1>2, Reversed
<1> HIDE DEF q, c, in
<1>7. <<>> \o ra = ra /\ <<>> \o rr = rr /\ <<>> \o c.conds = c.conds
  <2> HIDE DEF ra, rr
  <2> QED
    BY <1>2, <1>6
<1>8. r = [scf |-> "Select", attrs |-> ra, rels |-> rr, conds |-> c.conds]
  <2> DEFINE p == [q EXCEPT !.attrs = @ \o Reverse(c.attrs)]
             o == [p EXCEPT !.rels = @ \o Reverse(c.rels)]
  <2>1. p = [scf |-> "Select", attrs |-> ra, rels |-> <<>>, conds |-> <<>>]
    BY <1>3, <1>7
  <2>2. r = [o EXCEPT !.conds = @ \o in.conditions]
    BY DEF r
  <2> HIDE DEF p, r
  <2>3. o = [scf |-> "Select", attrs |-> ra, rels |-> rr, conds |-> <<>>]
    BY <1>7, <2>1
  <2> HIDE DEF o
  <2> QED
    BY <1>4, <1>7, <2>2, <2>3
<1> HIDE DEF r, ra, rr
<1>9. r.attrs = ra /\ r.rels = rr /\ r.conds = c.conds
  BY <1>8
<1>10. Reduce(ParserContext, c).query = r
  <2>1. in = [query |-> in.query, values |-> in.values, conditions |-> in.conditions]
    BY <1>4, ContextParts
  <2> QED
    BY <1>5, <2>1
<1> QED
  BY <1>1, <1>2, <1>9, <1>10 DEF c, ra, rr

-----------------------------------------------------------------------------
(* What a SELECT shows is flattened from what each of its attributes shows. *)

FlatStep(s, w, i) == IF i = 1 THEN s[i] ELSE w[i - 1] \o s[i]
Flat(s) == CHOOSE w : w = [i \in 1 .. Len(s) |-> FlatStep(s, w, i)]

\* FlattenSeq, with its local function made an operator.
LEMMA FlattenIsFlat ==
  ASSUME NEW s, Len(s) # 0
  PROVE  FlattenSeq(s) = Flat(s)[Len(s)]
BY DEF FlattenSeq, Flat, FlatStep

\* Flat is the function it is chosen to be.
LEMMA FlatDefined ==
  ASSUME NEW s, Len(s) \in Nat
  PROVE  Flat(s) = [i \in 1 .. Len(s) |-> FlatStep(s, Flat(s), i)]
<1> DEFINE N == Len(s)
           F(w, k) == w = [i \in 1 .. k |-> FlatStep(s, w, i)]
           T == {k \in 0 .. N : ~\E w : F(w, k)}
<1>1. N \in Nat
  OBVIOUS
<1> HIDE DEF N
<1>2. T = {}
  <2> SUFFICES ASSUME T # {} PROVE FALSE
    OBVIOUS
  <2>1. PICK k \in T : \A j \in T : k <= j
    <3>1. T \in SUBSET Nat
      BY <1>1
    <3> HIDE DEF T
    <3> QED
      BY <3>1, LeastNatural
  <2>2. k \in 0 .. N /\ ~\E w : F(w, k)
    BY <2>1
  <2>3. k # 0
    <3>1. F([i \in 1 .. 0 |-> 0], 0)
      OBVIOUS
    <3> QED
      BY <2>2, <3>1
  <2>4. PICK g : F(g, k - 1)
    <3>1. k - 1 \in 0 .. N /\ ~(k <= k - 1)
      BY <1>1, <2>2, <2>3
    <3>2. k - 1 \notin T
      BY <2>1, <3>1
    <3> QED
      BY <3>1, <3>2
  <2> DEFINE h == [i \in 1 .. k |-> FlatStep(s, g, i)]
  <2>5. ASSUME NEW i \in 1 .. k PROVE FlatStep(s, h, i) = FlatStep(s, g, i)
    <3>1. CASE i = 1
      BY <3>1 DEF FlatStep
    <3>2. CASE i # 1
      <4>1. i - 1 \in 1 .. k - 1 /\ i - 1 \in 1 .. k
        BY <1>1, <2>2, <3>2
      <4>2. h[i - 1] = g[i - 1]
        BY <2>4, <4>1
      <4> HIDE DEF h
      <4> QED
        BY <3>2, <4>2 DEF FlatStep
    <3> QED
      BY <3>1, <3>2
  <2>6. F(h, k)
    BY <2>5
  <2> QED
    BY <2>2, <2>6
<1>3. \E w : F(w, N)
  <2>1. N \in 0 .. N
    BY <1>1
  <2> HIDE DEF F
  <2> QED
    BY <1>2, <2>1
<1>4. \E w : w = [i \in 1 .. Len(s) |-> FlatStep(s, w, i)]
  BY <1>3 DEF N
<1> HIDE DEF F, T
<1> QED
  BY <1>4 DEF Flat

\* Each item of a sequence as g has it.
Each(g, s) == [i \in DOMAIN s |-> g[s[i]]]

\* Each item of two sequences put together.
LEMMA EachJoined ==
  ASSUME NEW T, NEW a \in Seq(T), NEW b \in Seq(T), NEW g
  PROVE  Each(g, a \o b) = Each(g, a) \o Each(g, b)
<1> DEFINE n == Len(a)
           m == Len(b)
           c == a \o b
           ga == Each(g, a)
           gb == Each(g, b)
<1>1. /\ n \in Nat /\ m \in Nat /\ DOMAIN a = 1 .. n /\ DOMAIN b = 1 .. m
      /\ Len(c) = n + m /\ DOMAIN c = 1 .. n + m
  BY Joined
<1>2. /\ \A i \in 1 .. n : c[i] = a[i]
      /\ \A i \in 1 .. m : c[n + i] = b[i]
  BY Joined
<1>3. ga = [i \in 1 .. n |-> g[a[i]]] /\ gb = [i \in 1 .. m |-> g[b[i]]]
  BY <1>1 DEF Each
<1> DEFINE R == {g[a[i]] : i \in 1 .. n} \cup {g[b[i]] : i \in 1 .. m}
<1>4. ga \in Seq(R) /\ gb \in Seq(R) /\ Len(ga) = n /\ Len(gb) = m
  <2>1. \A i \in 1 .. n : g[a[i]] \in R
    OBVIOUS
  <2>2. \A i \in 1 .. m : g[b[i]] \in R
    OBVIOUS
  <2> HIDE DEF R, ga, gb, n, m
  <2> QED
    BY <1>1, <1>3, <2>1, <2>2
<1> HIDE DEF n, m, c, R, ga, gb
<1>5. PICK all : all = ga \o gb
  OBVIOUS
<1>6. /\ Len(all) = n + m /\ all = [i \in 1 .. n + m |-> all[i]]
      /\ \A i \in 1 .. n : all[i] = ga[i]
      /\ \A i \in 1 .. m : all[n + i] = gb[i]
  <2>1. all \in Seq(R) /\ Len(all) = n + m
    BY ONLY <1>1, <1>4, <1>5, Joined
  <2>2. \A i \in 1 .. n : all[i] = ga[i]
    BY ONLY <1>4, <1>5, ConcatProperties, <1>1
  <2>3. \A i \in 1 .. m : all[n + i] = gb[i]
    BY ONLY <1>4, <1>5, ConcatProperties, <1>1
  <2>4. all = [i \in 1 .. n + m |-> all[i]]
    BY ONLY <2>1
  <2> QED
    BY <2>1, <2>2, <2>3, <2>4
<1>7. Each(g, c) = [i \in 1 .. n + m |-> g[c[i]]]
  BY <1>1 DEF Each
<1>8. ASSUME NEW i \in 1 .. n + m PROVE g[c[i]] = all[i]
  <2>1. CASE i \in 1 .. n
    BY <1>2, <1>3, <1>6, <2>1
  <2>2. CASE i \notin 1 .. n
    <3>1. i - n \in 1 .. m /\ n + (i - n) = i
      BY <1>1, <2>2
    <3>2. c[i] = b[i - n] /\ all[i] = gb[i - n]
      BY <1>2, <1>6, <3>1
    <3> QED
      BY <1>3, <3>1, <3>2
  <2> QED
    BY <2>1, <2>2
<1>9. Each(g, c) = all
  BY <1>6, <1>7, <1>8
<1> QED
  BY <1>5, <1>9 DEF c, ga, gb

\* Each item of a flattened sequence.
LEMMA EachFlattened ==
  ASSUME NEW T, NEW s \in Seq(Seq(T)), NEW g
  PROVE  /\ FlattenSeq(s) \in Seq(T)
         /\ Each(g, FlattenSeq(s)) = FlattenSeq([j \in DOMAIN s |-> Each(g, s[j])])
<1> DEFINE n == Len(s)
           m == [j \in DOMAIN s |-> Each(g, s[j])]
<1>1. n \in Nat /\ DOMAIN s = 1 .. n /\ \A j \in 1 .. n : s[j] \in Seq(T)
  OBVIOUS
<1>2. DOMAIN m = 1 .. n /\ \A j \in 1 .. n : m[j] = Each(g, s[j])
  BY <1>1
<1>3. Len(m) = n
  BY <1>1, <1>2
<1>4. CASE n = 0
  <2>1. s = <<>> /\ m = <<>>
    BY <1>1, <1>4
  <2>2. FlattenSeq(<<>>) = <<>>
    BY DEF FlattenSeq
  <2>3. Each(g, <<>>) = <<>> /\ <<>> \in Seq(T)
    BY DEF Each
  <2> HIDE DEF m
  <2>4. FlattenSeq(s) = <<>> /\ FlattenSeq(m) = <<>>
    BY <2>1, <2>2
  <2> QED
    BY <2>3, <2>4 DEF m
<1>5. CASE n # 0
  <2> HIDE DEF m, n
  <2>1. FlattenSeq(s) = Flat(s)[n] /\ FlattenSeq(m) = Flat(m)[n]
    BY <1>3, <1>5, FlattenIsFlat DEF n
  <2>2. /\ \A i \in 1 .. n : Flat(s)[i] = FlatStep(s, Flat(s), i)
        /\ \A i \in 1 .. n : Flat(m)[i] = FlatStep(m, Flat(m), i)
    BY <1>1, <1>3, FlatDefined DEF n
  <2> DEFINE S == {i \in 0 .. n : i # 0 => Flat(s)[i] \in Seq(T) /\ Flat(m)[i] = Each(g, Flat(s)[i])}
  <2>3. 0 \in S
    BY <1>1
  <2>4. ASSUME NEW j \in 1 .. n, j - 1 \in S PROVE j \in S
    <3>1. CASE j = 1
      <4>1. Flat(s)[j] = s[j] /\ Flat(m)[j] = m[j]
        BY <2>2, <3>1 DEF FlatStep
      <4> QED
        BY <1>1, <1>2, <4>1
    <3>2. CASE j # 1
      <4>1. /\ Flat(s)[j] = Flat(s)[j - 1] \o s[j]
            /\ Flat(m)[j] = Flat(m)[j - 1] \o m[j]
        BY <2>2, <3>2 DEF FlatStep
      <4>2. j - 1 # 0 /\ j \in 0 .. n
        BY <1>1, <3>2
      <4>3. Flat(s)[j - 1] \in Seq(T) /\ Flat(m)[j - 1] = Each(g, Flat(s)[j - 1])
        BY <2>4, <4>2
      <4>4. s[j] \in Seq(T) /\ m[j] = Each(g, s[j])
        BY <1>1, <1>2
      <4>5. Flat(s)[j] \in Seq(T)
        BY <4>1, <4>3, <4>4, Joined
      <4>6. Flat(m)[j] = Each(g, Flat(s)[j])
        <5>1. PICK a, b : a = Flat(s)[j - 1] /\ b = s[j]
          OBVIOUS
        <5>2. a \in Seq(T) /\ b \in Seq(T)
          BY <4>3, <4>4, <5>1
        <5>3. Each(g, a \o b) = Each(g, a) \o Each(g, b)
          BY ONLY <5>2, EachJoined
        <5> QED
          BY <4>1, <4>3, <4>4, <5>1, <5>3
      <4> QED
        BY <4>2, <4>5, <4>6
    <3> QED
      BY <3>1, <3>2
  <2>5. n \in S
    <3> HIDE DEF S
    <3>1. \A j \in 0 .. n : j \in S
      BY <1>1, <2>3, <2>4, CountUp
    <3> QED
      BY <1>1, <3>1
  <2>6. Flat(s)[n] \in Seq(T) /\ Flat(m)[n] = Each(g, Flat(s)[n])
    BY <1>5, <2>5
  <2> QED
    BY <2>1, <2>6 DEF m
<1> QED
  BY <1>4, <1>5

\* A finite set of numbers in its order.
InOrder(S, order) ==
  /\ order \in [1 .. Cardinality(S) -> S]
  /\ \A i, j \in DOMAIN order : i < j => order[i] < order[j]

LEMMA OrderExists ==
  ASSUME NEW S \in SUBSET Nat, IsFiniteSet(S)
  PROVE  \E order : InOrder(S, order)
<1> DEFINE Bad(n) == \E R \in SUBSET Nat : IsFiniteSet(R) /\ Cardinality(R) = n
                                           /\ ~\E order : InOrder(R, order)
           T == {n \in Nat : Bad(n)}
<1>1. ASSUME T # {} PROVE FALSE
  <2>1. PICK n \in T : \A k \in T : n <= k
    <3>1. T \in SUBSET Nat
      OBVIOUS
    <3> HIDE DEF T
    <3> QED
      BY <1>1, <3>1, LeastNatural
  <2>2. PICK R \in SUBSET Nat : /\ IsFiniteSet(R) /\ Cardinality(R) = n
                                /\ ~\E order : InOrder(R, order)
    BY <2>1
  <2>3. n # 0
    <3>1. ASSUME n = 0 PROVE FALSE
      <4>1. R = {}
        BY <2>2, <3>1, FS_EmptySet
      <4>2. InOrder(R, <<>>)
        BY <2>2, <3>1, <4>1 DEF InOrder
      <4> QED
        BY <2>2, <4>2
    <3> QED
      BY <3>1
  <2>4. PICK m \in R : \A k \in R : m <= k
    <3>1. R # {}
      BY <2>2, <2>3, FS_EmptySet
    <3> QED
      BY <3>1, LeastNatural
  <2>5. PICK Q : Q = R \ {m}
    OBVIOUS
  <2>6. IsFiniteSet(Q) /\ Cardinality(Q) = n - 1 /\ Q \in SUBSET Nat
    <3>1. IsFiniteSet(R \ {m}) /\ Cardinality(R \ {m}) = Cardinality(R) - 1
      BY <2>2, <2>4, FS_RemoveElement
    <3> QED
      BY <2>2, <2>5, <3>1
  <2>7. PICK o : InOrder(Q, o)
    <3>1. n - 1 \in Nat /\ ~(n <= n - 1)
      BY <2>1, <2>3
    <3>2. ~Bad(n - 1)
      BY <2>1, <3>1
    <3> QED
      BY <2>6, <3>2
  <2>8. o \in [1 .. n - 1 -> Q] /\ \A i, j \in 1 .. n - 1 : i < j => o[i] < o[j]
    BY <2>6, <2>7 DEF InOrder
  <2> DEFINE order == [i \in 1 .. n |-> IF i = 1 THEN m ELSE o[i - 1]]
  <2>9. \A i \in 1 .. n : i # 1 => i - 1 \in 1 .. n - 1
    BY <2>1
  <2>10. \A i \in 1 .. n - 1 : o[i] \in R /\ m < o[i]
    <3>1. \A i \in 1 .. n - 1 : o[i] \in R /\ o[i] # m
      BY <2>5, <2>8
    <3>2. \A k \in R : k # m => m < k
      BY <2>2, <2>4
    <3> QED
      BY <3>1, <3>2
  <2>11. order \in [1 .. n -> R]
    BY <2>4, <2>9, <2>10
  <2>12. ASSUME NEW i \in 1 .. n, NEW j \in 1 .. n, i < j PROVE order[i] < order[j]
    <3>1. j # 1 /\ j - 1 \in 1 .. n - 1
      BY <2>1, <2>9, <2>12
    <3>2. CASE i = 1
      BY <2>10, <3>1, <3>2
    <3>3. CASE i # 1
      <4>1. i - 1 \in 1 .. n - 1 /\ i - 1 < j - 1
        BY <2>1, <2>9, <2>12, <3>3
      <4> QED
        BY <2>8, <3>1, <3>3, <4>1
    <3> QED
      BY <3>2, <3>3
  <2>13. DOMAIN order = 1 .. n
    OBVIOUS
  <2> HIDE DEF order
  <2>14. InOrder(R, order)
    BY <2>2, <2>11, <2>12, <2>13 DEF InOrder
  <2> QED
    BY <2>2, <2>14
<1>2. T = {}
  BY <1>1
<1> HIDE DEF T
<1>3. Cardinality(S) \in Nat
  BY FS_CardinalityType
<1>4. Cardinality(S) \notin T
  BY <1>2
<1> QED
  BY <1>3, <1>4 DEF T

\* A scan meets the slots of a table in their order.
LEMMA ScanOrdered ==
  ASSUME NEW S \in SUBSET Slots
  PROVE  /\ ScanOrder(S) \in [1 .. Cardinality(S) -> S]
         /\ \A i, j \in DOMAIN ScanOrder(S) : i < j => ScanOrder(S)[i] < ScanOrder(S)[j]
<1>1. S \in SUBSET Nat /\ IsFiniteSet(S)
  BY SessionAssumption, FS_Subset
<1>2. PICK order : InOrder(S, order)
  BY <1>1, OrderExists
<1>3. \E o \in [1 .. Cardinality(S) -> S] : \A i, j \in DOMAIN o : i < j => o[i] < o[j]
  BY <1>2 DEF InOrder
<1> QED
  BY <1>3 DEF ScanOrder


\* What an attribute of a SELECT stands for, of a table that is the only one: the
\* fields it names, under the names and with the values it means.
Heads(table)      == [f \in [rel : Names, at : 1 .. Len(table.fields)] |-> table.fields[f.at].name]
Prints(table, row) == [f \in [rel : Names, at : 1 .. Len(table.fields)] |->
                         Printed(GetUnit(table, row, f.at))]

\* Rounding to hundredths picks the nearer one, or else the even one.
LEMMA HundredthsNearest ==
  ASSUME NEW n \in Int
  PROVE  Hundredths(n) = Nearest(n)
<1> DEFINE h == Hundredth
           q == n \div h
           r == n % h
           Away(x) == IF x * h < n THEN n - x * h ELSE x * h - n
           Best(x) == \A g \in {q, q + 1} \ {x} :
                        Away(x) < Away(g) \/ (Away(x) = Away(g) /\ x % 2 = 0)
<1>1. h \in Nat /\ h > 0
  BY FloatAssumption
<1>2. q \in Int /\ r \in 0 .. h - 1 /\ n = h * q + r
  BY <1>1
<1>3. (q + 1) * h = q * h + h /\ q * h \in Int /\ q * h = h * q
  BY <1>1, <1>2
<1>4. Away(q) = r /\ Away(q + 1) = h - r
  <2> HIDE DEF h, q, r
  <2> QED
    BY <1>1, <1>2, <1>3
<1>5. (q % 2 = 0) \/ ((q + 1) % 2 = 0)
  <2> HIDE DEF q
  <2> QED
    BY <1>2
<1>6. ~(q % 2 = 0 /\ (q + 1) % 2 = 0)
  <2> HIDE DEF q
  <2> QED
    BY <1>2
<1>7. Hundredths(n) = IF 2 * r < h \/ (2 * r = h /\ q % 2 = 0) THEN q ELSE q + 1
  BY DEF Hundredths
<1>8. Nearest(n) = CHOOSE x \in {q, q + 1} : Best(x)
  BY DEF Nearest
<1> HIDE DEF h, q, r, Away
<1>9. Best(q) <=> r < h - r \/ (r = h - r /\ q % 2 = 0)
  BY <1>2, <1>4
<1>10. Best(q + 1) <=> h - r < r \/ (r = h - r /\ (q + 1) % 2 = 0)
  BY <1>2, <1>4
<1> HIDE DEF Best
<1>11. CASE 2 * r < h \/ (2 * r = h /\ q % 2 = 0)
  <2>1. Best(q) /\ ~Best(q + 1)
    BY <1>1, <1>2, <1>6, <1>9, <1>10, <1>11
  <2>2. Nearest(n) = q
    BY <1>8, <2>1
  <2> QED
    BY <1>7, <1>11, <2>2
<1>12. CASE ~(2 * r < h \/ (2 * r = h /\ q % 2 = 0))
  <2>1. Best(q + 1) /\ ~Best(q)
    BY <1>1, <1>2, <1>5, <1>9, <1>10, <1>12
  <2>2. Nearest(n) = q + 1
    BY <1>8, <2>1
  <2> QED
    BY <1>7, <1>12, <2>2
<1> QED
  BY <1>11, <1>12

\* A field whose name is its own is printed as it is to be shown.
LEMMA PrintedValue ==
  ASSUME NEW table, IsTable(table), NEW row, IsRow(table.fields, row), NEW at \in 1 .. Len(table.fields),
         NamesField(table, RelAttr(NoName, table.fields[at].name))
  PROVE  Printed(GetUnit(table, row, at)) = ShownAs(table.fields[at].type, row[at])
<1>1. GetField(table.fields, table.fields[at].name) = at
  <2> DEFINE name == table.fields[at].name
             o == RelAttr(NoName, name)
  <2>1. o.attr = name
    BY DEF RelAttr
  <2> HIDE DEF o
  <2>2. /\ FieldAt(table, name) \in 1 .. Len(table.fields)
        /\ table.fields[FieldAt(table, name)].name = name
        /\ GetField(table.fields, name) = FieldAt(table, name)
        /\ \A j \in 1 .. Len(table.fields) :
             table.fields[j].name = name => j = FieldAt(table, name)
    BY <2>1, FieldNamed DEF o
  <2> QED
    BY <2>2
<1> DEFINE u == GetUnit(table, row, at)
<1>2. u.type = table.fields[at].type /\ u.data = row[at]
  BY <1>1 DEF GetUnit, Unit
<1> HIDE DEF u
<1>3. Holds(table.fields[at], row[at])
  <2>1. table.fields \in Seq(AttrInfo)
    BY FieldsOfTable
  <2> QED
    BY <2>1 DEF IsRow
<1>4. CASE u.type = "Floats"
  <2>1. row[at] \in [1 .. 1 -> Int]
    BY <1>2, <1>3, <1>4 DEF Holds
  <2>2. row[at][1] \in Int
    BY <2>1
  <2>3. Hundredths(row[at][1]) = Nearest(row[at][1])
    BY <2>2, HundredthsNearest
  <2> QED
    BY <1>2, <1>4, <2>3 DEF Printed, ShownAs, u
<1>5. CASE u.type # "Floats"
  BY <1>2, <1>5 DEF Printed, ShownAs, TextOf, u
<1> QED
  BY <1>4, <1>5


\* What one attribute of a SELECT shows of a row.
HeadOf(table, a) ==
  IF a = Star THEN [k \in 1 .. Len(table.fields) - 1 |-> table.fields[k + 1].name]
              ELSE <<a.attr>>
ShownOf(table, row, a) ==
  IF a = Star THEN [k \in 1 .. Len(row) - 1 |-> ShownAs(table.fields[k + 1].type, row[k + 1])]
              ELSE <<ShownAs(table.fields[FieldAt(table, a.attr)].type, row[FieldAt(table, a.attr)])>>

\* Lists of one item.
LEMMA OneItem ==
  ASSUME NEW x
  PROVE  /\ Len(<<x>>) = 1 /\ DOMAIN <<x>> = 1 .. 1 /\ <<x>>[1] = x
         /\ ToSet(<<x>>) = {x} /\ \A S : x \in S => <<x>> \in Seq(S)
<1>1. Len(<<x>>) = 1 /\ <<x>>[1] = x
  OBVIOUS
<1>2. \A S : x \in S => <<x>> \in Seq(S)
  OBVIOUS
<1>3. DOMAIN <<x>> = 1 .. 1
  <2>1. <<x>> \in Seq({x})
    BY <1>2
  <2> QED
    BY <1>1, <2>1
<1> DEFINE s == <<x>>
<1>4. ToSet(s) = {s[i] : i \in DOMAIN s}
  BY DEF ToSet
<1> HIDE DEF s
<1>5. ToSet(s) = {x}
  BY <1>1, <1>3, <1>4 DEF s
<1> QED
  BY <1>1, <1>2, <1>3, <1>5 DEF s

LEMMA OneFunction ==
  ASSUME NEW y
  PROVE  [i \in 1 .. 1 |-> y] = <<y>>
<1> DEFINE s == [i \in 1 .. 1 |-> y]
<1>1. s \in Seq({y}) /\ Len(s) = 1 /\ s[1] = y
  OBVIOUS
<1> HIDE DEF s
<1>2. s = <<s[1]>>
  BY <1>1
<1> QED
  BY <1>1, <1>2 DEF s

LEMMA EachOne ==
  ASSUME NEW x, NEW g
  PROVE  Each(g, <<x>>) = <<g[x]>>
<1> DEFINE s == <<x>>
<1>1. DOMAIN s = 1 .. 1 /\ \A i \in 1 .. 1 : s[i] = x
  <2>1. DOMAIN s = 1 .. 1 /\ s[1] = x
    BY OneItem
  <2> HIDE DEF s
  <2> QED
    BY <2>1
<1> HIDE DEF s
<1>2. Each(g, s) = [i \in 1 .. 1 |-> g[x]]
  BY <1>1 DEF Each
<1> QED
  BY <1>2, OneFunction DEF s

\* A list of one list is that list.
LEMMA FlattenOne ==
  ASSUME NEW x
  PROVE  FlattenSeq(<<x>>) = x
<1> DEFINE s == <<x>>
<1>1. Len(s) = 1 /\ Len(s) # 0 /\ s[1] = x
  OBVIOUS
<1> HIDE DEF s
<1>2. FlattenSeq(s) = Flat(s)[1]
  BY <1>1, FlattenIsFlat
<1>3. Flat(s)[1] = FlatStep(s, Flat(s), 1)
  BY <1>1, FlatDefined
<1> QED
  BY <1>1, <1>2, <1>3 DEF FlatStep, s

StandsFor(table, part, a) ==
  /\ part.text = "" /\ part.fields \in Seq([rel : Names, at : 1 .. Len(table.fields)])
  /\ Each(Heads(table), part.fields) = HeadOf(table, a)
  /\ \A row : IsRow(table.fields, row) =>
       Each(Prints(table, row), part.fields) = ShownOf(table, row, a)

\* Each field that an attribute stands for is one the table has, and is shown
\* as the attribute means it.
LEMMA AttrMeant ==
  ASSUME NEW db, NEW t, NEW table, NEW a, NEW part,
         t \in Names, a \in RelAttrs, table = db[t], IsTable(table), part = SelectedFields(db, <<t>>, a),
         part.text = "", NamesColumns(table, a)
  PROVE  StandsFor(table, part, a)
<1> DEFINE fields == table.fields
           n      == Len(fields)
           T      == [rel : Names, at : 1 .. n]
<1>0. IsTable(table) /\ t \in Names /\ a \in RelAttrs /\ table = db[t]
  OBVIOUS
<1>1. DOMAIN fields = 1 .. n /\ n \in Nat \ {0}
  BY ONLY <1>0, FieldsOfTable
<1>2. /\ \A f \in T : Heads(table)[f] = fields[f.at].name
      /\ \A row : \A f \in T : Prints(table, row)[f] = Printed(GetUnit(table, row, f.at))
  BY DEF Heads, Prints
<1>3. \A row : \A at \in 1 .. n :
        IsRow(fields, row) /\ NamesField(table, RelAttr(NoName, fields[at].name)) =>
          Printed(GetUnit(table, row, at)) = ShownAs(fields[at].type, row[at])
  BY PrintedValue
<1>4. CASE a = Star
  <2> DEFINE w == [i \in 1 .. n - 1 |-> [rel |-> t, at |-> i + 1]]
  <2>1. part.fields = w
    <3>1. part.fields = FlattenSeq([i \in DOMAIN <<t>> |-> WildcardFields(db, <<t>>[i])])
      BY <1>4 DEF SelectedFields
    <3>2. [i \in DOMAIN <<t>> |-> WildcardFields(db, <<t>>[i])] = <<WildcardFields(db, t)>>
      <4>1. [i \in DOMAIN <<t>> |-> WildcardFields(db, <<t>>[i])] = [i \in 1 .. 1 |-> WildcardFields(db, t)]
        <5>1. DOMAIN <<t>> = 1 .. 1 /\ \A i \in 1 .. 1 : <<t>>[i] = t
          BY ONLY OneItem
        <5> QED
          BY <5>1
      <4> QED
        BY <4>1, OneFunction
    <3>3. WildcardFields(db, t) = w
      BY DEF WildcardFields
    <3> QED
      BY <3>1, <3>2, <3>3, FlattenOne
  <2>2. \A i \in 1 .. n - 1 : i + 1 \in 1 .. n /\ w[i] = [rel |-> t, at |-> i + 1] /\ w[i] \in T
    <3>1. \A i \in 1 .. n - 1 : i + 1 \in 1 .. n
      BY ONLY <1>1
    <3> HIDE DEF n
    <3> QED
      BY <3>1
  <2>3. DOMAIN w = 1 .. n - 1 /\ w \in Seq(T)
    <3>1. n - 1 \in Nat
      BY ONLY <1>1
    <3> HIDE DEF T, n
    <3> QED
      BY ONLY <2>2, <3>1
  <2> HIDE DEF w, T, n
  <2>4. \A i \in 1 .. n - 1 : w[i].at = i + 1
    <3>1. \A y : [rel |-> t, at |-> y].at = y
      OBVIOUS
    <3> QED
      BY <2>2, <3>1
  <2>5. Each(Heads(table), w) = [k \in 1 .. n - 1 |-> fields[k + 1].name]
    BY <1>2, <2>2, <2>3, <2>4 DEF Each
  <2>6. \A k \in 1 .. n - 1 : NamesField(table, RelAttr(NoName, fields[k + 1].name))
    BY <1>1, <1>4, <2>2 DEF NamesColumns
  <2>7. ASSUME NEW row, IsRow(fields, row)
        PROVE  Each(Prints(table, row), w) =
                 [k \in 1 .. Len(row) - 1 |-> ShownAs(fields[k + 1].type, row[k + 1])]
    <3>1. ASSUME NEW k \in 1 .. n - 1
          PROVE  Prints(table, row)[w[k]] = ShownAs(fields[k + 1].type, row[k + 1])
      <4>1. w[k] \in T /\ w[k].at = k + 1 /\ k + 1 \in 1 .. n
        BY <2>2, <2>4
      <4>2. Prints(table, row)[w[k]] = Printed(GetUnit(table, row, k + 1))
        BY <1>2, <4>1
      <4> QED
        BY <1>3, <2>6, <2>7, <4>1, <4>2
    <3>2. Len(row) = n
      BY <2>7 DEF IsRow, n
    <3> QED
      BY <2>3, <3>1, <3>2 DEF Each
  <2> QED
    BY <1>4, <2>1, <2>3, <2>5, <2>7 DEF StandsFor, HeadOf, ShownOf, T, n
<1>5. CASE a # Star
  <2> DEFINE at == FieldAt(table, a.attr)
             f  == [rel |-> t, at |-> at]
  <2>1. NamesField(table, a) /\ a.is = "attr"
    BY <1>5 DEF NamesColumns, RelAttrs
  <2>2. /\ at \in 1 .. n /\ fields[at].name = a.attr
        /\ GetField(fields, a.attr) = at
    BY <2>1, FieldNamed
  <2>3. part.fields = <<f>>
    <3> DEFINE u  == IF a.rel # NoName THEN a.rel ELSE <<t>>[1]
               at2 == GetField(db[u].fields, a.attr)
    <3>1. \/ a.rel # NoName /\ a.rel \notin ToSet(<<t>>) /\ part.text = "SELECT FAILED,NO SUCH TABLE"
          \/ a.rel = NoName /\ Len(<<t>>) # 1
          \/ at2 = 0 /\ part.text = "SELECT FAILED,NO SUCH FIELD"
          \/ ~(a.rel # NoName /\ a.rel \notin ToSet(<<t>>)) /\ part.fields = <<[rel |-> u, at |-> at2]>>
      BY <1>5 DEF SelectedFields
    <3>2. ToSet(<<t>>) = {t}
      BY OneItem
    <3>3. part.fields = <<[rel |-> u, at |-> at2]>> /\ u = t
      BY <3>1, <3>2
    <3> QED
      BY <2>2, <3>3
  <2>4. f \in T /\ f.at = at
    BY <2>2
  <2> HIDE DEF f, T
  <2>5. Each(Heads(table), <<f>>) = <<a.attr>>
    <3>1. Heads(table)[f] = a.attr
      BY <1>2, <2>2, <2>4
    <3>2. Each(Heads(table), <<f>>) = <<Heads(table)[f]>>
      BY ONLY EachOne
    <3> QED
      BY <3>1, <3>2
  <2>6. NamesField(table, RelAttr(NoName, fields[at].name))
    BY <2>1, <2>2 DEF NamesField, RelAttr
  <2>7. ASSUME NEW row, IsRow(fields, row)
        PROVE  Each(Prints(table, row), <<f>>) = <<ShownAs(fields[at].type, row[at])>>
    <3>1. Prints(table, row)[f] = ShownAs(fields[at].type, row[at])
      <4>1. Prints(table, row)[f] = Printed(GetUnit(table, row, at))
        BY <1>2, <2>4
      <4>2. Printed(GetUnit(table, row, at)) = ShownAs(fields[at].type, row[at])
        BY <1>3, <2>2, <2>6, <2>7
      <4> QED
        BY <4>1, <4>2
    <3> QED
      BY <3>1, EachOne
  <2>8. <<f>> \in Seq(T)
    BY <2>4, OneItem
  <2> QED
    BY <1>5, <2>3, <2>5, <2>7, <2>8 DEF StandsFor, HeadOf, ShownOf, T
<1> QED
  BY <1>4, <1>5

\* Fields that are shown as the attributes mean them.
ShowFor(fields, table, attrs) ==
  /\ [i \in DOMAIN fields |-> table.fields[fields[i].at].name] = Columns(table, attrs)
  /\ \A row : IsRow(table.fields, row) =>
       DescStrTuple(table, row, fields) = Shown(table, row, attrs)

\* What a SELECT shows of a table is what it means.
LEMMA SelectMeant ==
  ASSUME NEW db, NEW t, NEW table, NEW attrs, NEW fields,
         t \in Names, table = db[t], IsTable(table), attrs \in Seq(RelAttrs),
         \A i \in DOMAIN attrs : /\ SelectedFields(db, <<t>>, attrs[i]).text = ""
                                 /\ NamesColumns(table, attrs[i]),
         fields = FlattenSeq([i \in DOMAIN attrs |-> SelectedFields(db, <<t>>, attrs[i]).fields])
  PROVE  ShowFor(fields, table, attrs)
<1> DEFINE part(i) == SelectedFields(db, <<t>>, attrs[i])
           parts   == [i \in DOMAIN attrs |-> part(i).fields]
           T       == [rel : Names, at : 1 .. Len(table.fields)]
<1>0. attrs \in Seq(RelAttrs)
  OBVIOUS
<1>1. \A i \in DOMAIN attrs : attrs[i] \in RelAttrs
  BY ONLY <1>0
<1>2. ASSUME NEW i \in DOMAIN attrs
      PROVE  /\ part(i).fields \in Seq(T)
             /\ Each(Heads(table), part(i).fields) = HeadOf(table, attrs[i])
             /\ \A row : IsRow(table.fields, row) =>
                  Each(Prints(table, row), part(i).fields) = ShownOf(table, row, attrs[i])
  <2>1. PICK p, a : p = part(i) /\ a = attrs[i]
    OBVIOUS
  <2>2. /\ t \in Names /\ a \in RelAttrs /\ table = db[t] /\ IsTable(table)
        /\ p = SelectedFields(db, <<t>>, a) /\ p.text = "" /\ NamesColumns(table, a)
    BY <1>1, <2>1
  <2>3. StandsFor(table, p, a)
    BY ONLY <2>2, AttrMeant
  <2> QED
    BY <2>1, <2>3 DEF StandsFor
<1> HIDE DEF T, part
<1>3. parts \in Seq(Seq(T))
  <2>1. DOMAIN attrs = 1 .. Len(attrs) /\ Len(attrs) \in Nat
    BY ONLY <1>0
  <2> QED
    BY ONLY <1>2, <2>1
<1>4. /\ DOMAIN parts = DOMAIN attrs
      /\ \A i \in DOMAIN attrs : parts[i] = part(i).fields
      /\ fields = FlattenSeq(parts)
  BY DEF part
<1> HIDE DEF parts
<1>5. fields \in Seq(T)
  <2>1. FlattenSeq(parts) \in Seq(T)
    BY ONLY <1>3, EachFlattened
  <2> QED
    BY <1>4, <2>1
<1>6. \A g : Each(g, fields) = FlattenSeq([i \in DOMAIN attrs |-> Each(g, part(i).fields)])
  <2> TAKE g
  <2>1. Each(g, FlattenSeq(parts)) = FlattenSeq([i \in DOMAIN parts |-> Each(g, parts[i])])
    BY ONLY <1>3, EachFlattened
  <2>2. [i \in DOMAIN parts |-> Each(g, parts[i])] = [i \in DOMAIN attrs |-> Each(g, part(i).fields)]
    BY ONLY <1>4
  <2> QED
    BY <1>4, <2>1, <2>2
<1>7. \A i \in DOMAIN fields : fields[i] \in T
  BY ONLY <1>5
<1>8. [i \in DOMAIN fields |-> table.fields[fields[i].at].name] = Columns(table, attrs)
  <2>1. Columns(table, attrs) = FlattenSeq([i \in DOMAIN attrs |-> HeadOf(table, attrs[i])])
    BY DEF Columns, HeadOf
  <2>2. [i \in DOMAIN attrs |-> Each(Heads(table), part(i).fields)] =
          [i \in DOMAIN attrs |-> HeadOf(table, attrs[i])]
    BY <1>2
  <2>3. Each(Heads(table), fields) = Columns(table, attrs)
    BY <1>6, <2>1, <2>2
  <2>4. \A f \in T : Heads(table)[f] = table.fields[f.at].name
    BY DEF Heads, T
  <2>5. Each(Heads(table), fields) = [i \in DOMAIN fields |-> table.fields[fields[i].at].name]
    BY <1>7, <2>4 DEF Each
  <2> QED
    BY <2>3, <2>5
<1>9. ASSUME NEW row, IsRow(table.fields, row)
      PROVE  DescStrTuple(table, row, fields) = Shown(table, row, attrs)
  <2>1. Shown(table, row, attrs) = FlattenSeq([i \in DOMAIN attrs |-> ShownOf(table, row, attrs[i])])
    BY DEF Shown, ShownOf
  <2>2. [i \in DOMAIN attrs |-> Each(Prints(table, row), part(i).fields)] =
          [i \in DOMAIN attrs |-> ShownOf(table, row, attrs[i])]
    BY <1>2, <1>9
  <2>3. Each(Prints(table, row), fields) = Shown(table, row, attrs)
    BY <1>6, <2>1, <2>2
  <2>4. \A f \in T : Prints(table, row)[f] = Printed(GetUnit(table, row, f.at))
    BY DEF Prints, T
  <2>5. Each(Prints(table, row), fields) = [i \in DOMAIN fields |-> Printed(GetUnit(table, row, fields[i].at))]
    BY <1>7, <2>4 DEF Each
  <2>6. DescStrTuple(table, row, fields) = [i \in DOMAIN fields |-> Printed(GetUnit(table, row, fields[i].at))]
    BY DEF DescStrTuple
  <2> QED
    BY <2>3, <2>5, <2>6
<1> QED
  BY <1>8, <1>9 DEF ShowFor

\* The statement of a SELECT of these attributes.
SelectOf(db, q, attrs, stmt) ==
  /\ ToSet(q.rels) \subseteq DOMAIN db
  /\ stmt.tables = q.rels
  /\ \A i \in DOMAIN attrs : SelectedFields(db, q.rels, attrs[i]).text = ""
  /\ stmt.fields = FlattenSeq([i \in DOMAIN attrs |-> SelectedFields(db, q.rels, attrs[i]).fields])
  /\ Len(q.rels) = 1 =>
       /\ FilterRe(db, q.rels[1], q.rels, q.conds) = "Success"
       /\ stmt.filter = CreateFilter(db, q.rels[1], q.rels, q.conds)

\* What a SELECT is resolved to.
LEMMA SelectResolved ==
  ASSUME NEW db, NEW q \in QueriesOf("Select"), NEW r, r = HandleStatement(db, q), r.ok = TRUE,
         NEW attrs, attrs = AttrOrder(q.attrs), attrs \in Seq(RelAttrs)
  PROVE  SelectOf(db, q, attrs, r.stmt)
<1> DEFINE part(i) == SelectedFields(db, q.rels, attrs[i])
           parts   == [i \in DOMAIN attrs |-> part(i)]
           wrong   == {i \in DOMAIN attrs : parts[i].text # ""}
           bad     == First(wrong)
           default == IF Len(q.rels) = 1 THEN q.rels[1] ELSE NoName
           re      == FilterRe(db, default, q.rels, q.conds)
           fields  == FlattenSeq([i \in DOMAIN parts |-> parts[i].fields])
           filter  == CreateFilter(db, default, q.rels, q.conds)
           stmt    == [scf |-> "Select", tables |-> q.rels, fields |-> fields, filter |-> filter]
<1>1. q.scf = "Select"
  BY DEF QueriesOf, SelectQueries
<1>2. r = HandleSelect(db, q)
  BY <1>1 DEF HandleStatement
<1>3. r = IF ~(ToSet(q.rels) \subseteq DOMAIN db) THEN Refused("SELECT FAILED,NO SUCH TABLE")
      ELSE IF bad # 0 THEN Refused(parts[bad].text)
      ELSE IF re # "Success"
      THEN Refused(IF re = "SchemaFieldNotExist" THEN "SELECT FAILED,SOME FIELDS NOT FOUND" ELSE "")
      ELSE Resolved(stmt)
  BY <1>2 DEF HandleSelect
<1> HIDE DEF bad, re, stmt, parts
<1>4. ToSet(q.rels) \subseteq DOMAIN db /\ bad = 0 /\ re = "Success" /\ r = Resolved(stmt)
  <2>1. \A text : Refused(text).ok = FALSE
    BY DEF Refused
  <2> QED
    BY <1>3, <2>1
<1>5. wrong = {}
  <2>0. attrs \in Seq(RelAttrs)
    OBVIOUS
  <2>1. \A i \in DOMAIN attrs : i \in Nat /\ i # 0
    BY ONLY <2>0
  <2>2. wrong \in SUBSET Nat /\ 0 \notin wrong
    BY <2>1
  <2> HIDE DEF wrong
  <2> QED
    BY <1>4, <2>2, FirstIn DEF bad
<1>6. DOMAIN parts = DOMAIN attrs /\ \A i \in DOMAIN attrs : parts[i] = part(i)
  BY DEF parts
<1> HIDE DEF part
<1>7. \A i \in DOMAIN attrs : part(i).text = ""
  BY <1>5, <1>6
<1>8. fields = FlattenSeq([i \in DOMAIN attrs |-> part(i).fields])
  <2>1. [i \in DOMAIN parts |-> parts[i].fields] = [i \in DOMAIN attrs |-> part(i).fields]
    BY <1>6
  <2> QED
    BY <2>1
<1> HIDE DEF fields, filter
<1>9. r.stmt.tables = q.rels /\ r.stmt.fields = fields /\ r.stmt.filter = filter
  <2>1. r.stmt = stmt
    BY <1>4, Outcomes
  <2> QED
    BY <2>1 DEF stmt
<1> QED
  BY <1>4, <1>7, <1>8, <1>9 DEF SelectOf, part, filter, re

-----------------------------------------------------------------------------
(* The invariant of a line on its way through the stages.  The query is    *)
(* what the parser makes of the line asked, the statement is what resolve  *)
(* makes of that query and of the tables as they were, and the tables and  *)
(* the answer are changed together, in the execute stage.                  *)

LastKind == asked.commands[Len(asked.commands)].cmd
Changing == {"Insert", "Delete", "CreateTable"}
Query    == SqlParse(asked)

\* What is left to say of an answer when it is given.
OwnAnswer(r) == /\ r.text \in TextsOf(LastKind) \cup {""}
                /\ LastKind \notin Changing => tables = before

\* The line is one command, of this kind.
One(cmd) == Len(asked.commands) = 1 /\ Command.cmd = cmd

InsertDid(r) ==
  IF Command.rel \notin DOMAIN before THEN tables = before
  ELSE LET t   == Command.rel
           new == DOMAIN tables[t].rows \ DOMAIN before[t].rows
       IN  /\ Others(t) /\ DOMAIN tables = DOMAIN before
           /\ DOMAIN before[t].rows \subseteq DOMAIN tables[t].rows
           /\ \A s \in DOMAIN before[t].rows : tables[t].rows[s] = before[t].rows[s]
           /\ new = {} \/ Cardinality(new) = 1
           /\ r.text = "INSERT SUCCEEDED." => new # {}
           /\ r.text \notin {"INSERT SUCCEEDED.", "INSERT FAILED,INSERT RECORD FAILED",
                             "INSERT FAILED,CAN NOT APPEND LOG"} => new = {}
           /\ \A s \in new, i \in DOMAIN Command.values :
                TextOf(tables[t].fields[i + 1].type, tables[t].rows[s][i + 1]) =
                  Given(tables[t].fields[i + 1], Command.values[i])

DeleteDid(r) ==
  IF Command.rel \notin DOMAIN before THEN tables = before
  ELSE LET t     == Command.rel
           gone  == DOMAIN before[t].rows \ DOMAIN tables[t].rows
           meant == Meant(before[t], Command.conds)
       IN  /\ Others(t) /\ Remains(t)
           /\ DOMAIN tables = DOMAIN before
           /\ r.text = "DELETE SUCCEEDED" => r.count = Cardinality(gone)
           /\ r.text \notin AfterDelete => gone = {}
           /\ (r.text \in AfterDelete /\ Sound(before[t], Command.conds)) =>
                IF whole /\ r.text # "DELETE FAILED,HANDLE OPERATOR FAILED."
                THEN gone = meant ELSE IsBeginning(gone, meant)

SelectDid(r) ==
  LET table == before[Command.rels[1]]
  IN  (/\ r.text = "rows" /\ Sound(table, Command.conds)
       /\ \A i \in DOMAIN Command.attrs : NamesColumns(table, Command.attrs[i])) =>
      \E slots \in SUBSET Slots :
        /\ IF whole THEN slots = Meant(table, Command.conds)
                    ELSE IsBeginning(slots, Meant(table, Command.conds))
        /\ r.header = Columns(table, Command.attrs)
        /\ r.rows = LET order == ScanOrder(slots)
                    IN  [i \in DOMAIN order |->
                           Shown(table, table.rows[order[i]], Command.attrs)]

Did(r) == /\ OwnAnswer(r)
          /\ One("Insert") => InsertDid(r)
          /\ One("Delete") => DeleteDid(r)
          /\ One("Select") => SelectDid(r)

\* What may be said between two lines.
AllAsAnswered ==
  AnsweredForItself /\ InsertedAsAnswered /\ DeletedAsAnswered /\ ShownAsMeant

Types == TypeOK /\ lines \in Nat /\ faults \in Nat

OnItsWay ==
  /\ IsLine(asked)
  /\ state # "Storage" => response_ = NoAnswer /\ tables = before
  /\ state = "Parse" => mains.sql = asked
  /\ state # "Parse" => asked.error = FALSE /\ Query \in QueriesOf(LastKind)
  /\ state = "Resolve" => mains.query = Query
  /\ state \in {"Execute", "Storage"} => db_opens
  /\ state = "Execute" => /\ HandleStatement(before, Query).ok = TRUE /\ ~HandleDies(Query)
                          /\ mains.stmt = HandleStatement(before, Query).stmt
  /\ state = "Storage" => Did(response_)

LineInv ==
  /\ Types
  /\ state \in {"Parse", "Resolve", "Execute", "Storage"} => OnItsWay
  /\ state = "reads" => response_ = NoAnswer /\ AllAsAnswered

-----------------------------------------------------------------------------
\* The invariant holds of the server that starts.
LEMMA InitLineInv == Init => LineInv
<1> SUFFICES ASSUME Init PROVE LineInv
  OBVIOUS
<1>1. tables \in Opened /\ state = "reads" /\ response_ = NoAnswer /\ asked = NoLine
  BY DEF Init
<1>2. \A t \in DOMAIN tables : IsTable(tables[t]) /\ DOMAIN tables[t].rows \subseteq Slots
  BY <1>1, SessionAssumption
<1>3. txn_ \in [Stages -> 0 .. global_txn_id]
  BY DEF Init
<1>4. TypeOK
  BY <1>1, <1>2, <1>3, SessionAssumption DEF Init, TypeOK
<1>5. AllAsAnswered
  BY <1>1 DEF AllAsAnswered, AnsweredForItself, InsertedAsAnswered, DeletedAsAnswered, ShownAsMeant,
              Answered
<1> QED
  BY <1>1, <1>4, <1>5 DEF LineInv, Types, Init

\* What is said of the tables and of an answer stays true while they stay.
LEMMA AnsweredKept ==
  ASSUME AllAsAnswered,
         UNCHANGED <<state, asked, before, tables, answer, whole, db_opens>>
  PROVE  AllAsAnswered'
<1>1. AnsweredForItself'
  BY DEF AllAsAnswered, AnsweredForItself
<1>2. InsertedAsAnswered'
  BY DEF AllAsAnswered, InsertedAsAnswered, Answered, Others, Command
<1>3. DeletedAsAnswered'
  BY DEF AllAsAnswered, DeletedAsAnswered, Answered, Others, Remains, Command
<1>4. ShownAsMeant'
  BY DEF AllAsAnswered, ShownAsMeant, Answered, Command
<1> QED
  BY <1>1, <1>2, <1>3, <1>4 DEF AllAsAnswered

\* What was done stays done.
LEMMA DidKept ==
  ASSUME NEW r, Did(r), UNCHANGED <<tables, asked, before, whole>>
  PROVE  Did(r)'
<1>1. OwnAnswer(r)'
  BY DEF Did, OwnAnswer, LastKind
<1>2. One("Insert")' => InsertDid(r)'
  BY DEF Did, One, InsertDid, Others, Command
<1>3. One("Delete")' => DeleteDid(r)'
  BY DEF Did, One, DeleteDid, Others, Remains, Command
<1>4. One("Select")' => SelectDid(r)'
  BY DEF Did, One, SelectDid, Command
<1> QED
  BY <1>1, <1>2, <1>3, <1>4 DEF Did

\* An answer that leaves the tables alone and does not say that anything was done.
LEMMA SaysNothing ==
  ASSUME (tables = before)', answer'.text \notin Done
  PROVE  InsertedAsAnswered' /\ DeletedAsAnswered' /\ ShownAsMeant'
<1>1. \A S : S \ S = {}
  OBVIOUS
<1> QED
  BY <1>1 DEF InsertedAsAnswered, DeletedAsAnswered, ShownAsMeant, Others, Remains, Done, AfterDelete

\* A line that is answered.
LEMMA Answers ==
  ASSUME NEW r, Respond(r), UNCHANGED <<asked, before, db_opens>>,
         asked.error = FALSE, db_opens, Types', Did(r)'
  PROVE  LineInv'
<1> DEFINE none == Text("SQL ENDED AND RESPONSE IS EMPTY")
<1>1. state' = "reads" /\ response_' = NoAnswer
  BY DEF Respond, ResponseCleared
<1>2. answer' = IF r.text = "" THEN none ELSE r
  BY DEF Respond
<1>3. none.text = "SQL ENDED AND RESPONSE IS EMPTY"
  BY DEF Text
<1> HIDE DEF none
<1>4. AnsweredForItself'
  BY <1>2, <1>3 DEF Did, OwnAnswer, LastKind, AnsweredForItself, Changing
<1>5. InsertedAsAnswered'
  <2> SUFFICES ASSUME Answered("Insert")' PROVE InsertDid(answer)'
    BY DEF InsertedAsAnswered, InsertDid
  <2>1. InsertDid(r)'
    BY DEF Answered, Did, One
  <2>2. CASE r.text = ""
    BY <1>2, <1>3, <2>1, <2>2 DEF InsertDid
  <2>3. CASE r.text # ""
    BY <1>2, <2>1, <2>3
  <2> QED
    BY <2>2, <2>3
<1>6. DeletedAsAnswered'
  <2> SUFFICES ASSUME Answered("Delete")' PROVE DeleteDid(answer)'
    BY DEF DeletedAsAnswered, DeleteDid
  <2>1. DeleteDid(r)'
    BY DEF Answered, Did, One
  <2>2. CASE r.text = ""
    BY <1>2, <1>3, <2>1, <2>2 DEF DeleteDid, AfterDelete
  <2>3. CASE r.text # ""
    BY <1>2, <2>1, <2>3
  <2> QED
    BY <2>2, <2>3
<1>7. ShownAsMeant'
  <2> SUFFICES ASSUME Answered("Select")', answer'.text = "rows" PROVE SelectDid(answer)'
    BY DEF ShownAsMeant, SelectDid
  <2>1. SelectDid(r)'
    BY DEF Answered, Did, One
  <2>2. answer' = r
    BY <1>2, <1>3
  <2> QED
    BY <2>1, <2>2
<1> QED
  BY <1>1, <1>4, <1>5, <1>6, <1>7 DEF LineInv, AllAsAnswered

\* Nothing is done.
LEMMA NothingDone ==
  ASSUME NEW r, tables = before, r.text \in TextsOf(LastKind) \cup {""},
         r.text \notin Done
  PROVE  Did(r)
<1>1. OwnAnswer(r)
  BY DEF OwnAnswer
<1>2. InsertDid(r)
  BY DEF InsertDid, Others, Done
<1>3. DeleteDid(r)
  BY DEF DeleteDid, Others, Remains, Done, AfterDelete
<1>4. SelectDid(r)
  BY DEF SelectDid, Done
<1> QED
  BY <1>1, <1>2, <1>3, <1>4 DEF Did

\* The steps, one lemma each.
LEMMA QuietLine ==
  ASSUME LineInv, UNCHANGED vars
  PROVE  LineInv'
<1>1. Types'
  BY DEF LineInv, Types, TypeOK, vars, server, history
<1>2. state' \in {"Parse", "Resolve", "Execute", "Storage"} => OnItsWay'
  <2>1. PICK r : r = response_
    OBVIOUS
  <2>2. Did(r) => Did(r)'
    BY DidKept DEF vars, server, history
  <2>3. response_' = r
    BY <2>1 DEF vars, server
  <2> QED
    BY <2>1, <2>2, <2>3 DEF LineInv, OnItsWay, Query, LastKind, vars, server, history
<1>3. state' = "reads" => response_' = NoAnswer /\ AllAsAnswered'
  BY AnsweredKept DEF LineInv, vars, server, history
<1> QED
  BY <1>1, <1>2, <1>3 DEF LineInv

\* A line is typed.
LEMMA TypesLineStep ==
  ASSUME LineInv, TypesLine
  PROVE  LineInv'
<1>1. PICK line \in Lines : pending' = <<line>>
  BY DEF TypesLine
<1>2. /\ state = "reads" /\ lines < MaxLines /\ lines' = lines + 1
      /\ UNCHANGED <<state, mains, txn_, response_, tables, leftover, db_opens, global_txn_id,
                     asked, before, answer, whole, used, faults>>
  BY DEF TypesLine
<1>3. pending' \in Seq(Lines) /\ Len(pending') = 1
  BY <1>1
<1>4. lines \in Nat /\ MaxLines \in Nat
  BY SessionAssumption DEF LineInv, Types
<1>5. Types'
  BY <1>2, <1>3, <1>4 DEF LineInv, Types, TypeOK
<1>6. AllAsAnswered' /\ response_' = NoAnswer
  BY <1>2, AnsweredKept DEF LineInv
<1> QED
  BY <1>2, <1>5, <1>6 DEF LineInv

\* A script is read.
LEMMA DoTestStep ==
  ASSUME LineInv, DoTest
  PROVE  LineInv'
<1>1. PICK script \in [1 .. MaxScript -> Lines] : pending' = script
  BY DEF DoTest
<1>2. /\ state = "reads" /\ lines + MaxScript <= MaxLines /\ lines' = lines + MaxScript
      /\ UNCHANGED <<state, mains, txn_, response_, tables, leftover, db_opens, global_txn_id,
                     asked, before, answer, whole, used, faults>>
  BY DEF DoTest
<1>3. pending' \in Seq(Lines) /\ Len(pending') = MaxScript
  BY <1>1, SessionAssumption
<1>4. lines \in Nat /\ MaxLines \in Nat /\ MaxScript \in Nat
  BY SessionAssumption DEF LineInv, Types
<1>5. Types'
  BY <1>2, <1>3, <1>4 DEF LineInv, Types, TypeOK
<1>6. AllAsAnswered' /\ response_' = NoAnswer
  BY <1>2, AnsweredKept DEF LineInv
<1> QED
  BY <1>2, <1>5, <1>6 DEF LineInv

\* The server exits.
LEMMA ExitStep ==
  ASSUME LineInv, Exit
  PROVE  LineInv'
BY DEF LineInv, Types, TypeOK, Exit, server, history

\* A line is taken from what is pending.
LEMMA SetSqlStep ==
  ASSUME LineInv, IInv, SetSql
  PROVE  LineInv'
<1>1. /\ state = "reads" /\ state' = "Parse" /\ pending # <<>>
      /\ mains' = [mains EXCEPT !.sql = Head(pending)] /\ pending' = Tail(pending)
      /\ asked' = Head(pending) /\ before' = tables
      /\ UNCHANGED <<txn_, response_, tables, leftover, db_opens, global_txn_id, lines, faults>>
  BY DEF SetSql
<1>2. pending \in Seq(Lines) /\ Len(pending) <= lines /\ lines \in Nat
  BY DEF LineInv, Types, TypeOK
<1>3. /\ pending' \in Seq(Lines) /\ Len(pending') <= lines /\ Head(pending) \in Lines
  BY <1>1, <1>2
<1>4. Types'
  BY <1>1, <1>3 DEF LineInv, Types, TypeOK
<1>5. mains'.sql = asked'
  BY <1>1 DEF IInv, TxnTypes
<1>6. IsLine(asked')
  BY <1>1, <1>3, SessionAssumption
<1>7. OnItsWay'
  BY <1>1, <1>5, <1>6 DEF LineInv, OnItsWay
<1> QED
  BY <1>1, <1>4, <1>7 DEF LineInv

\* A stage takes over the id of another.
LEMMA BaseSetBound ==
  ASSUME Types, IInv, NEW from \in Stages, NEW to \in Stages, BaseSet(from, to)
  PROVE  txn_' \in [Stages -> 0 .. global_txn_id]
BY DEF Types, TypeOK, IInv, TxnTypes, BaseSet

\* What a line without an answer of its own is told.
LEMMA SetToText ==
  ASSUME response_ = NoAnswer, NEW text
  PROVE  SetResponse(Text(text)) = Text(text) /\ Text(text).text = text
BY DEF SetResponse, NoAnswer, Text

\* The parse stage makes the query of the line.
LEMMA ParseLineStep ==
  ASSUME LineInv, IInv, ParseMain
  PROVE  LineInv'
<1> DEFINE query == SqlParse(mains.sql)
<1>1. state = "Parse" /\ OnItsWay /\ Types
  BY DEF ParseMain, LineInv
<1>2. response_ = NoAnswer /\ tables = before /\ mains.sql = asked /\ IsLine(asked)
  BY <1>1 DEF OnItsWay
<1>3. /\ BaseSet("Start", "Parse")
      /\ UNCHANGED <<pending, tables, leftover, db_opens, global_txn_id, asked, before, whole,
                     used, lines, faults>>
  BY DEF ParseMain
<1>4. txn_' \in [Stages -> 0 .. global_txn_id]
  BY <1>1, <1>3, BaseSetBound DEF Stages
<1>5. state' \in {"died", "reads", "Resolve"} => Types'
  BY <1>1, <1>3, <1>4 DEF Types, TypeOK
<1>6. CASE query = NullQuery
  <2>1. state' = "died"
    BY <1>6 DEF ParseMain, Dies
  <2> QED
    BY <1>5, <2>1 DEF LineInv
<1>7. CASE query # NullQuery /\ query = ErrorQuery
  <2> DEFINE r == Text("SQL PARSE FAILED.")
  <2>1. asked.error = TRUE
    <3>1. asked.error \in BOOLEAN
      BY <1>2 DEF IsLine
    <3>2. ASSUME asked.error = FALSE PROVE FALSE
      <4>1. Query \in QueriesOf(LastKind)
        BY <1>2, <1>7, <3>2, ParseTyped DEF Query, LastKind
      <4> QED
        BY <1>2, <1>7, <4>1, QueryKinds DEF Query
    <3> QED
      BY <3>1, <3>2
  <2>2. Respond(SetResponse(r))
    BY <1>7 DEF ParseMain
  <2>3. SetResponse(r) = r /\ r.text = "SQL PARSE FAILED."
    BY <1>2, SetToText
  <2> HIDE DEF r
  <2>4. state' = "reads" /\ response_' = NoAnswer /\ answer' = r
    BY <2>2, <2>3 DEF Respond, ResponseCleared
  <2>5. AnsweredForItself'
    BY <1>2, <1>3, <2>1, <2>3, <2>4 DEF AnsweredForItself
  <2>6. InsertedAsAnswered' /\ DeletedAsAnswered' /\ ShownAsMeant'
    BY <1>2, <1>3, <2>3, <2>4, SaysNothing DEF Done, AfterDelete
  <2> QED
    BY <1>5, <2>4, <2>5, <2>6 DEF LineInv, AllAsAnswered
<1>8. CASE query # NullQuery /\ query # ErrorQuery
  <2>1. state' = "Resolve" /\ mains' = [mains EXCEPT !.query = query] /\ response_' = response_
    BY <1>8 DEF ParseMain
  <2>2. asked.error = FALSE
    <3>1. asked.error \in BOOLEAN
      BY <1>2 DEF IsLine
    <3> QED
      BY <1>2, <1>8, <3>1 DEF SqlParse
  <2>3. Query \in QueriesOf(LastKind)
    BY <1>2, <1>8, <2>2, ParseTyped DEF Query, LastKind
  <2>4. mains'.query = Query
    BY <1>2, <2>1 DEF IInv, TxnTypes, Query
  <2>5. Query' = Query /\ LastKind' = LastKind
    BY <1>3 DEF Query, LastKind
  <2>6. OnItsWay'
    BY <1>2, <1>3, <2>1, <2>2, <2>3, <2>4, <2>5 DEF OnItsWay
  <2> QED
    BY <1>5, <2>1, <2>6 DEF LineInv
<1> QED
  BY <1>6, <1>7, <1>8

\* The resolve stage makes the statement of the query.
LEMMA ResolveLineStep ==
  ASSUME LineInv, IInv, ResolveMain
  PROVE  LineInv'
<1> DEFINE r == HandleStatement(tables, mains.query)
<1>1. state = "Resolve" /\ OnItsWay /\ Types
  BY DEF ResolveMain, LineInv
<1>2. /\ response_ = NoAnswer /\ tables = before /\ mains.query = Query /\ IsLine(asked)
      /\ asked.error = FALSE /\ Query \in QueriesOf(LastKind)
  BY <1>1 DEF OnItsWay
<1>3. UNCHANGED <<pending, tables, leftover, db_opens, asked, before, whole, used, lines, faults>>
  BY DEF ResolveMain
<1>4. txn_' \in [Stages -> 0 .. global_txn_id']
  <2>1. CASE BaseSet("Parse", "Resolve") /\ UNCHANGED global_txn_id
    BY <1>1, <2>1, BaseSetBound DEF Stages
  <2>2. CASE /\ txn_' = [txn_ EXCEPT !["Resolve"] = global_txn_id + 1]
             /\ global_txn_id' = global_txn_id + 1
    <3>1. global_txn_id \in Nat /\ txn_ \in [Stages -> 0 .. global_txn_id]
      BY <1>1 DEF Types, TypeOK, IInv, TxnTypes
    <3>2. \A i \in 0 .. global_txn_id : i \in 0 .. global_txn_id + 1
      BY <3>1
    <3>3. global_txn_id + 1 \in 0 .. global_txn_id + 1
      BY <3>1
    <3> QED
      BY <2>2, <3>1, <3>2, <3>3
  <2> QED
    BY <2>1, <2>2 DEF ResolveMain, ResolveTxn, NewTxn
<1>5. state' \in {"died", "reads", "Execute"} => Types'
  BY <1>1, <1>3, <1>4 DEF Types, TypeOK
<1>6. CASE ~db_opens
  <2> DEFINE a == Text("CAN NOT OPEN CURRENT DATABASE.")
  <2>1. Respond(SetResponse(a))
    BY <1>6 DEF ResolveMain
  <2>2. SetResponse(a) = a /\ a.text = "CAN NOT OPEN CURRENT DATABASE."
    BY <1>2, SetToText
  <2> HIDE DEF a
  <2>3. state' = "reads" /\ response_' = NoAnswer /\ answer' = a
    BY <2>1, <2>2 DEF Respond, ResponseCleared
  <2>4. AnsweredForItself'
    BY <1>2, <1>3, <1>6, <2>2, <2>3 DEF AnsweredForItself
  <2>5. InsertedAsAnswered' /\ DeletedAsAnswered' /\ ShownAsMeant'
    BY <1>2, <1>3, <2>2, <2>3, SaysNothing DEF Done, AfterDelete
  <2> QED
    BY <1>5, <2>3, <2>4, <2>5 DEF LineInv, AllAsAnswered
<1>7. CASE db_opens /\ HandleDies(mains.query)
  <2>1. state' = "died"
    BY <1>7 DEF ResolveMain, Dies
  <2> QED
    BY <1>5, <2>1 DEF LineInv
<1>8. Settled(r, LastKind)
  BY <1>2, AllSettled
<1> HIDE DEF r
<1>9. CASE db_opens /\ ~HandleDies(mains.query) /\ r.ok = TRUE
  <2>1. state' = "Execute" /\ mains' = [mains EXCEPT !.stmt = r.stmt] /\ response_' = response_
    BY <1>9 DEF ResolveMain, r
  <2>2. mains'.stmt = r.stmt
    BY <2>1 DEF IInv, TxnTypes
  <2>3. Query' = Query /\ LastKind' = LastKind
    BY <1>3 DEF Query, LastKind
  <2>4. r = HandleStatement(before, Query)
    BY <1>2 DEF r
  <2>5. OnItsWay'
    BY <1>2, <1>3, <1>9, <2>1, <2>2, <2>3, <2>4 DEF OnItsWay
  <2> QED
    BY <1>5, <2>1, <2>5 DEF LineInv
<1>10. CASE db_opens /\ ~HandleDies(mains.query) /\ r.ok = FALSE
  <2>1. PICK a : a = Text(r.text)
    OBVIOUS
  <2>2. Respond(SetResponse(a))
    BY <1>10, <2>1 DEF ResolveMain, r
  <2>3. SetResponse(a) = a /\ a.text = r.text
    BY <1>2, <2>1, SetToText
  <2>4. Respond(a)
    BY <2>2, <2>3
  <2>5. Types'
    BY <1>5, <2>4 DEF Respond
  <2>6. Did(a)'
    <3>1. Did(a)
      BY <1>2, <1>8, <1>10, <2>3, NothingDone DEF Settled
    <3> QED
      BY <1>3, <3>1, DidKept
  <2> QED
    BY <1>2, <1>3, <1>10, <2>4, <2>5, <2>6, Answers
<1> QED
  BY <1>6, <1>7, <1>8, <1>9, <1>10 DEF Settled

-----------------------------------------------------------------------------
(* The execute stage and the last one.                                     *)

\* What a statement that is executed was made of.
LEMMA AtExecute ==
  ASSUME LineInv, state = "Execute"
  PROVE  /\ Types /\ response_ = NoAnswer /\ tables = before /\ IsLine(asked)
         /\ asked.error = FALSE /\ db_opens
         /\ Query \in QueriesOf(LastKind) /\ LastKind \in Kinds /\ ~HandleDies(Query)
         /\ mains.stmt.scf = LastKind /\ HandleStatement(tables, Query).ok = TRUE
         /\ mains.stmt = HandleStatement(tables, Query).stmt
<1>1. /\ Types /\ response_ = NoAnswer /\ tables = before /\ IsLine(asked)
      /\ asked.error = FALSE /\ db_opens
      /\ Query \in QueriesOf(LastKind) /\ ~HandleDies(Query)
      /\ HandleStatement(tables, Query).ok = TRUE
      /\ mains.stmt = HandleStatement(tables, Query).stmt
  BY DEF LineInv, OnItsWay
<1>2. Settled(HandleStatement(tables, Query), LastKind) /\ LastKind \in Kinds
  BY <1>1, AllSettled
<1> QED
  BY <1>1, <1>2 DEF Settled

\* A line that goes on to the last stage.
LEMMA GoesOn ==
  ASSUME NEW r, state' = "Storage", response_' = r, UNCHANGED <<asked, before, db_opens>>,
         LineInv, state = "Execute", Types', Did(r)'
  PROVE  LineInv'
<1>1. IsLine(asked) /\ asked.error = FALSE /\ db_opens /\ Query \in QueriesOf(LastKind)
  BY AtExecute
<1>2. Query' = Query /\ LastKind' = LastKind
  BY DEF Query, LastKind
<1>3. Did(response_)'
  OBVIOUS
<1>4. OnItsWay'
  BY <1>1, <1>2, <1>3 DEF OnItsWay
<1> QED
  BY <1>4 DEF LineInv

\* Whether a statement succeeds or fails, what it sets is what is answered.
LEMMA Settles ==
  ASSUME NEW r, LineInv, state = "Execute", UNCHANGED <<asked, before, db_opens>>,
         \/ Succeeds(r) \/ Fails(r) \/ Respond(r)
         \/ state' = "Storage" /\ response_' = r,
         state' \in {"Storage", "reads"} => Types', Did(r)'
  PROVE  LineInv'
<1>1. response_ = NoAnswer /\ asked.error = FALSE /\ db_opens
  BY AtExecute
<1>2. SetResponse(r) = r
  BY <1>1 DEF SetResponse, NoAnswer, Text
<1>3. CASE Respond(r)
  <2>1. Types'
    BY <1>3 DEF Respond
  <2> QED
    BY <1>1, <1>3, <2>1, Answers
<1>4. CASE state' = "Storage" /\ response_' = r
  BY <1>4, GoesOn
<1> QED
  BY <1>2, <1>3, <1>4 DEF Succeeds, Fails

\* A line is one command of its last kind or of no kind.
LEMMA OnlyOne ==
  ASSUME NEW cmd, One(cmd)
  PROVE  cmd = LastKind
BY DEF One, LastKind, Command

\* Calls that fail are counted.
LEMMA FaultBound ==
  ASSUME Types, UNCHANGED faults \/ Fault
  PROVE  faults' \in Nat /\ faults' <= MaxFaults
<1>1. faults \in Nat /\ faults <= MaxFaults /\ MaxFaults \in Nat
  BY SessionAssumption DEF Types, TypeOK
<1> QED
  BY <1>1 DEF Fault

\* A statement that leaves the tables alone.
LEMMA QuietTypes ==
  ASSUME Types, state' \in {"Storage", "reads"},
         UNCHANGED <<pending, tables, leftover, lines>>,
         txn_' \in [Stages -> 0 .. global_txn_id'], UNCHANGED faults \/ Fault
  PROVE  Types'
<1>1. faults' \in Nat /\ faults' <= MaxFaults
  BY FaultBound
<1> QED
  BY <1>1 DEF Types, TypeOK

\* What a SELECT that runs shows, of the slots that are given.
ShowsMeant(table, stmt, c, slots) ==
  /\ SelectAnswer(table, stmt.fields, slots).header = Columns(table, c.attrs)
  /\ SelectAnswer(table, stmt.fields, slots).rows =
       LET order == ScanOrder(slots)
       IN  [i \in DOMAIN order |-> Shown(table, table.rows[order[i]], c.attrs)]

\* Where a SELECT of one table finds itself in the execute stage.
LEMMA AtSelect ==
  ASSUME LineInv, state = "Execute", mains.stmt.scf = "Select", One("Select"),
         Len(mains.stmt.tables) = 1, NEW t, t = Command.rels[1]
  PROVE  /\ mains.stmt.tables[1] = t /\ IsTable(tables[t]) /\ DOMAIN tables[t].rows \subseteq Slots
         /\ Sound(tables[t], Command.conds) =>
              \A kept \in LetThrough(tables[t], mains.stmt.filter) :
                kept = Meant(tables[t], Command.conds)
         /\ (\A i \in DOMAIN Command.attrs : NamesColumns(tables[t], Command.attrs[i])) =>
              \A slots \in SUBSET DOMAIN tables[t].rows :
                ShowsMeant(tables[t], mains.stmt, Command, slots)
<1>1. /\ Types /\ LastKind = "Select" /\ IsLine(asked) /\ asked.error = FALSE
      /\ Query \in QueriesOf("Select") /\ HandleStatement(tables, Query).ok = TRUE
      /\ mains.stmt = HandleStatement(tables, Query).stmt
  BY AtExecute
<1>2. PICK db, q, stmt, attrs, conds, rels :
        /\ db = tables /\ q = Query /\ stmt = mains.stmt
        /\ attrs = Command.attrs /\ conds = Command.conds /\ rels = Command.rels
  OBVIOUS
<1>3. /\ conds \in Seq(Conditions) /\ attrs \in Seq(RelAttrs) /\ rels \in Seq(Names)
      /\ q.attrs = Reverse(attrs) /\ q.rels = Reverse(rels) /\ q.conds = conds
  BY <1>1, <1>2, ParseSelect DEF One, Query, Command
<1>4. AttrOrder(q.attrs) = attrs
  BY <1>3, ReverseTwice DEF AttrOrder
<1>5. /\ ToSet(q.rels) \subseteq DOMAIN db
      /\ stmt.tables = q.rels
      /\ \A i \in DOMAIN attrs : SelectedFields(db, q.rels, attrs[i]).text = ""
      /\ stmt.fields = FlattenSeq([i \in DOMAIN attrs |-> SelectedFields(db, q.rels, attrs[i]).fields])
      /\ Len(q.rels) = 1 =>
           /\ FilterRe(db, q.rels[1], q.rels, q.conds) = "Success"
           /\ stmt.filter = CreateFilter(db, q.rels[1], q.rels, q.conds)
  <2>1. PICK r : r = HandleStatement(db, q) /\ r.ok = TRUE /\ r.stmt = stmt
    BY <1>1, <1>2
  <2>2. q \in QueriesOf("Select")
    BY <1>1, <1>2
  <2> QED
    <3>1. attrs = AttrOrder(q.attrs) /\ attrs \in Seq(RelAttrs)
      BY <1>3, <1>4
    <3>2. SelectOf(db, q, attrs, r.stmt)
      BY ONLY <2>1, <2>2, <3>1, SelectResolved
    <3> QED
      BY <2>1, <3>2 DEF SelectOf
<1>6. q.rels = <<t>> /\ t \in Names /\ Len(q.rels) = 1 /\ q.rels[1] = t
  <2>1. Len(q.rels) = 1
    BY <1>2, <1>5
  <2>2. Len(rels) = 1
    BY <1>3, <2>1, Reversed
  <2>3. Reverse(rels) = rels /\ rels = <<rels[1]>> /\ rels[1] \in Names
    <3>0. rels \in Seq(Names)
      BY <1>3
    <3>1. rels[1] \in Names
      BY ONLY <2>2, <3>0
    <3> QED
      BY <1>3, <2>2, <3>1, ReverseOne
  <2> QED
    BY <1>2, <1>3, <2>1, <2>3
<1>7. t \in DOMAIN db
  BY <1>5, <1>6, OneItem
<1>8. PICK table : table = db[t]
  OBVIOUS
<1>9. IsTable(table) /\ DOMAIN table.rows \subseteq Slots
  BY <1>1, <1>2, <1>7, <1>8 DEF Types, TypeOK
<1>10. Sound(table, conds) => \A kept \in LetThrough(table, stmt.filter) : kept = Meant(table, conds)
  <2>1. /\ IsTable(db[t]) /\ conds \in Seq(Conditions)
        /\ FilterRe(db, t, <<t>>, conds) = "Success"
        /\ stmt.filter = CreateFilter(db, t, <<t>>, conds)
    BY <1>3, <1>5, <1>6, <1>8, <1>9
  <2>2. \A kept \in LetThrough(db[t], CreateFilter(db, t, <<t>>, conds)) :
          Sound(db[t], conds) => kept = Meant(db[t], conds)
    BY ONLY <2>1, WhereMeant
  <2> QED
    BY <1>8, <2>1, <2>2
<1>11. ASSUME \A i \in DOMAIN attrs : NamesColumns(table, attrs[i]),
              NEW slots \in SUBSET DOMAIN table.rows
       PROVE  ShowsMeant(table, stmt, Command, slots)
  <2>1. PICK fields : fields = stmt.fields
    OBVIOUS
  <2>2. /\ t \in Names /\ table = db[t] /\ IsTable(table) /\ attrs \in Seq(RelAttrs)
        /\ \A i \in DOMAIN attrs : /\ SelectedFields(db, <<t>>, attrs[i]).text = ""
                                   /\ NamesColumns(table, attrs[i])
        /\ fields = FlattenSeq([i \in DOMAIN attrs |-> SelectedFields(db, <<t>>, attrs[i]).fields])
    BY <1>3, <1>5, <1>6, <1>8, <1>9, <1>11, <2>1
  <2>3. /\ [i \in DOMAIN fields |-> table.fields[fields[i].at].name] = Columns(table, attrs)
        /\ \A row : IsRow(table.fields, row) =>
             DescStrTuple(table, row, fields) = Shown(table, row, attrs)
    <3>1. ShowFor(fields, table, attrs)
      BY ONLY <2>2, SelectMeant
    <3> QED
      BY <3>1 DEF ShowFor
  <2>4. PICK order : order = ScanOrder(slots)
    OBVIOUS
  <2>5. \A i \in DOMAIN order : order[i] \in DOMAIN table.rows
    <3>1. slots \in SUBSET Slots
      BY <1>9
    <3>2. order \in [1 .. Cardinality(slots) -> slots]
      BY <2>4, <3>1, ScanOrdered
    <3> QED
      BY <3>2
  <2>6. \A i \in DOMAIN order : IsRow(table.fields, table.rows[order[i]])
    BY <1>9, <2>5 DEF IsTable
  <2>7. [i \in DOMAIN order |-> DescStrTuple(table, table.rows[order[i]], fields)] =
          [i \in DOMAIN order |-> Shown(table, table.rows[order[i]], attrs)]
    BY <2>3, <2>6
  <2>8. /\ SelectAnswer(table, fields, slots).header =
             [i \in DOMAIN fields |-> table.fields[fields[i].at].name]
        /\ SelectAnswer(table, fields, slots).rows =
             [i \in DOMAIN order |-> DescStrTuple(table, table.rows[order[i]], fields)]
    BY <2>4 DEF SelectAnswer
  <2> QED
    BY <1>2, <2>1, <2>3, <2>4, <2>7, <2>8 DEF ShowsMeant
<1> QED
  BY <1>2, <1>5, <1>6, <1>8, <1>9, <1>10, <1>11

\* A SELECT shows rows or fails.
LEMMA SelectLineStep ==
  ASSUME LineInv, IInv, DoSelect
  PROVE  LineInv'
<1>1. state = "Execute" /\ mains.stmt.scf = "Select"
  BY DEF DoSelect, Executes
<1>2. Types /\ LastKind = "Select" /\ tables = before
  BY <1>1, AtExecute
<1>3. /\ BaseSet("Resolve", "Execute")
      /\ UNCHANGED <<pending, tables, leftover, db_opens, global_txn_id, asked, before, lines>>
  BY DEF DoSelect
<1>4. txn_' \in [Stages -> 0 .. global_txn_id']
  BY <1>2, <1>3, BaseSetBound DEF Stages
<1>5. UNCHANGED faults \/ Fault
  BY DEF DoSelect, ScanEnds
<1>6. state' \in {"Storage", "reads"} => Types'
  BY <1>2, <1>3, <1>4, <1>5, QuietTypes
<1>7. PICK stmt : stmt = mains.stmt
  OBVIOUS
<1>8. CASE Len(stmt.tables) # 1
  <2>1. Fails(NoAnswer) /\ UNCHANGED whole
    BY <1>7, <1>8 DEF DoSelect
  <2>2. PICK r : r = NoAnswer
    OBVIOUS
  <2>3. r.text = ""
    BY <2>2 DEF NoAnswer, Text
  <2>4. Did(r)
    BY <1>2, <2>3, NothingDone DEF Done, AfterDelete
  <2>5. Did(r)'
    BY <1>3, <2>1, <2>4, DidKept
  <2> QED
    BY <1>1, <1>3, <1>6, <2>1, <2>2, <2>5, Settles
<1>9. CASE Len(stmt.tables) = 1
  <2>1. PICK table : table = tables[stmt.tables[1]]
    OBVIOUS
  <2>2. PICK kept \in LetThrough(table, stmt.filter), seen \in Beginnings :
          /\ whole' = (seen = Slots)
          /\ IF whole' THEN state' = "Storage" /\ response_' = SelectAnswer(table, stmt.fields, kept)
             ELSE Respond(SelectAnswer(table, stmt.fields, kept \cap seen))
    BY <1>7, <1>9, <2>1 DEF DoSelect, ScanEnds
  <2>3. PICK slots : slots = IF whole' THEN kept ELSE kept \cap seen
    OBVIOUS
  <2>4. PICK r : r = SelectAnswer(table, stmt.fields, slots)
    OBVIOUS
  <2>5. Respond(r) \/ (state' = "Storage" /\ response_' = r)
    BY <2>2, <2>3, <2>4
  <2>6. r.text = "rows"
    BY <2>4 DEF SelectAnswer
  <2>7. LastKind' = "Select" /\ Command' = Command /\ \A cmd : One(cmd)' = One(cmd)
    BY <1>2, <1>3 DEF LastKind, Command, One
  <2>8. OwnAnswer(r)'
    BY <1>2, <1>3, <2>6, <2>7 DEF OwnAnswer, TextsOf
  <2>9. ASSUME One("Select") PROVE SelectDid(r)'
    <3>1. PICK t : t = Command.rels[1]
      OBVIOUS
    <3>2. /\ stmt.tables[1] = t /\ IsTable(tables[t]) /\ DOMAIN tables[t].rows \subseteq Slots
          /\ Sound(tables[t], Command.conds) =>
               \A k \in LetThrough(tables[t], stmt.filter) : k = Meant(tables[t], Command.conds)
          /\ (\A i \in DOMAIN Command.attrs : NamesColumns(tables[t], Command.attrs[i])) =>
               \A s \in SUBSET DOMAIN tables[t].rows : ShowsMeant(tables[t], stmt, Command, s)
      BY <1>1, <1>7, <1>9, <2>9, <3>1, AtSelect
    <3>3. table = tables[t] /\ before'[t] = table
      BY <1>2, <1>3, <2>1, <3>2
    <3>4. kept \in SUBSET DOMAIN table.rows
      BY <2>2 DEF LetThrough
    <3>5. slots \in SUBSET DOMAIN table.rows /\ slots \in SUBSET Slots
      BY <2>3, <3>2, <3>3, <3>4
    <3>6. SUFFICES ASSUME Sound(table, Command.conds),
                          \A i \in DOMAIN Command.attrs : NamesColumns(table, Command.attrs[i])
                   PROVE  /\ IF whole' THEN slots = Meant(table, Command.conds)
                                       ELSE IsBeginning(slots, Meant(table, Command.conds))
                          /\ ShowsMeant(table, stmt, Command, slots)
      BY <2>4, <2>7, <3>1, <3>3, <3>5 DEF SelectDid, ShowsMeant
    <3>7. kept = Meant(table, Command.conds)
      BY <2>2, <3>2, <3>3, <3>6
    <3>8. ~whole' => IsBeginning(slots, kept)
      BY <2>2, <2>3 DEF IsBeginning
    <3> QED
      BY <2>3, <3>2, <3>3, <3>5, <3>6, <3>7, <3>8
  <2>10. Did(r)'
    BY <1>2, <2>7, <2>8, <2>9, OnlyOne DEF Did
  <2> QED
    BY <1>1, <1>3, <1>6, <2>5, <2>10, Settles
<1> QED
  BY <1>8, <1>9

\* CREATE INDEX and DROP TABLE leave the tables alone.
LEMMA CreateIndexLineStep ==
  ASSUME LineInv, IInv, DoCreateIndex \/ DropTable
  PROVE  LineInv'
<1>1. state = "Execute" /\ mains.stmt.scf \in {"CreateIndex", "DropTable"}
  BY DEF DoCreateIndex, DropTable, Executes
<1>2. Types /\ LastKind \in {"CreateIndex", "DropTable"} /\ tables = before
  BY <1>1, AtExecute
<1>3. /\ BaseSet("Resolve", "Execute")
      /\ UNCHANGED <<pending, tables, leftover, db_opens, global_txn_id, asked, before, whole,
                     lines, faults>>
  BY DEF DoCreateIndex, DropTable
<1>4. txn_' \in [Stages -> 0 .. global_txn_id']
  BY <1>2, <1>3, BaseSetBound DEF Stages
<1>5. PICK r : /\ Succeeds(r) \/ Fails(r)
               /\ r.text \in TextsOf(LastKind) \cup {""} /\ r.text \notin Done
  <2>1. CASE DoCreateIndex
    <3>1. mains.stmt.scf = "CreateIndex"
      BY <2>1 DEF DoCreateIndex, Executes
    <3>2. LastKind = "CreateIndex"
      BY <1>1, <3>1, AtExecute
    <3>3. PICK text \in {"CREATE INDEX SUCCEEDED.", "CREATE INDEX FAILED",
                         "CREATE INDEX FAILED,NO SUCH TABLE"} :
            Succeeds(Text(text)) \/ Fails(Text(text))
      BY <2>1 DEF DoCreateIndex
    <3>4. Text(text).text = text
      BY DEF Text
    <3>5. text \in TextsOf(LastKind) /\ text \notin Done
      BY <3>2 DEF TextsOf, Done, AfterDelete
    <3>6. PICK r : r = Text(text)
      OBVIOUS
    <3>7. Succeeds(r) \/ Fails(r)
      BY <3>3, <3>6
    <3>8. r.text \in TextsOf(LastKind) \cup {""} /\ r.text \notin Done
      BY <3>4, <3>5, <3>6
    <3> QED
      BY <3>7, <3>8
  <2>2. CASE DropTable
    <3>1. PICK r : r = NoAnswer
      OBVIOUS
    <3>2. Fails(r)
      BY <2>2, <3>1 DEF DropTable
    <3>3. r.text = "" /\ "" \notin Done
      BY <3>1 DEF NoAnswer, Text, Done, AfterDelete
    <3> QED
      BY <3>2, <3>3
  <2> QED
    BY <2>1, <2>2
<1>6. Did(r)'
  <2>1. Did(r)
    BY <1>2, <1>5, NothingDone DEF Done, AfterDelete
  <2> QED
    BY <1>3, <2>1, DidKept
<1>7. state' \in {"Storage", "reads"} => Types'
  BY <1>2, <1>3, <1>4, QuietTypes
<1> QED
  BY <1>1, <1>3, <1>5, <1>6, <1>7, Settles

\* CREATE TABLE makes one table or none.
LEMMA CreateTableLineStep ==
  ASSUME LineInv, IInv, DoCreateTable
  PROVE  LineInv'
<1> DEFINE q == mains.stmt
           made == [fields |-> <<TxnField>> \o q.attrs, rows |-> <<>>]
<1>1. state = "Execute" /\ q.scf = "CreateTable"
  BY DEF DoCreateTable, Executes
<1>2. /\ Types /\ LastKind = "CreateTable" /\ Query \in QueriesOf("CreateTable")
      /\ ~HandleDies(Query) /\ HandleStatement(tables, Query).ok = TRUE
      /\ q = HandleStatement(tables, Query).stmt
  BY <1>1, AtExecute
<1>3. q = Query /\ \A i \in DOMAIN q.attrs : IsFieldValid(q.attrs[i])
  BY <1>2, CreateTableSettled
<1>4. IsTable(made) /\ DOMAIN made.rows = {}
  BY <1>2, <1>3, TableMade
<1>5. /\ BaseSet("Resolve", "Execute")
      /\ UNCHANGED <<pending, db_opens, global_txn_id, asked, before, lines>>
  BY DEF DoCreateTable
<1>6. txn_' \in [Stages -> 0 .. global_txn_id']
  BY <1>2, <1>5, BaseSetBound DEF Stages
<1>7. PICK text \in {"CREATE TABLE SUCCEEDED.", "CREATE TABLE FAILED"} :
        Succeeds(Text(text)) \/ Fails(Text(text))
  BY DEF DoCreateTable
<1>8. Text(text).text = text /\ text \in TextsOf(LastKind)
  BY <1>2 DEF Text, TextsOf
<1>9. state' \in {"Storage", "reads"} => Types'
  <2> SUFFICES ASSUME state' \in {"Storage", "reads"} PROVE Types'
    OBVIOUS
  <2>1. CASE UNCHANGED <<tables, leftover, faults>>
    BY <1>2, <1>5, <1>6, <2>1, QuietTypes
  <2>2. CASE /\ q.rel \notin DOMAIN tables \cup leftover
             /\ tables' = [t \in DOMAIN tables \cup {q.rel} |-> IF t = q.rel THEN made ELSE tables[t]]
             /\ UNCHANGED <<leftover, faults>>
    <3> HIDE DEF made, q
    <3>1. \A t \in DOMAIN tables' : IsTable(tables'[t]) /\ DOMAIN tables'[t].rows \subseteq Slots
      BY <1>2, <1>4, <2>2 DEF Types, TypeOK
    <3>2. leftover' \cap DOMAIN tables' = {}
      BY <1>2, <2>2 DEF Types, TypeOK
    <3> QED
      BY <1>2, <1>5, <1>6, <2>2, <3>1, <3>2 DEF Types, TypeOK
  <2>3. CASE /\ q.rel \notin DOMAIN tables \cup leftover
             /\ Fault /\ leftover' = leftover \cup {q.rel} /\ UNCHANGED tables
    <3>1. leftover' \cap DOMAIN tables' = {}
      BY <1>2, <2>3 DEF Types, TypeOK
    <3>2. faults' \in Nat /\ faults' <= MaxFaults
      BY <1>2, <2>3, FaultBound
    <3> QED
      BY <1>2, <1>5, <1>6, <2>3, <3>1, <3>2 DEF Types, TypeOK
  <2> QED
    BY <2>1, <2>2, <2>3 DEF DoCreateTable
<1>10. Did(Text(text))'
  <2>1. LastKind' = "CreateTable"
    BY <1>2, <1>5 DEF LastKind
  <2>2. ~One("Insert")' /\ ~One("Delete")' /\ ~One("Select")'
    BY <2>1, <1>2, <1>5, OnlyOne DEF One, Command
  <2> QED
    BY <1>7, <1>8, <2>1, <2>2 DEF Did, OwnAnswer, TextsOf, Changing
<1>11. PICK r : r = Text(text)
  OBVIOUS
<1> QED
  BY <1>1, <1>5, <1>7, <1>9, <1>10, <1>11, Settles

\* The last stage gives the answer that is set.
LEMMA StorageLineStep ==
  ASSUME LineInv, IInv, StorageMain
  PROVE  LineInv'
<1>1. PICK r : r = response_
  OBVIOUS
<1>2. /\ state = "Storage" /\ Respond(r) /\ BaseSet("Execute", "Storage")
      /\ UNCHANGED <<pending, tables, leftover, db_opens, global_txn_id, asked, before, whole,
                     used, lines, faults>>
  BY <1>1 DEF StorageMain
<1>3. Types /\ asked.error = FALSE /\ db_opens /\ Did(r)
  BY <1>1, <1>2 DEF LineInv, OnItsWay
<1>4. Types'
  <2>1. txn_' \in [Stages -> 0 .. global_txn_id']
    BY <1>2, <1>3, BaseSetBound DEF Stages
  <2> QED
    BY <1>2, <1>3, <2>1, QuietTypes DEF Respond
<1>5. Did(r)'
  BY <1>2, <1>3, DidKept
<1> QED
  BY <1>2, <1>3, <1>4, <1>5, Answers

\* A table with other rows.
LEMMA RowsChanged ==
  ASSUME NEW t \in DOMAIN tables, NEW rows, Types,
         tables' = [tables EXCEPT ![t].rows = rows],
         DOMAIN rows \subseteq Slots, \A s \in DOMAIN rows : IsRow(tables[t].fields, rows[s])
  PROVE  /\ DOMAIN tables' = DOMAIN tables
         /\ \A u \in DOMAIN tables \ {t} : tables'[u] = tables[u]
         /\ tables'[t].fields = tables[t].fields /\ tables'[t].rows = rows
         /\ \A u \in DOMAIN tables' : IsTable(tables'[u]) /\ DOMAIN tables'[u].rows \subseteq Slots
<1>1. \A u \in DOMAIN tables : IsTable(tables[u]) /\ DOMAIN tables[u].rows \subseteq Slots
  BY DEF Types, TypeOK
<1>2. tables[t] = [fields |-> tables[t].fields, rows |-> tables[t].rows]
  BY <1>1 DEF IsTable
<1>3. /\ DOMAIN tables' = DOMAIN tables
      /\ \A u \in DOMAIN tables \ {t} : tables'[u] = tables[u]
      /\ tables'[t] = [tables[t] EXCEPT !.rows = rows]
  OBVIOUS
<1>4. tables'[t] = [fields |-> tables[t].fields, rows |-> rows]
  BY <1>2, <1>3
<1>5. tables'[t].fields = tables[t].fields /\ tables'[t].rows = rows
  BY <1>4
<1>6. IsTable(tables'[t])
  BY <1>1, <1>4, <1>5 DEF IsTable
<1> QED
  BY <1>1, <1>3, <1>5, <1>6

\* Where an INSERT finds itself in the execute stage.
LEMMA AtInsert ==
  ASSUME LineInv, IInv, state = "Execute", mains.stmt.scf = "Insert"
  PROVE  /\ LastKind = "Insert" /\ mains.stmt.table \in DOMAIN tables
         /\ Fits(mains.stmt.values, tables[mains.stmt.table])
         /\ One("Insert") => /\ mains.stmt.table = Command.rel
                         /\ mains.stmt.values = Command.values
<1>1. /\ Types /\ LastKind = "Insert" /\ IsLine(asked) /\ asked.error = FALSE
      /\ Query \in QueriesOf("Insert") /\ HandleStatement(tables, Query).ok = TRUE
      /\ mains.stmt = HandleStatement(tables, Query).stmt
  BY AtExecute
<1>2. /\ Query.rel \in DOMAIN tables
      /\ mains.stmt.table = Query.rel /\ mains.stmt.values = Query.values
      /\ Len(Query.values) = Len(Tail(tables[Query.rel].fields))
      /\ \A i \in DOMAIN Tail(tables[Query.rel].fields) :
           Query.values[i].type = Tail(tables[Query.rel].fields)[i].type
  <2>1. PICK q \in QueriesOf("Insert") : q = Query
    BY <1>1
  <2>2. PICK r : r = HandleStatement(tables, q)
    OBVIOUS
  <2>3. r.ok = TRUE =>
          /\ q.rel \in DOMAIN tables
          /\ r.stmt.table = q.rel /\ r.stmt.values = q.values
          /\ Len(q.values) = Len(Tail(tables[q.rel].fields))
          /\ \A i \in DOMAIN Tail(tables[q.rel].fields) :
               q.values[i].type = Tail(tables[q.rel].fields)[i].type
    BY ONLY <2>2, InsertSettled
  <2>4. r.ok = TRUE /\ r.stmt = mains.stmt
    BY <1>1, <2>1, <2>2
  <2> QED
    BY <2>1, <2>3, <2>4
<1>3. Query.values \in Seq(Values)
  BY <1>1 DEF QueriesOf, InsertQueries
<1>4. One("Insert") => Query.rel = Command.rel /\ Query.values = Command.values
  BY <1>1, ParseInsert DEF One, Query, Command
<1> QED
  BY <1>1, <1>2, <1>3, <1>4 DEF Fits

\* A record in its slot is one row more, with the values of the statement.
LEMMA PlacedRow ==
  ASSUME Types, IInv, NEW t \in DOMAIN tables, NEW slot \in FirstFree(tables[t]), NEW values,
         Fits(values, tables[t]), Placed(t, slot, values), txn_["Resolve"] \in 0 .. IntMax
  PROVE  /\ DOMAIN tables' = DOMAIN tables
         /\ \A u \in DOMAIN tables \ {t} : tables'[u] = tables[u]
         /\ DOMAIN tables[t].rows \subseteq DOMAIN tables'[t].rows
         /\ DOMAIN tables'[t].rows \ DOMAIN tables[t].rows = {slot}
         /\ \A s \in DOMAIN tables[t].rows : tables'[t].rows[s] = tables[t].rows[s]
         /\ \A i \in DOMAIN values :
              TextOf(tables'[t].fields[i + 1].type, tables'[t].rows[slot][i + 1]) =
                Given(tables'[t].fields[i + 1], values[i])
         /\ \A u \in DOMAIN tables' : IsTable(tables'[u]) /\ DOMAIN tables'[u].rows \subseteq Slots
<1> DEFINE row  == MakeRecord(tables[t], values, txn_["Resolve"])
           old  == tables[t].rows
           rows == [s \in DOMAIN old \cup {slot} |-> IF s = slot THEN row ELSE old[s]]
<1>1. slot \in Slots \ DOMAIN old
  BY DEF FirstFree
<1>2. IsTable(tables[t]) /\ DOMAIN old \subseteq Slots
  BY DEF Types, TypeOK
<1>3. txn_["Resolve"] \in 0 .. IntMax
  OBVIOUS
<1>4. /\ IsRow(tables[t].fields, row)
      /\ \A i \in DOMAIN values : TextOf(tables[t].fields[i + 1].type, row[i + 1]) =
                                    Given(tables[t].fields[i + 1], values[i])
  BY <1>2, <1>3, RowMade
<1>5. tables' = [tables EXCEPT ![t].rows = rows]
  BY DEF Placed
<1> HIDE DEF row
<1>6. DOMAIN rows = DOMAIN old \cup {slot} /\ rows[slot] = row
      /\ \A s \in DOMAIN old : rows[s] = old[s]
  BY <1>1
<1>7. \A s \in DOMAIN old : IsRow(tables[t].fields, old[s])
  BY <1>2 DEF IsTable
<1> HIDE DEF rows
<1>8. DOMAIN rows \subseteq Slots /\ \A s \in DOMAIN rows : IsRow(tables[t].fields, rows[s])
  BY <1>1, <1>2, <1>4, <1>6, <1>7
<1>9. /\ DOMAIN tables' = DOMAIN tables
      /\ \A u \in DOMAIN tables \ {t} : tables'[u] = tables[u]
      /\ tables'[t].fields = tables[t].fields /\ tables'[t].rows = rows
      /\ \A u \in DOMAIN tables' : IsTable(tables'[u]) /\ DOMAIN tables'[u].rows \subseteq Slots
  BY <1>5, <1>8, RowsChanged
<1>10. /\ DOMAIN old \subseteq DOMAIN tables'[t].rows
       /\ DOMAIN tables'[t].rows \ DOMAIN old = {slot}
  BY <1>1, <1>6, <1>9
<1> QED
  BY <1>4, <1>6, <1>9, <1>10

\* An INSERT places its record or fails.
LEMMA InsertLineStep ==
  ASSUME LineInv, IInv, IdsFit, DoInsert
  PROVE  LineInv'
<1>1. PICK t, values : t = mains.stmt.table /\ values = mains.stmt.values
  OBVIOUS
<1>2. state = "Execute" /\ mains.stmt.scf = "Insert"
  BY DEF DoInsert, Executes
<1>3. Types /\ LastKind = "Insert" /\ tables = before
  BY <1>2, AtExecute
<1>4. /\ t \in DOMAIN tables /\ Fits(values, tables[t])
      /\ One("Insert") => t = Command.rel /\ values = Command.values
  BY <1>1, <1>2, AtInsert
<1>5. UNCHANGED <<pending, leftover, db_opens, asked, before, whole, lines>>
  BY DEF DoInsert
<1>6. UNCHANGED faults \/ Fault
  BY DEF DoInsert
<1>7. faults' \in Nat /\ faults' <= MaxFaults
  BY <1>3, <1>6, FaultBound
<1>8. txn_' \in [Stages -> 0 .. global_txn_id']
  <2>1. CASE BaseSet("Resolve", "Execute") /\ UNCHANGED global_txn_id
    BY <1>3, <2>1, BaseSetBound DEF Stages
  <2>2. CASE NextCurrentId
    <3>1. global_txn_id \in Nat /\ txn_ \in [Stages -> 0 .. global_txn_id]
      BY <1>3 DEF Types, TypeOK, IInv, TxnTypes
    <3>2. \A i \in 0 .. global_txn_id : i \in 0 .. global_txn_id + 1
      BY <3>1
    <3>3. global_txn_id + 1 \in 0 .. global_txn_id + 1
      BY <3>1
    <3> QED
      BY <2>2, <3>1, <3>2, <3>3 DEF NextCurrentId
  <2> QED
    BY <2>1, <2>2 DEF DoInsert
<1>9. /\ LastKind' = "Insert" /\ Command' = Command
      /\ \A cmd : One(cmd)' = One(cmd)
  BY <1>3, <1>5 DEF LastKind, Command, One
<1>10. CASE /\ Fails(Text("INSERT FAILED,INSERT RECORD FAILED"))
            /\ UNCHANGED tables
  <2>1. PICK r : r = Text("INSERT FAILED,INSERT RECORD FAILED")
    OBVIOUS
  <2>2. r.text = "INSERT FAILED,INSERT RECORD FAILED"
    BY <2>1 DEF Text
  <2>3. Did(r)
    BY <1>3, <2>2, NothingDone DEF TextsOf, Done, AfterDelete
  <2>4. Did(r)'
    BY <1>5, <1>10, <2>3, DidKept
  <2>5. state' \in {"Storage", "reads"} => Types'
    BY <1>3, <1>5, <1>6, <1>8, <1>10, QuietTypes
  <2> QED
    BY <1>2, <1>5, <1>10, <2>1, <2>4, <2>5, Settles
<1>11. CASE \E slot \in FirstFree(tables[t]) : Placed(t, slot, values)
  <2>0. txn_["Resolve"] \in 0 .. IntMax
    BY <1>2, LastIdIsInt DEF IInv, InsertIsNewest
  <2>1. PICK slot \in FirstFree(tables[t]) : Placed(t, slot, values)
    BY <1>11
  <2>2. /\ DOMAIN tables' = DOMAIN tables
        /\ \A u \in DOMAIN tables \ {t} : tables'[u] = tables[u]
        /\ DOMAIN tables[t].rows \subseteq DOMAIN tables'[t].rows
        /\ DOMAIN tables'[t].rows \ DOMAIN tables[t].rows = {slot}
        /\ \A s \in DOMAIN tables[t].rows : tables'[t].rows[s] = tables[t].rows[s]
        /\ \A i \in DOMAIN values :
             TextOf(tables'[t].fields[i + 1].type, tables'[t].rows[slot][i + 1]) =
               Given(tables'[t].fields[i + 1], values[i])
        /\ \A u \in DOMAIN tables' : IsTable(tables'[u]) /\ DOMAIN tables'[u].rows \subseteq Slots
    BY <1>3, <1>4, <2>0, <2>1, PlacedRow
  <2>3. state' \in {"Storage", "reads"} => Types'
    BY <1>3, <1>5, <1>7, <1>8, <2>2 DEF Types, TypeOK
  <2>4. PICK text \in {"INSERT FAILED,INSERT RECORD FAILED", "INSERT FAILED,CAN NOT APPEND LOG",
                       "INSERT SUCCEEDED."} :
          Fails(Text(text)) \/ Succeeds(Text(text))
    BY DEF DoInsert
  <2>5. PICK r : r = Text(text)
    OBVIOUS
  <2>6. r.text = text
    BY <2>5 DEF Text
  <2>7. OwnAnswer(r)'
    BY <1>9, <2>4, <2>6 DEF OwnAnswer, TextsOf, Changing
  <2>8. Cardinality({slot}) = 1
    BY FS_Singleton
  <2>9. ASSUME One("Insert") PROVE InsertDid(r)'
    <3>1. Command'.rel = t /\ Command'.values = values
      BY <1>4, <1>9, <2>9
    <3>2. before' = tables
      BY <1>3, <1>5
    <3>3. Others(t)'
      BY <2>2, <3>2 DEF Others
    <3> QED
      BY <1>4, <2>2, <2>4, <2>6, <2>8, <3>1, <3>2, <3>3 DEF InsertDid
  <2>10. Did(r)'
    BY <1>3, <1>9, <2>7, <2>9, OnlyOne DEF Did
  <2> QED
    BY <1>2, <1>5, <2>3, <2>4, <2>5, <2>10, Settles
<1> QED
  BY <1>1, <1>10, <1>11 DEF DoInsert

\* Where a DELETE finds itself in the execute stage.
LEMMA AtDelete ==
  ASSUME LineInv, state = "Execute", mains.stmt.scf = "Delete"
  PROVE  /\ LastKind = "Delete" /\ mains.stmt.table \in DOMAIN tables
         /\ One("Delete") =>
              /\ mains.stmt.table = Command.rel
              /\ \A kept \in LetThrough(tables[Command.rel], mains.stmt.filter) :
                   Sound(tables[Command.rel], Command.conds) =>
                     kept = Meant(tables[Command.rel], Command.conds)
<1>1. /\ Types /\ LastKind = "Delete" /\ IsLine(asked) /\ asked.error = FALSE
      /\ Query \in QueriesOf("Delete") /\ HandleStatement(tables, Query).ok = TRUE
      /\ mains.stmt = HandleStatement(tables, Query).stmt
  BY AtExecute
<1>2. /\ Query.rel \in DOMAIN tables
      /\ mains.stmt.table = Query.rel
      /\ mains.stmt.filter = CreateFilter(tables, Query.rel, <<Query.rel>>, Query.conds)
      /\ FilterRe(tables, Query.rel, <<Query.rel>>, Query.conds) = "Success"
  <2>1. PICK q \in QueriesOf("Delete") : q = Query
    BY <1>1
  <2>2. PICK r : r = HandleStatement(tables, q)
    OBVIOUS
  <2>3. r.ok = TRUE =>
          /\ q.rel \in DOMAIN tables
          /\ r.stmt.table = q.rel
          /\ r.stmt.filter = CreateFilter(tables, q.rel, <<q.rel>>, q.conds)
          /\ FilterRe(tables, q.rel, <<q.rel>>, q.conds) = "Success"
    BY ONLY <2>1, <2>2, DeleteSettled
  <2>4. r.ok = TRUE /\ r.stmt = mains.stmt
    BY <1>1, <2>1, <2>2
  <2> QED
    BY <2>1, <2>3, <2>4
<1>3. ASSUME One("Delete")
      PROVE  /\ mains.stmt.table = Command.rel
             /\ \A kept \in LetThrough(tables[Command.rel], mains.stmt.filter) :
                  Sound(tables[Command.rel], Command.conds) =>
                    kept = Meant(tables[Command.rel], Command.conds)
  <2>1. /\ Command.conds \in Seq(Conditions)
        /\ Query.rel = Command.rel /\ Query.conds = Command.conds
    BY <1>1, <1>3, ParseDelete DEF One, Query, Command
  <2>2. PICK t, conds, db : t = Command.rel /\ conds = Command.conds /\ db = tables
    OBVIOUS
  <2>3. /\ IsTable(db[t]) /\ conds \in Seq(Conditions)
        /\ FilterRe(db, t, <<t>>, conds) = "Success"
        /\ mains.stmt.filter = CreateFilter(db, t, <<t>>, conds)
    BY <1>1, <1>2, <2>1, <2>2 DEF Types, TypeOK
  <2>4. \A kept \in LetThrough(db[t], CreateFilter(db, t, <<t>>, conds)) :
          Sound(db[t], conds) => kept = Meant(db[t], conds)
    BY ONLY <2>3, WhereMeant
  <2> QED
    BY <1>2, <2>1, <2>2, <2>3, <2>4
<1> QED
  BY <1>1, <1>2, <1>3

\* A DELETE takes rows away.
LEMMA DeleteLineStep ==
  ASSUME LineInv, IInv, DoDelete
  PROVE  LineInv'
<1>0. PICK t, old : t = mains.stmt.table /\ old = tables[t].rows
  OBVIOUS
<1>1. state = "Execute" /\ mains.stmt.scf = "Delete"
  BY DEF DoDelete, Executes
<1>2. Types /\ LastKind = "Delete" /\ tables = before
  BY <1>1, AtExecute
<1>3. /\ t \in DOMAIN tables
      /\ One("Delete") => /\ t = Command.rel
                          /\ \A kept \in LetThrough(tables[t], mains.stmt.filter) :
                               Sound(tables[t], Command.conds) =>
                                 kept = Meant(tables[t], Command.conds)
  BY <1>0, <1>1, AtDelete
<1>4. UNCHANGED <<pending, leftover, db_opens, asked, before, lines>>
  BY DEF DoDelete
<1>5. UNCHANGED faults \/ Fault
  BY DEF DoDelete, ScanEnds
<1>6. faults' \in Nat /\ faults' <= MaxFaults
  BY <1>2, <1>5, FaultBound
<1>7. txn_' \in [Stages -> 0 .. global_txn_id']
  <2>1. PICK id \in {global_txn_id + 1, global_txn_id + 2} :
          txn_' = [txn_ EXCEPT !["Execute"] = id] /\ global_txn_id' = id
    <3>1. global_txn_id \in Nat
      BY DEF IInv, TxnTypes
    <3>2. NewTxn = global_txn_id + 1 /\ NewTxn + 1 = global_txn_id + 2
      BY <3>1 DEF NewTxn
    <3> QED
      BY <3>2 DEF DoDelete
  <2>2. global_txn_id \in Nat /\ txn_ \in [Stages -> 0 .. global_txn_id]
    BY <1>2 DEF Types, TypeOK, IInv, TxnTypes
  <2>3. id \in 0 .. id /\ \A i \in 0 .. global_txn_id : i \in 0 .. id
    BY <2>1, <2>2
  <2> QED
    BY <2>1, <2>2, <2>3
<1>8. PICK kept \in LetThrough(tables[t], mains.stmt.filter), seen \in Beginnings :
        /\ Without(t, kept \cap seen)
        /\ \/ whole' = (seen = Slots) /\ Succeeds(Deleted(kept \cap seen))
           \/ Fails(Text("DELETE FAILED,HANDLE OPERATOR FAILED."))
           \/ seen = Slots /\ Respond(Text("DELETE FAILED,CAN NOT APPEND LOG.")) /\ UNCHANGED whole
  BY <1>0 DEF DoDelete, ScanEnds
<1>9. PICK gone : gone = kept \cap seen
  OBVIOUS
<1>10. /\ gone \subseteq DOMAIN old /\ kept \subseteq Slots
       /\ IsTable(tables[t]) /\ DOMAIN old \subseteq Slots
  BY <1>0, <1>2, <1>3, <1>9 DEF LetThrough, Types, TypeOK
<1>11. /\ DOMAIN tables' = DOMAIN tables
       /\ \A u \in DOMAIN tables \ {t} : tables'[u] = tables[u]
       /\ DOMAIN tables'[t].rows = DOMAIN old \ gone
       /\ \A s \in DOMAIN tables'[t].rows : tables'[t].rows[s] = old[s]
       /\ \A u \in DOMAIN tables' : IsTable(tables'[u]) /\ DOMAIN tables'[u].rows \subseteq Slots
  <2> DEFINE rows == [s \in DOMAIN old \ gone |-> old[s]]
  <2>1. tables' = [tables EXCEPT ![t].rows = rows]
    BY <1>0, <1>8, <1>9 DEF Without
  <2>2. DOMAIN rows = DOMAIN old \ gone /\ \A s \in DOMAIN rows : rows[s] = old[s]
    OBVIOUS
  <2>3. \A s \in DOMAIN old : IsRow(tables[t].fields, old[s])
    BY <1>0, <1>10 DEF IsTable
  <2> HIDE DEF rows
  <2>4. DOMAIN rows \subseteq Slots /\ \A s \in DOMAIN rows : IsRow(tables[t].fields, rows[s])
    BY <1>10, <2>2, <2>3
  <2>5. /\ DOMAIN tables' = DOMAIN tables
        /\ \A u \in DOMAIN tables \ {t} : tables'[u] = tables[u]
        /\ tables'[t].rows = rows
        /\ \A u \in DOMAIN tables' : IsTable(tables'[u]) /\ DOMAIN tables'[u].rows \subseteq Slots
    BY <1>2, <1>3, <2>1, <2>4, RowsChanged
  <2> QED
    BY <2>2, <2>5
<1>12. state' \in {"Storage", "reads"} => Types'
  BY <1>2, <1>4, <1>6, <1>7, <1>11 DEF Types, TypeOK
<1>13. PICK r : /\ Succeeds(r) \/ Fails(r) \/ Respond(r)
                /\ \/ /\ r.text = "DELETE SUCCEEDED" /\ r.count = Cardinality(gone)
                      /\ whole' = (seen = Slots)
                   \/ r.text = "DELETE FAILED,HANDLE OPERATOR FAILED."
                   \/ r.text = "DELETE FAILED,CAN NOT APPEND LOG." /\ seen = Slots
  <2>1. \A s : Deleted(s).text = "DELETE SUCCEEDED" /\ Deleted(s).count = Cardinality(s)
    BY DEF Deleted, Text
  <2>2. \A text : Text(text).text = text
    BY DEF Text
  <2> QED
    BY <1>8, <1>9, <2>1, <2>2
<1>14. LastKind' = "Delete" /\ Command' = Command /\ \A cmd : One(cmd)' = One(cmd)
  BY <1>2, <1>4 DEF LastKind, Command, One
<1>15. OwnAnswer(r)'
  BY <1>13, <1>14 DEF OwnAnswer, TextsOf, Changing, AfterDelete
<1>16. ASSUME One("Delete") PROVE DeleteDid(r)'
  <2>1. before' = tables /\ t = Command.rel
    BY <1>2, <1>3, <1>4, <1>16
  <2>2. Others(t)' /\ Remains(t)'
    BY <1>0, <1>11, <2>1 DEF Others, Remains
  <2>3. DOMAIN tables[t].rows \ DOMAIN tables'[t].rows = gone
    BY <1>0, <1>10, <1>11
  <2>4. ASSUME Sound(tables[t], Command.conds)
        PROVE  IF whole' /\ r.text # "DELETE FAILED,HANDLE OPERATOR FAILED."
               THEN gone = Meant(tables[t], Command.conds)
               ELSE IsBeginning(gone, Meant(tables[t], Command.conds))
    <3>1. kept = Meant(tables[t], Command.conds)
      BY <1>3, <1>8, <1>16, <2>4
    <3>2. IsBeginning(gone, kept)
      BY <1>8, <1>9 DEF IsBeginning
    <3>3. seen = Slots => gone = kept
      BY <1>9, <1>10
    <3> QED
      BY <1>13, <3>1, <3>2, <3>3
  <2> QED
    BY <1>3, <1>11, <1>13, <1>14, <2>1, <2>2, <2>3, <2>4 DEF DeleteDid, AfterDelete
<1>17. Did(r)'
  BY <1>2, <1>14, <1>15, <1>16, OnlyOne DEF Did
<1> QED
  BY <1>1, <1>4, <1>12, <1>13, <1>17, Settles

\* Every step keeps the invariant.
LEMMA NextLineInv == LineInv /\ IInv /\ IdsFit /\ [Next]_vars => LineInv'
<1> SUFFICES ASSUME LineInv, IInv, IdsFit, [Next]_vars PROVE LineInv'
  OBVIOUS
<1>1. CASE UNCHANGED vars \/ Stopped
  BY <1>1, QuietLine DEF Stopped
<1>2. CASE TypesLine \/ DoTest \/ Exit \/ SetSql
  BY <1>2, TypesLineStep, DoTestStep, ExitStep, SetSqlStep
<1>3. CASE ParseMain \/ ResolveMain \/ StorageMain
  BY <1>3, ParseLineStep, ResolveLineStep, StorageLineStep
<1>4. CASE DoSelect \/ DoCreateTable \/ DoCreateIndex \/ DropTable
  BY <1>4, SelectLineStep, CreateTableLineStep, CreateIndexLineStep
<1>5. CASE DoInsert \/ DoDelete
  BY <1>5, InsertLineStep, DeleteLineStep
<1> QED
  BY <1>1, <1>2, <1>3, <1>4, <1>5 DEF Next, ExecuteMain

\* The invariant of a line on its way: in every state of every behaviour the query,
\* the statement, the tables and the answer are those of the line that was asked.
THEOREM LinesAreHandled == Spec => []LineInv
<1> QED
  BY InitLineInv, NextLineInv, IdsHandedOut, IdsAreInts, PTL DEF Spec

\* Every part of the server has its type, and every row of every table is one of
\* its fields, for all lines the grammar has.
THEOREM LinesAreTyped == Spec => []TypeOK
<1>1. LineInv => TypeOK
  BY DEF LineInv, Types
<1> QED
  BY LinesAreHandled, <1>1, PTL

\* No line is answered with the answer of another, and lines that only look
\* change no table.
THEOREM AnswersAreOwn == Spec => []AnsweredForItself
<1>1. LineInv => AnsweredForItself
  BY DEF LineInv, AllAsAnswered, AnsweredForItself
<1> QED
  BY LinesAreHandled, <1>1, PTL

\* An INSERT that says it succeeded has added one row with its values; one that
\* failed has added none or one, with its values; no other row is touched.
THEOREM InsertsDoAsAnswered == Spec => []InsertedAsAnswered
<1>1. LineInv => InsertedAsAnswered
  BY DEF LineInv, AllAsAnswered, InsertedAsAnswered, Answered
<1> QED
  BY LinesAreHandled, <1>1, PTL

\* A DELETE takes away the rows its WHERE is true of, or a beginning of them, and no
\* others; its answer counts them.
THEOREM DeletesDoAsAnswered == Spec => []DeletedAsAnswered
<1>1. LineInv => DeletedAsAnswered
  BY DEF LineInv, AllAsAnswered, DeletedAsAnswered, Answered
<1> QED
  BY LinesAreHandled, <1>1, PTL

\* A SELECT shows, in the order of the file and under the names of the columns, what it
\* was asked for of the rows its WHERE is true of.
THEOREM SelectsShowAsMeant == Spec => []ShownAsMeant
<1>1. LineInv => ShownAsMeant
  BY DEF LineInv, AllAsAnswered, ShownAsMeant, Answered
<1> QED
  BY LinesAreHandled, <1>1, PTL

=============================================================================
