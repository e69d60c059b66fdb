----------------------------- MODULE TableStore -----------------------------
(***************************************************************************)
(* One table, storage/table.cpp and txn.cpp: its records, the indexes made *)
(* for it, the transaction of the statement that runs and the redo log the *)
(* statement writes.  INSERT and CREATE INDEX are steps of their own;      *)
(* DELETE takes a step for each record it finds.  The record file and the  *)
(* trees below are taken at their word (see RecordFile and BplusTree) but  *)
(* for one call in a statement that the buffer pool may refuse.            *)
(***************************************************************************)
EXTENDS Integers, Sequences, FiniteSets, SequencesExt

CONSTANTS
  Fields,         \* fields of the table
  Values,         \* what a field may hold
  Rids,           \* places of the data file, <<page, slot>>
  IndexNames,     \* names a CREATE INDEX may give
  LogRoom,        \* records the log buffer takes before it is full
  MaxStatements,  \* bound: statements of a run
  MaxFaults       \* bound: calls the buffer pool refuses

ASSUME TableAssumption ==
  /\ Rids \subseteq Nat \X Nat
  /\ Values \subseteq Int
  /\ LogRoom \in Nat \ {0}
  /\ MaxStatements \in Nat /\ MaxFaults \in Nat

VARIABLES
  rows,           \* records of the data file, by rid
  indexes_,       \* Table::indexes_
  files,          \* names of indexes that have a file
  log,            \* records appended to the log in this process
  synced,         \* how many of them are in its file
  global_txn_id,  \* Txn::global_txn_id
  del,            \* the DELETE that runs
  answer,         \* what the last statement was told
  loaded,         \* history variables: the records at the start of the process,
  acked, late,    \*   transactions answered SUCCEEDED, and those whose commit
                  \*   met a full buffer,
  stray,          \*   records whose removal by a rollback was refused,
  blurred, hurt,  \*   whether two records got keys that compare equal, and
                  \*   whether the pool refused a removal,
  statements, faults

history == <<loaded, acked, late, stray, blurred, hurt, statements, faults>>
vars == <<rows, indexes_, files, log, synced, global_txn_id, del, answer, history>>

Row == [val : [Fields -> Values], txn : Nat]

\* A record of the log; row is what RedoInsert carries.
RedoInsert(id, rid, row) == [type |-> "RedoInsert", txn |-> id, rid |-> rid, row |-> row]
RedoDelete(id, rid)      == [type |-> "RedoDelete", txn |-> id, rid |-> rid]
Commit(id)               == [type |-> "RedoMiniTxnCommit", txn |-> id]

LogRecord ==
  [type : {"RedoInsert"}, txn : Nat, rid : Rids, row : Row]
    \cup [type : {"RedoDelete"}, txn : Nat, rid : Rids]
    \cup [type : {"RedoMiniTxnCommit"}, txn : Nat]

-----------------------------------------------------------------------------
(* An index: the entries of a tree that is one leaf, in their order. *)

RidCompare(a, b) == IF a[1] - b[1] = 0 THEN a[1] - b[1] ELSE a[2] - b[2]
KeyCompare(k, l) == IF k.attr # l.attr THEN k.attr - l.attr ELSE RidCompare(k.rid, l.rid)

\* FindLowerBound: binary search by a comparison that is no order
LowerBound(keys, key) ==
  LET lb[r \in Nat \X (0 .. Len(keys))] ==
        LET first == r[1]
            count == r[2]
            step  == count \div 2
            c     == KeyCompare(keys[first + step], key)
        IN  IF count = 0 THEN [at |-> first, found |-> FALSE]
            ELSE IF c = 0 THEN [at |-> first + step, found |-> TRUE]
            ELSE IF c < 0 THEN lb[<<first + step + 1, count - step - 1>>]
            ELSE lb[<<first, step>>]
  IN  lb[<<1, Len(keys)>>]

EntryOf(ix, row, rid) == [attr |-> row.val[ix.field], rid |-> rid]
Holds(ix, row, rid)   == LowerBound(ix.entries, EntryOf(ix, row, rid)).found

Entered(ix, row, rid) ==
  LET key == EntryOf(ix, row, rid)
  IN  [ix EXCEPT !.entries = InsertAt(@, LowerBound(@, key).at, key)]

Removed(ix, row, rid) ==
  [ix EXCEPT !.entries = RemoveAt(@, LowerBound(@, EntryOf(ix, row, rid)).at)]

\* the first index at which stop holds, or one more than there are
FirstStop(ixs, Stop(_)) ==
  IF \E i \in DOMAIN ixs : Stop(i)
  THEN CHOOSE i \in DOMAIN ixs : Stop(i) /\ \A j \in DOMAIN ixs : Stop(j) => i <= j
  ELSE Len(ixs) + 1

\* InsertEntryOfIndexes and DeleteEntryOfIndexes: up to the first index that
\* refuses, or whose call number fault finds no frame
InsertStop(ixs, row, rid, fault) ==
  FirstStop(ixs, LAMBDA i : Holds(ixs[i], row, rid) \/ i = fault)

InsertEntryOfIndexes(ixs, row, rid, fault) ==
  [i \in DOMAIN ixs |-> IF i < InsertStop(ixs, row, rid, fault)
                        THEN Entered(ixs[i], row, rid) ELSE ixs[i]]

DeleteStop(ixs, row, rid, fault) ==
  FirstStop(ixs, LAMBDA i : ~Holds(ixs[i], row, rid) \/ i = fault)

DeleteEntryOfIndexes(ixs, row, rid, fault) ==
  [i \in DOMAIN ixs |-> IF i < DeleteStop(ixs, row, rid, fault)
                        THEN Removed(ixs[i], row, rid) ELSE ixs[i]]

Complete(stop, ixs) == stop > Len(ixs)

-----------------------------------------------------------------------------
(* The log: CLogManager::AppendRecord on [log, synced]. *)

LogFull(clog) == Len(clog.log) - clog.synced >= LogRoom

\* mutant: a commit stays in the buffer
AppendRecord_NoSync(clog, rec) ==
  [log |-> Append(clog.log, rec), synced |-> IF LogFull(clog) THEN Len(clog.log) ELSE clog.synced]

\* mutant: the rest of the record is forgotten after the flush
AppendRecord_NoRest(clog, rec) ==
  [log |-> IF LogFull(clog) THEN clog.log ELSE Append(clog.log, rec),
   synced |-> IF rec.type = "RedoMiniTxnCommit" THEN Len(clog.log) + 1 ELSE clog.synced]

\* A full buffer is flushed before the rest of the record goes in; a commit
\* that went in is flushed at once.
AppendRecord(clog, rec) ==
  [log |-> Append(clog.log, rec),
   synced |-> IF LogFull(clog) THEN Len(clog.log)
              ELSE IF rec.type = "RedoMiniTxnCommit" THEN Len(clog.log) + 1
              ELSE clog.synced]

CLog == [log |-> log, synced |-> synced]
SetCLog(clog) == log' = clog.log /\ synced' = clog.synced

-----------------------------------------------------------------------------
(* Statements. *)

NoDelete == [on |-> FALSE, txn |-> 0, left |-> {}]
Started  == ~del.on /\ statements < MaxStatements /\ statements' = statements + 1

\* The call of a statement that the pool refuses a frame, if one.
NoFault == [at |-> "none", i |-> 0]
Fault   == {NoFault} \cup
           [at : {"record", "undo"}, i : {0}] \cup
           [at : {"entry", "undo entry"}, i : 1 .. Cardinality(IndexNames)]

Counted(fault) == /\ fault # NoFault => faults < MaxFaults
                  /\ faults' = IF fault = NoFault THEN faults ELSE faults + 1

\* The index whose call the fault is about; 0 is none.
FaultAt(fault, at) == IF fault.at = at THEN fault.i ELSE 0

\* the places RecordPageHandler::InsertRecord may take: the first free one of a page
FreeSlots ==
  {rid \in Rids \ DOMAIN rows :
     \A s \in Rids \ DOMAIN rows : s[1] = rid[1] => rid[2] <= s[2]}

Placed(rid, row) == [r \in DOMAIN rows \cup {rid} |-> IF r = rid THEN row ELSE rows[r]]
Without(rid)     == [r \in DOMAIN rows \ {rid} |-> rows[r]]

Blurs(row, rid) ==
  \E r \in DOMAIN rows, f \in Fields : rows[r].val[f] = row.val[f] /\ RidCompare(r, rid) = 0

\* InsertStatement::Handle makes a Txn, whose constructor takes the next id.
NewTxn == global_txn_id + 1

\* mutant: a commit sets the global id back to the default
NextCurrentId_Default(id) == 0

\* the global id when a transaction has committed: the next one is taken for it
NextCurrentId(id) == id + 1

\* What ends INSERT and DELETE: the commit record, and the answer.
CommitTxn(id, clog) ==
  /\ SetCLog(AppendRecord(clog, Commit(id)))
  /\ IF LogFull(clog)
     THEN /\ answer' = "FAILED" /\ late' = late \cup {id}
          /\ UNCHANGED acked /\ global_txn_id' = id
     ELSE /\ answer' = "SUCCEEDED" /\ acked' = acked \cup {id}
          /\ UNCHANGED late /\ global_txn_id' = NextCurrentId(id)

\* A statement that ends before its commit.
Fails(id, clog) == /\ SetCLog(clog)
                   /\ answer' = "FAILED"
                   /\ global_txn_id' = id
                   /\ UNCHANGED <<acked, late>>

\* An INSERT that gets no place: InsertRecord of the record file fails.
InsertFindsNoPlace ==
  /\ Started
  /\ \E fault \in {NoFault, [at |-> "record", i |-> 0]} :
       /\ fault = NoFault => DOMAIN rows = Rids
       /\ Counted(fault)
  /\ Fails(NewTxn, CLog)
  /\ UNCHANGED <<rows, indexes_, files, del, loaded, stray, blurred, hurt>>

\* mutant: what the indexes before the refusing one took stays
AfterRollback_KeepsEntries(entered, row, rid, fault) == entered

\* the indexes when DeleteEntryOfIndexes has taken the entries back
AfterRollback(entered, row, rid, fault) ==
  DeleteEntryOfIndexes(entered, row, rid, FaultAt(fault, "undo entry"))

\* An index refuses the record, because an entry compares equal or for want of
\* a frame: the entries are taken back and then the record, as far as the calls
\* succeed; nothing is logged.
InsertRefused(row, rid, fault) ==
  LET stop    == InsertStop(indexes_, row, rid, FaultAt(fault, "entry"))
      entered == InsertEntryOfIndexes(indexes_, row, rid, FaultAt(fault, "entry"))
      undone  == DeleteStop(entered, row, rid, FaultAt(fault, "undo entry"))
  IN  /\ ~Complete(stop, indexes_)
      /\ fault.at = "entry" => stop = fault.i
      /\ fault.at = "undo entry" => undone = fault.i
      /\ indexes_' = AfterRollback(entered, row, rid, fault)
      /\ rows' = IF fault.at = "undo" THEN Placed(rid, row) ELSE rows
      /\ stray' = IF fault.at = "undo" THEN stray \cup {rid} ELSE stray
      /\ hurt' = (hurt \/ fault.at \in {"undo", "undo entry"})
      /\ Fails(row.txn, CLog)

\* The record and its entries are in: RedoInsert, and then the commit.  A full
\* buffer ends the statement with the record in place.
InsertAccepted(row, rid) ==
  LET clog == AppendRecord(CLog, RedoInsert(row.txn, rid, row))
  IN  /\ Complete(InsertStop(indexes_, row, rid, 0), indexes_)
      /\ rows' = Placed(rid, row)
      /\ stray' = stray \ {rid}
      /\ indexes_' = InsertEntryOfIndexes(indexes_, row, rid, 0)
      /\ IF LogFull(CLog) THEN Fails(row.txn, clog) ELSE CommitTxn(row.txn, clog)
      /\ UNCHANGED hurt

Insert ==
  \E val \in [Fields -> Values], rid \in FreeSlots, fault \in Fault :
    LET row == [val |-> val, txn |-> NewTxn]
    IN  /\ Started
        /\ fault.at # "record"
        /\ Counted(fault)
        /\ \/ InsertRefused(row, rid, fault)
           \/ fault = NoFault /\ InsertAccepted(row, rid)
        /\ blurred' = (blurred \/ Blurs(row, rid))
        /\ UNCHANGED <<files, del, loaded>>

-----------------------------------------------------------------------------
(* DELETE: the operators over a scan, one record at a time. *)

\* The records a predicate lets through: all, or those with one value in a field.
Chosen == {DOMAIN rows} \cup
          {{rid \in DOMAIN rows : rows[rid].val[f] = v} : f \in Fields, v \in Values}

BeginDelete ==
  /\ Started
  /\ \E left \in Chosen : del' = [on |-> TRUE, txn |-> NewTxn, left |-> left]
  /\ global_txn_id' = NewTxn
  /\ UNCHANGED <<rows, indexes_, files, log, synced, answer, loaded, acked, late, stray,
                 blurred, hurt, faults>>

Before(a, b) == a[1] < b[1] \/ (a[1] = b[1] /\ a[2] < b[2])

\* An index does not have the entry, or the pool refuses a call: DELETE ends
\* there.  With the record the entries of the first indexes may be gone.
DeleteRefused(rid, fault) ==
  LET stop == DeleteStop(indexes_, rows[rid], rid, FaultAt(fault, "entry"))
  IN  /\ \/ ~Complete(stop, indexes_) /\ fault.at \in {"none", "entry"}
         \/ Complete(stop, indexes_) /\ fault.at = "record"
      /\ fault.at = "entry" => stop = fault.i
      /\ indexes_' =
           DeleteEntryOfIndexes(indexes_, rows[rid], rid, FaultAt(fault, "entry"))
      /\ hurt' = (hurt \/ fault # NoFault)
      /\ del' = NoDelete
      /\ Fails(global_txn_id, CLog)
      /\ UNCHANGED <<rows, stray>>

\* mutant: the record that met a full buffer is not appended again
Logged_Dropped(rid) ==
  IF LogFull(CLog) THEN CLog ELSE AppendRecord(CLog, RedoDelete(del.txn, rid))

Logged(rid) == AppendRecord(CLog, RedoDelete(del.txn, rid))

\* The record is gone and RedoDelete is written; a full buffer ends DELETE.
DeleteAccepted(rid) ==
  /\ Complete(DeleteStop(indexes_, rows[rid], rid, 0), indexes_)
  /\ indexes_' = DeleteEntryOfIndexes(indexes_, rows[rid], rid, 0)
  /\ rows' = Without(rid)
  /\ stray' = stray \ {rid}
  /\ IF LogFull(CLog)
     THEN del' = NoDelete /\ Fails(global_txn_id, Logged(rid))
     ELSE /\ del' = [del EXCEPT !.left = @ \ {rid}]
          /\ SetCLog(Logged(rid))
          /\ UNCHANGED <<answer, global_txn_id, acked, late>>
  /\ UNCHANGED hurt

DeleteRecord ==
  /\ del.on
  /\ \E rid \in del.left, fault \in {f \in Fault : f.at \in {"none", "entry", "record"}} :
       /\ \A r \in del.left \ {rid} : Before(rid, r)
       /\ Counted(fault)
       /\ DeleteRefused(rid, fault) \/ (fault = NoFault /\ DeleteAccepted(rid))
  /\ UNCHANGED <<files, loaded, blurred, statements>>

\* The scan is at its end, or ended by a page that got no frame: to
\* DeleteOperator::Handle that is the same, and DELETE commits.
EndDelete ==
  /\ del.on
  /\ IF del.left = {} THEN UNCHANGED faults ELSE faults < MaxFaults /\ faults' = faults + 1
  /\ CommitTxn(del.txn, CLog)
  /\ del' = NoDelete
  /\ UNCHANGED <<rows, indexes_, files, loaded, stray, blurred, hurt, statements>>

-----------------------------------------------------------------------------
(* CREATE INDEX and the end of the process. *)

\* the places of a scan, page by page
ScanOrder(rids) ==
  CHOOSE order \in [1 .. Cardinality(rids) -> rids] :
    \A i, j \in DOMAIN order : i < j => Before(order[i], order[j])

\* InsertIndex for the records of a scan, in its order.
Filled(ix, rids) ==
  FoldLeft(LAMBDA acc, rid : IF acc.ok /\ ~Holds(acc.ix, rows[rid], rid)
                             THEN [acc EXCEPT !.ix = Entered(@, rows[rid], rid)]
                             ELSE [acc EXCEPT !.ok = FALSE],
           [ix |-> ix, ok |-> TRUE], rids)

\* The file must be new; table_meta_ never hears of an index, so that a field
\* may get several.  Without an entry for each record Close removes the file.
CreateIndex ==
  /\ Started
  /\ \E name \in IndexNames, f \in Fields, fault \in {NoFault, [at |-> "entry", i |-> 1]} :
       LET filled == Filled([name |-> name, field |-> f, entries |-> <<>>],
                            ScanOrder(DOMAIN rows))
           made   == name \notin files /\ filled.ok /\ fault = NoFault
       IN  /\ fault # NoFault => name \notin files /\ rows # <<>>
           /\ Counted(fault)
           /\ indexes_' = IF made THEN Append(indexes_, filled.ix) ELSE indexes_
           /\ files' = IF made THEN files \cup {name} ELSE files
           /\ answer' = IF made THEN "SUCCEEDED" ELSE "FAILED"
  /\ UNCHANGED <<rows, log, synced, global_txn_id, del, loaded, acked, late, stray, blurred,
                 hurt>>

\* A regular end of the server and a new start.  Nothing opens the files of
\* indexes again, transaction ids and the log begin anew.
Restart ==
  /\ ~del.on
  /\ statements < MaxStatements
  /\ indexes_' = <<>>
  /\ log' = <<>> /\ synced' = 0 /\ global_txn_id' = 0
  /\ loaded' = rows /\ acked' = {} /\ late' = {} /\ stray' = {} /\ hurt' = FALSE
  /\ blurred' = \E r, s \in DOMAIN rows :
                  r # s /\ RidCompare(r, s) = 0
                        /\ \E f \in Fields : rows[r].val[f] = rows[s].val[f]
  /\ answer' = "none"
  /\ UNCHANGED <<rows, files, del, statements, faults>>

Init ==
  /\ rows = <<>> /\ indexes_ = <<>> /\ files = {}
  /\ log = <<>> /\ synced = 0 /\ global_txn_id = 0
  /\ del = NoDelete /\ answer = "none"
  /\ loaded = <<>> /\ acked = {} /\ late = {} /\ stray = {}
  /\ blurred = FALSE /\ hurt = FALSE /\ statements = 0 /\ faults = 0

Next == \/ InsertFindsNoPlace \/ Insert
        \/ BeginDelete \/ DeleteRecord \/ EndDelete
        \/ CreateIndex \/ Restart

Spec == Init /\ [][Next]_vars

-----------------------------------------------------------------------------
(* What the table promises. *)

\* The types of the variables, and a log whose synced part is a beginning of it.
TypeOK ==
  /\ DOMAIN rows \subseteq Rids /\ rows \in [DOMAIN rows -> Row]
  /\ DOMAIN loaded \subseteq Rids /\ loaded \in [DOMAIN loaded -> Row]
  /\ files \subseteq IndexNames
  /\ log \in Seq(LogRecord)
  /\ synced \in 0 .. Len(log)
  /\ global_txn_id \in Nat
  /\ del \in [on : BOOLEAN, txn : Nat, left : SUBSET Rids]
  /\ acked \cup late \subseteq Nat
  /\ stray \subseteq Rids
  /\ answer \in {"none", "SUCCEEDED", "FAILED"}
  /\ statements \in 0 .. MaxStatements /\ faults \in Nat

\* the records of the log about rid, and the last of them
About(i, rid) == log[i].type # "RedoMiniTxnCommit" /\ log[i].rid = rid
LastAbout(i, rid)  == About(i, rid) /\ \A j \in DOMAIN log : About(j, rid) => j <= i

\* The log says what the data file has: at each place is the record of the last
\* RedoInsert, unless a RedoDelete follows, and where the log says nothing is
\* what was there when the process started; also in the middle of a DELETE and
\* after statements that failed.  Only a rollback that was refused leaves a
\* record that the log does not know.
LogTellsRows ==
  \A rid \in Rids \ stray :
    /\ \A i \in DOMAIN log : LastAbout(i, rid) =>
         IF log[i].type = "RedoInsert"
         THEN rid \in DOMAIN rows /\ rows[rid] = log[i].row
         ELSE rid \notin DOMAIN rows
    /\ (\A i \in DOMAIN log : ~About(i, rid)) =>
         /\ rid \in DOMAIN rows <=> rid \in DOMAIN loaded
         /\ rid \in DOMAIN rows => rows[rid] = loaded[rid]

\* Nothing is logged for a transaction that has committed: a later statement
\* never takes the id of an earlier one, whatever its end was.
CommitClosesTxn ==
  \A i, j \in DOMAIN log :
    log[i].type = "RedoMiniTxnCommit" /\ i < j => log[i].txn < log[j].txn

\* The client and the log agree: a statement was told SUCCEEDED exactly if its
\* commit is in the file, with all that was logged before it, except for the
\* commits that met a full buffer, whose statements were told FAILED.
SucceededIsSynced ==
  /\ acked \cap late = {}
  /\ \A i \in DOMAIN log :
       log[i].type = "RedoMiniTxnCommit" =>
         /\ log[i].txn \in acked \cup late
         /\ log[i].txn \in acked => i <= synced
  /\ \A id \in acked : \E i \in DOMAIN log : log[i] = Commit(id)

\* Each index has the entries of the records and no other, between statements
\* and in the middle of a DELETE, unless two records got keys that compare
\* equal or the pool refused a removal; a refused insertion alone leaves
\* nothing behind.
IndexesExact ==
  ~blurred /\ ~hurt =>
    \A i \in DOMAIN indexes_ :
      /\ ToSet(indexes_[i].entries) =
           {EntryOf(indexes_[i], rows[rid], rid) : rid \in DOMAIN rows}
      /\ Len(indexes_[i].entries) = Cardinality(DOMAIN rows)

=============================================================================
