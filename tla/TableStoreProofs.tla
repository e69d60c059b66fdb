-------------------------- MODULE TableStoreProofs --------------------------
(***************************************************************************)
(* Proofs about TableStore.  First: what the log says of the records,      *)
(* which transactions it closes and what the client was told of them; to   *)
(* that the indexes only decide whether a statement goes on.  Then: that   *)
(* the indexes have the entries of the records, from the binary search of  *)
(* a leaf up to the steps of the table.                                    *)
(***************************************************************************)
EXTENDS TableStore, SequenceTheorems, FiniteSetTheorems, WellFoundedInduction, TLAPS

-----------------------------------------------------------------------------
(* The invariants as operators of a log, so that a step that appends twice *)
(* can be taken one record at a time.                                      *)

AboutIn(l, i, rid) == l[i].type # "RedoMiniTxnCommit" /\ l[i].rid = rid
LastIn(l, i, rid)  == AboutIn(l, i, rid) /\ \A j \in DOMAIN l : AboutIn(l, j, rid) => j <= i

TellsOf(l, rw, ld, rid) ==
  /\ \A i \in DOMAIN l : LastIn(l, i, rid) =>
       IF l[i].type = "RedoInsert"
       THEN rid \in DOMAIN rw /\ rw[rid] = l[i].row
       ELSE rid \notin DOMAIN rw
  /\ (\A i \in DOMAIN l : ~AboutIn(l, i, rid)) =>
       /\ rid \in DOMAIN rw <=> rid \in DOMAIN ld
       /\ rid \in DOMAIN rw => rw[rid] = ld[rid]

Tells(l, rw, ld, st) == \A rid \in Rids \ st : TellsOf(l, rw, ld, rid)

IsCommit(rec)       == rec.type = "RedoMiniTxnCommit"
Closes(l)           == \A i, j \in DOMAIN l : IsCommit(l[i]) /\ i < j => l[i].txn < l[j].txn
UpTo(l, g)          == \A i \in DOMAIN l : l[i].txn <= g
CommitsBelow(l, id) == \A i \in DOMAIN l : IsCommit(l[i]) => l[i].txn < id

Answers(l, s, ac, lt) ==
  /\ ac \cap lt = {}
  /\ \A i \in DOMAIN l : IsCommit(l[i]) =>
       /\ l[i].txn \in ac \cup lt
       /\ l[i].txn \in ac => i <= s
  /\ \A id \in ac \cup lt : \E i \in DOMAIN l : l[i] = Commit(id)

RowsOK(rw) == DOMAIN rw \subseteq Rids /\ rw \in [DOMAIN rw -> Row]

\* A log that all of this holds of, and from which transaction id may go on.
LogGood(clog, id, ac, lt) ==
  /\ clog.log \in Seq(LogRecord)
  /\ clog.synced \in 0 .. Len(clog.log)
  /\ Closes(clog.log)
  /\ UpTo(clog.log, id)
  /\ Answers(clog.log, clog.synced, ac, lt)

\* The inductive invariant.
IInv ==
  /\ TypeOK
  /\ Tells(log, rows, loaded, stray)
  /\ LogGood(CLog, global_txn_id, acked, late)
  /\ del.on => del.txn = global_txn_id /\ CommitsBelow(log, global_txn_id)

LEMMA RecordShapes ==
  ASSUME NEW id \in Nat, NEW rid \in Rids, NEW row \in Row
  PROVE  /\ RedoInsert(id, rid, row) \in LogRecord /\ ~IsCommit(RedoInsert(id, rid, row))
         /\ RedoDelete(id, rid) \in LogRecord /\ ~IsCommit(RedoDelete(id, rid))
         /\ Commit(id) \in LogRecord /\ IsCommit(Commit(id))
         /\ RedoInsert(id, rid, row).txn = id
         /\ RedoDelete(id, rid).txn = id
         /\ Commit(id).txn = id
BY DEF RedoInsert, RedoDelete, Commit, LogRecord, IsCommit

LEMMA CommitShape ==
  ASSUME NEW id \in Nat
  PROVE  Commit(id) \in LogRecord /\ IsCommit(Commit(id)) /\ Commit(id).txn = id
BY DEF Commit, LogRecord, IsCommit

LEMMA LogRecordTxn ==
  ASSUME NEW rec \in LogRecord
  PROVE  rec.txn \in Nat
BY DEF LogRecord

\* What Append does to the records of a log.
LEMMA Appends ==
  ASSUME NEW l \in Seq(LogRecord), NEW rec \in LogRecord
  PROVE  /\ Append(l, rec) \in Seq(LogRecord)
         /\ Len(Append(l, rec)) = Len(l) + 1
         /\ DOMAIN l = 1 .. Len(l) /\ Len(l) \in Nat
         /\ DOMAIN Append(l, rec) = DOMAIN l \cup {Len(l) + 1}
         /\ \A i \in DOMAIN l : Append(l, rec)[i] = l[i] /\ l[i] \in LogRecord
                                /\ l[i].txn \in Nat
         /\ Append(l, rec)[Len(l) + 1] = rec
BY LogRecordTxn

-----------------------------------------------------------------------------
(* Tells *)

\* A commit says nothing of a record.
LEMMA TellsAfterCommit ==
  ASSUME NEW l \in Seq(LogRecord), NEW rw, NEW ld, NEW st, NEW id \in Nat,
         Tells(l, rw, ld, st)
  PROVE  Tells(Append(l, Commit(id)), rw, ld, st)
<1> DEFINE m == Append(l, Commit(id))
<1>1. ~(\E rid \in Rids : AboutIn(m, Len(l) + 1, rid))
  BY CommitShape, Appends DEF AboutIn, IsCommit
<1>2. \A i \in DOMAIN l, rid \in Rids : AboutIn(m, i, rid) <=> AboutIn(l, i, rid)
  BY CommitShape, Appends DEF AboutIn
<1>3. DOMAIN m = DOMAIN l \cup {Len(l) + 1} /\ \A i \in DOMAIN l : m[i] = l[i]
  BY CommitShape, Appends
<1> HIDE DEF m
<1> SUFFICES ASSUME NEW rid \in Rids \ st PROVE TellsOf(m, rw, ld, rid)
  BY DEF Tells, m
<1>4. TellsOf(l, rw, ld, rid)
  BY DEF Tells
<1>5. \A i \in DOMAIN m : LastIn(m, i, rid) => i \in DOMAIN l /\ LastIn(l, i, rid)
  BY <1>1, <1>2, <1>3 DEF LastIn
<1>6. (\A i \in DOMAIN m : ~AboutIn(m, i, rid)) => \A i \in DOMAIN l : ~AboutIn(l, i, rid)
  BY <1>2, <1>3
<1> QED
  BY <1>3, <1>4, <1>5, <1>6 DEF TellsOf

\* A record about one place leaves what the log says of the others.
LEMMA TellsElsewhere ==
  ASSUME NEW l \in Seq(LogRecord), NEW rec \in LogRecord, NEW rid \in Rids,
         ~AboutIn(Append(l, rec), Len(l) + 1, rid),
         NEW rw, NEW rx, NEW ld,
         rid \in DOMAIN rw <=> rid \in DOMAIN rx,
         rid \in DOMAIN rw => rx[rid] = rw[rid],
         TellsOf(l, rw, ld, rid)
  PROVE  TellsOf(Append(l, rec), rx, ld, rid)
<1> DEFINE m == Append(l, rec)
<1>1. DOMAIN m = DOMAIN l \cup {Len(l) + 1} /\ \A i \in DOMAIN l : m[i] = l[i]
  BY Appends
<1>2. \A i \in DOMAIN l : AboutIn(m, i, rid) <=> AboutIn(l, i, rid)
  BY <1>1 DEF AboutIn
<1>3. ~AboutIn(m, Len(l) + 1, rid)
  OBVIOUS
<1> HIDE DEF m
<1>4. \A i \in DOMAIN m : LastIn(m, i, rid) => i \in DOMAIN l /\ LastIn(l, i, rid)
  BY <1>1, <1>2, <1>3 DEF LastIn
<1>5. (\A i \in DOMAIN m : ~AboutIn(m, i, rid)) => \A i \in DOMAIN l : ~AboutIn(l, i, rid)
  BY <1>1, <1>2
<1>6. TellsOf(m, rx, ld, rid)
  BY <1>1, <1>4, <1>5 DEF TellsOf
<1> QED
  BY <1>6 DEF m

\* The last record about a place decides.
LEMMA TellsHere ==
  ASSUME NEW l \in Seq(LogRecord), NEW rec \in LogRecord, NEW rid \in Rids,
         AboutIn(Append(l, rec), Len(l) + 1, rid),
         NEW rw, NEW ld,
         IF rec.type = "RedoInsert" THEN rid \in DOMAIN rw /\ rw[rid] = rec.row
                                    ELSE rid \notin DOMAIN rw
  PROVE  TellsOf(Append(l, rec), rw, ld, rid)
<1> DEFINE m == Append(l, rec)
<1>1. /\ DOMAIN m = DOMAIN l \cup {Len(l) + 1} /\ m[Len(l) + 1] = rec
      /\ DOMAIN l = 1 .. Len(l) /\ Len(l) \in Nat
  BY Appends
<1>2. AboutIn(m, Len(l) + 1, rid)
  OBVIOUS
<1> HIDE DEF m
<1>3. \A i \in DOMAIN m : LastIn(m, i, rid) => i = Len(l) + 1
  BY <1>1, <1>2 DEF LastIn
<1>4. TellsOf(m, rw, ld, rid)
  BY <1>1, <1>2, <1>3 DEF TellsOf
<1> QED
  BY <1>4 DEF m

\* RedoInsert goes with the record it carries.
LEMMA TellsAfterInsert ==
  ASSUME NEW l \in Seq(LogRecord), NEW id \in Nat, NEW rid \in Rids, NEW row \in Row,
         NEW rw, NEW rx, NEW ld, NEW st,
         rx = [r \in DOMAIN rw \cup {rid} |-> IF r = rid THEN row ELSE rw[r]],
         Tells(l, rw, ld, st)
  PROVE  Tells(Append(l, RedoInsert(id, rid, row)), rx, ld, st \ {rid})
<1> DEFINE rec == RedoInsert(id, rid, row)
<1>1. rec \in LogRecord /\ rec.type = "RedoInsert" /\ rec.rid = rid /\ rec.row = row
  BY RecordShapes DEF RedoInsert
<1> HIDE DEF rec
<1> SUFFICES ASSUME NEW r \in Rids \ (st \ {rid})
             PROVE  TellsOf(Append(l, rec), rx, ld, r)
  BY DEF Tells, rec
<1>2. AboutIn(Append(l, rec), Len(l) + 1, r) <=> r = rid
  BY <1>1, Appends DEF AboutIn
<1>3. CASE r = rid
  BY <1>1, <1>2, <1>3, TellsHere
<1>4. CASE r # rid
  <2>1. TellsOf(l, rw, ld, r)
    BY <1>4 DEF Tells
  <2>2. (r \in DOMAIN rw <=> r \in DOMAIN rx) /\ (r \in DOMAIN rw => rx[r] = rw[r])
    BY <1>4
  <2> QED
    BY <1>1, <1>2, <1>4, <2>1, <2>2, TellsElsewhere
<1> QED
  BY <1>3, <1>4

\* RedoDelete goes with the removal.
LEMMA TellsAfterDelete ==
  ASSUME NEW l \in Seq(LogRecord), NEW id \in Nat, NEW rid \in Rids,
         NEW rw, NEW rx, NEW ld, NEW st,
         rx = [r \in DOMAIN rw \ {rid} |-> rw[r]],
         Tells(l, rw, ld, st)
  PROVE  Tells(Append(l, RedoDelete(id, rid)), rx, ld, st \ {rid})
<1> DEFINE rec == RedoDelete(id, rid)
<1>1. rec \in LogRecord /\ rec.type = "RedoDelete" /\ rec.rid = rid
  BY DEF RedoDelete, LogRecord
<1> HIDE DEF rec
<1> SUFFICES ASSUME NEW r \in Rids \ (st \ {rid})
             PROVE  TellsOf(Append(l, rec), rx, ld, r)
  BY DEF Tells, rec
<1>2. AboutIn(Append(l, rec), Len(l) + 1, r) <=> r = rid
  BY <1>1, Appends DEF AboutIn
<1>3. CASE r = rid
  BY <1>1, <1>2, <1>3, TellsHere
<1>4. CASE r # rid
  <2>1. TellsOf(l, rw, ld, r)
    BY <1>4 DEF Tells
  <2>2. (r \in DOMAIN rw <=> r \in DOMAIN rx) /\ (r \in DOMAIN rw => rx[r] = rw[r])
    BY <1>4
  <2> QED
    BY <1>1, <1>2, <1>4, <2>1, <2>2, TellsElsewhere
<1> QED
  BY <1>3, <1>4

-----------------------------------------------------------------------------
(* LogGood *)

LEMMA AppendRecordFields ==
  ASSUME NEW clog, NEW rec
  PROVE  /\ AppendRecord(clog, rec).log = Append(clog.log, rec)
         /\ LogFull(clog) => AppendRecord(clog, rec).synced = Len(clog.log)
         /\ ~LogFull(clog) => AppendRecord(clog, rec).synced =
              IF IsCommit(rec) THEN Len(clog.log) + 1 ELSE clog.synced
BY DEF AppendRecord, IsCommit

\* A record of the transaction that runs.
LEMMA GoodAfterRecord ==
  ASSUME NEW clog, NEW id \in Nat, NEW t \in Nat, NEW ac, NEW lt, NEW rec \in LogRecord,
         LogGood(clog, id, ac, lt), id <= t, CommitsBelow(clog.log, t),
         ~IsCommit(rec), rec.txn = t
  PROVE  /\ LogGood(AppendRecord(clog, rec), t, ac, lt)
         /\ CommitsBelow(AppendRecord(clog, rec).log, t)
<1> DEFINE l == clog.log
           m == Append(l, rec)
           s == AppendRecord(clog, rec).synced
<1>1. l \in Seq(LogRecord) /\ clog.synced \in 0 .. Len(l)
  BY DEF LogGood
<1>2. /\ m \in Seq(LogRecord) /\ Len(m) = Len(l) + 1 /\ m[Len(l) + 1] = rec
      /\ DOMAIN l = 1 .. Len(l) /\ Len(l) \in Nat /\ DOMAIN m = DOMAIN l \cup {Len(l) + 1}
      /\ \A i \in DOMAIN l : m[i] = l[i] /\ l[i].txn \in Nat
  BY <1>1, Appends
<1>3. s \in Nat /\ clog.synced <= s /\ s <= Len(l)
  BY <1>1, <1>2, AppendRecordFields
<1>4. Closes(l) /\ UpTo(l, id) /\ Answers(l, clog.synced, ac, lt) /\ CommitsBelow(l, t)
  BY DEF LogGood
<1>5. AppendRecord(clog, rec).log = m
  BY AppendRecordFields
<1> HIDE DEF l, m, s
<1>6. Closes(m)
  BY <1>2, <1>4 DEF Closes, CommitsBelow
<1>7. UpTo(m, t)
  BY <1>2, <1>4 DEF UpTo
<1>8. CommitsBelow(m, t)
  BY <1>2, <1>4 DEF CommitsBelow
<1>9. Answers(m, s, ac, lt)
  <2>1. \A i \in DOMAIN m : IsCommit(m[i]) => i \in DOMAIN l /\ m[i] = l[i]
    BY <1>2
  <2>2. \A i \in DOMAIN l : i <= clog.synced => i <= s
    BY <1>1, <1>2, <1>3 DEF l
  <2>3. \A e \in ac \cup lt : \E i \in DOMAIN m : m[i] = Commit(e)
    BY <1>2, <1>4 DEF Answers
  <2> QED
    BY <1>4, <2>1, <2>2, <2>3 DEF Answers
<1> QED
  BY <1>2, <1>3, <1>5, <1>6, <1>7, <1>8, <1>9 DEF LogGood, s

\* The commit of the transaction that runs: it is in no set of answers yet.
LEMMA GoodAfterCommit ==
  ASSUME NEW clog, NEW id \in Nat, NEW ac, NEW lt,
         LogGood(clog, id, ac, lt), CommitsBelow(clog.log, id)
  PROVE  /\ LogFull(clog) => LogGood(AppendRecord(clog, Commit(id)), id, ac, lt \cup {id})
         /\ ~LogFull(clog) => LogGood(AppendRecord(clog, Commit(id)), id, ac \cup {id}, lt)
<1> DEFINE l == clog.log
           m == Append(l, Commit(id))
           s == AppendRecord(clog, Commit(id)).synced
<1>1. l \in Seq(LogRecord) /\ clog.synced \in 0 .. Len(l)
  BY DEF LogGood
<1>a. Commit(id) \in LogRecord /\ IsCommit(Commit(id)) /\ Commit(id).txn = id
  BY CommitShape
<1>2. /\ m \in Seq(LogRecord) /\ Len(m) = Len(l) + 1 /\ m[Len(l) + 1] = Commit(id)
      /\ DOMAIN l = 1 .. Len(l) /\ Len(l) \in Nat /\ DOMAIN m = DOMAIN l \cup {Len(l) + 1}
      /\ \A i \in DOMAIN l : m[i] = l[i] /\ l[i].txn \in Nat
  BY <1>1, <1>a, Appends
<1>3. /\ s \in Nat /\ clog.synced <= s /\ s <= Len(l) + 1
      /\ ~LogFull(clog) => s = Len(l) + 1
  BY <1>1, <1>2, <1>a, AppendRecordFields
<1>4. Closes(l) /\ UpTo(l, id) /\ Answers(l, clog.synced, ac, lt) /\ CommitsBelow(l, id)
  BY DEF LogGood
<1>5. AppendRecord(clog, Commit(id)).log = m
  BY AppendRecordFields
<1> HIDE DEF l, m, s
<1>6. Closes(m)
  BY <1>2, <1>4, <1>a DEF Closes, CommitsBelow
<1>7. UpTo(m, id)
  BY <1>2, <1>4, <1>a DEF UpTo
<1>8. id \notin ac \cup lt
  BY <1>2, <1>4, <1>a DEF Answers, CommitsBelow
<1>9. ASSUME NEW bc, NEW ct, bc \cup ct = ac \cup lt \cup {id}, bc \cap ct = {},
             ac \subseteq bc, bc \subseteq ac \cup {id}, id \in bc => s = Len(l) + 1
      PROVE  Answers(m, s, bc, ct)
  <2>1. ASSUME NEW i \in DOMAIN m, IsCommit(m[i])
        PROVE  m[i].txn \in bc \cup ct /\ (m[i].txn \in bc => i <= s)
    <3>1. CASE i = Len(l) + 1
      BY <1>2, <1>3, <1>9, <1>a, <3>1
    <3>2. CASE i # Len(l) + 1
      <4>1. i \in DOMAIN l /\ m[i] = l[i] /\ l[i].txn < id
        BY <1>2, <1>4, <2>1, <3>2 DEF CommitsBelow
      <4>2. l[i].txn \in ac \cup lt /\ (l[i].txn \in ac => i <= clog.synced)
        BY <1>4, <2>1, <4>1 DEF Answers
      <4>3. l[i].txn # id
        BY <1>2, <4>1
      <4>4. l[i].txn \in bc => l[i].txn \in ac
        BY <1>9, <4>3
      <4>5. i <= clog.synced => i <= s
        BY <1>1, <1>2, <1>3, <4>1 DEF l
      <4> QED
        BY <1>9, <4>1, <4>2, <4>4, <4>5
    <3> QED
      BY <3>1, <3>2
  <2>2. \A e \in bc \cup ct : \E i \in DOMAIN m : m[i] = Commit(e)
    BY <1>2, <1>4, <1>9 DEF Answers
  <2> QED
    BY <1>9, <2>1, <2>2 DEF Answers
<1>10. ac \cap lt = {}
  BY <1>4 DEF Answers
<1>11. LogFull(clog) => Answers(m, s, ac, lt \cup {id})
  <2>1. ac \cup (lt \cup {id}) = ac \cup lt \cup {id} /\ ac \cap (lt \cup {id}) = {}
    BY <1>8, <1>10
  <2> QED
    BY <1>8, <1>9, <2>1
<1>12. ~LogFull(clog) => Answers(m, s, ac \cup {id}, lt)
  <2>1. (ac \cup {id}) \cup lt = ac \cup lt \cup {id} /\ (ac \cup {id}) \cap lt = {}
    BY <1>8, <1>10
  <2> QED
    BY <1>3, <1>9, <2>1
<1> QED
  BY <1>2, <1>3, <1>5, <1>6, <1>7, <1>11, <1>12 DEF LogGood, s

\* The next id may be any greater one.
LEMMA GoodLater ==
  ASSUME NEW clog, NEW id \in Nat, NEW t \in Nat, NEW ac, NEW lt,
         LogGood(clog, id, ac, lt), id <= t
  PROVE  LogGood(clog, t, ac, lt)
<1>1. \A i \in DOMAIN clog.log : clog.log[i].txn \in Nat
  BY Appends, LogRecordTxn DEF LogGood
<1> QED
  BY <1>1 DEF LogGood, UpTo

\* Above an id that the log goes up to, every commit is below.
LEMMA BelowLater ==
  ASSUME NEW clog, NEW id \in Nat, NEW ac, NEW lt, LogGood(clog, id, ac, lt)
  PROVE  CommitsBelow(clog.log, id + 1)
<1>1. \A i \in DOMAIN clog.log : clog.log[i].txn \in Nat
  BY LogRecordTxn DEF LogGood
<1> QED
  BY <1>1 DEF LogGood, UpTo, CommitsBelow

-----------------------------------------------------------------------------
(* How a statement ends. *)

LEMMA FailsStep ==
  ASSUME NEW clog, NEW id \in Nat, LogGood(clog, id, acked, late), Fails(id, clog)
  PROVE  /\ LogGood(CLog', global_txn_id', acked', late')
         /\ log' = clog.log /\ global_txn_id' = id /\ answer' = "FAILED"
         /\ acked' = acked /\ late' = late
BY DEF Fails, SetCLog, CLog, LogGood

LEMMA CommitStep ==
  ASSUME NEW clog, NEW id \in Nat, LogGood(clog, id, acked, late),
         CommitsBelow(clog.log, id), CommitTxn(id, clog)
  PROVE  /\ LogGood(CLog', global_txn_id', acked', late')
         /\ log' = Append(clog.log, Commit(id)) /\ global_txn_id' \in Nat
         /\ answer' \in {"SUCCEEDED", "FAILED"}
         /\ acked' \cup late' = acked \cup late \cup {id}
<1> DEFINE after == AppendRecord(clog, Commit(id))
<1>1. log' = after.log /\ synced' = after.synced
  BY DEF CommitTxn, SetCLog
<1>2. after.log = Append(clog.log, Commit(id))
  BY AppendRecordFields
<1>3. ASSUME NEW t, NEW ac, NEW lt, LogGood(after, t, ac, lt) PROVE LogGood(CLog', t, ac, lt)
  BY <1>1, <1>3 DEF LogGood, CLog
<1>4. CASE LogFull(clog)
  <2>1. LogGood(after, id, acked, late \cup {id})
    BY <1>4, GoodAfterCommit
  <2> HIDE DEF after
  <2>2. acked' = acked /\ late' = late \cup {id} /\ global_txn_id' = id /\ answer' = "FAILED"
    BY <1>4 DEF CommitTxn
  <2> QED
    BY <1>1, <1>2, <1>3, <2>1, <2>2
<1>5. CASE ~LogFull(clog)
  <2>1. LogGood(after, id, acked \cup {id}, late)
    BY <1>5, GoodAfterCommit
  <2>2. LogGood(after, NextCurrentId(id), acked \cup {id}, late)
    BY <2>1, GoodLater DEF NextCurrentId
  <2> HIDE DEF after
  <2>3. /\ acked' = acked \cup {id} /\ late' = late /\ global_txn_id' = NextCurrentId(id)
        /\ answer' = "SUCCEEDED"
    BY <1>5 DEF CommitTxn
  <2> QED
    BY <1>1, <1>2, <1>3, <2>2, <2>3 DEF NextCurrentId
<1> QED
  BY <1>4, <1>5

LEMMA PlacedRows ==
  ASSUME RowsOK(rows), NEW rid \in Rids, NEW row \in Row
  PROVE  RowsOK(Placed(rid, row))
BY DEF RowsOK, Placed

LEMMA WithoutRows ==
  ASSUME RowsOK(rows), NEW rid
  PROVE  RowsOK(Without(rid))
BY DEF RowsOK, Without

\* TypeOK and IInv from what a step says of the variables.
LEMMA Assemble ==
  ASSUME RowsOK(rows'), RowsOK(loaded'), files' \subseteq IndexNames,
         global_txn_id' \in Nat, del' \in [on : BOOLEAN, txn : Nat, left : SUBSET Rids],
         acked' \cup late' \subseteq Nat, stray' \subseteq Rids,
         answer' \in {"none", "SUCCEEDED", "FAILED"},
         statements' \in 0 .. MaxStatements, faults' \in Nat,
         Tells(log', rows', loaded', stray'),
         LogGood(CLog', global_txn_id', acked', late'),
         del'.on => del'.txn = global_txn_id' /\ CommitsBelow(log', global_txn_id')
  PROVE  IInv'
BY DEF IInv, TypeOK, RowsOK, LogGood, CLog

LEMMA InitIInv == Init => IInv
<1> SUFFICES ASSUME Init PROVE IInv
  OBVIOUS
<1>1. TypeOK
  BY TableAssumption DEF Init, TypeOK, NoDelete
<1>2. Tells(log, rows, loaded, stray)
  BY DEF Init, Tells, TellsOf
<1>3. LogGood(CLog, global_txn_id, acked, late)
  BY DEF Init, LogGood, CLog, Closes, UpTo, Answers
<1> QED
  BY <1>1, <1>2, <1>3 DEF IInv, Init, NoDelete

\* What the steps take from the invariant.
LEMMA FromIInv ==
  ASSUME IInv
  PROVE  /\ RowsOK(rows) /\ RowsOK(loaded) /\ files \subseteq IndexNames
         /\ log \in Seq(LogRecord) /\ global_txn_id \in Nat /\ NewTxn \in Nat
         /\ del \in [on : BOOLEAN, txn : Nat, left : SUBSET Rids]
         /\ acked \cup late \subseteq Nat /\ stray \subseteq Rids
         /\ answer \in {"none", "SUCCEEDED", "FAILED"}
         /\ statements \in 0 .. MaxStatements /\ faults \in Nat
         /\ Tells(log, rows, loaded, stray)
         /\ LogGood(CLog, global_txn_id, acked, late)
         /\ LogGood(CLog, NewTxn, acked, late)
         /\ CommitsBelow(log, NewTxn)
         /\ CLog.log = log
<1>1. global_txn_id \in Nat /\ LogGood(CLog, global_txn_id, acked, late)
  BY DEF IInv, TypeOK
<1>2. CommitsBelow(CLog.log, NewTxn)
  BY <1>1, BelowLater DEF NewTxn
<1>3. LogGood(CLog, NewTxn, acked, late) /\ NewTxn \in Nat
  BY <1>1, GoodLater DEF NewTxn
<1>4. CLog.log = log
  BY DEF CLog
<1> QED
  BY <1>1, <1>2, <1>3, <1>4 DEF IInv, TypeOK, RowsOK

LEMMA StartedStep ==
  ASSUME IInv, Started
  PROVE  del.on = FALSE /\ statements' \in 0 .. MaxStatements
BY TableAssumption DEF IInv, TypeOK, Started

LEMMA CountedStep ==
  ASSUME IInv, NEW fault, Counted(fault)
  PROVE  faults' \in Nat
BY DEF IInv, TypeOK, Counted

-----------------------------------------------------------------------------
(* The actions. *)

LEMMA NoPlaceStep ==
  ASSUME IInv, InsertFindsNoPlace
  PROVE  IInv'
<1> USE FromIInv
<1>1. statements' \in 0 .. MaxStatements /\ del.on = FALSE
  BY StartedStep DEF InsertFindsNoPlace
<1>2. faults' \in Nat
  BY CountedStep DEF InsertFindsNoPlace
<1>3. /\ LogGood(CLog', global_txn_id', acked', late') /\ log' = log
      /\ global_txn_id' = NewTxn /\ answer' = "FAILED" /\ acked' = acked /\ late' = late
  BY FailsStep DEF InsertFindsNoPlace
<1>4. UNCHANGED <<rows, files, del, loaded, stray>>
  BY DEF InsertFindsNoPlace
<1> QED
  BY <1>1, <1>2, <1>3, <1>4, Assemble

\* A record that a refused rollback leaves behind is one the log may be silent of.
LEMMA TellsWithStray ==
  ASSUME NEW l, NEW rw, NEW ld, NEW st, NEW rid, NEW row, NEW rx,
         rx = [r \in DOMAIN rw \cup {rid} |-> IF r = rid THEN row ELSE rw[r]],
         Tells(l, rw, ld, st)
  PROVE  Tells(l, rx, ld, st \cup {rid})
<1> SUFFICES ASSUME NEW r \in Rids \ (st \cup {rid}) PROVE TellsOf(l, rx, ld, r)
  BY DEF Tells
<1>1. TellsOf(l, rw, ld, r)
  BY DEF Tells
<1>2. (r \in DOMAIN rw <=> r \in DOMAIN rx) /\ (r \in DOMAIN rw => rx[r] = rw[r])
  OBVIOUS
<1> QED
  BY <1>1, <1>2 DEF TellsOf

LEMMA InsertStep ==
  ASSUME IInv, Insert
  PROVE  IInv'
<1> USE FromIInv
<1>1. PICK val \in [Fields -> Values], rid \in FreeSlots, fault \in Fault :
        LET row == [val |-> val, txn |-> NewTxn]
        IN  /\ Started
            /\ Counted(fault)
            /\ InsertRefused(row, rid, fault) \/ InsertAccepted(row, rid)
            /\ UNCHANGED <<files, del, loaded>>
  BY DEF Insert
<1> DEFINE row == [val |-> val, txn |-> NewTxn]
<1>2. row \in Row /\ rid \in Rids /\ row.txn = NewTxn
  BY DEF Row, FreeSlots
<1> HIDE DEF row
<1>3. /\ statements' \in 0 .. MaxStatements /\ del.on = FALSE /\ faults' \in Nat
      /\ UNCHANGED <<files, del, loaded>>
  BY <1>1, StartedStep, CountedStep
<1>4. CASE InsertRefused(row, rid, fault)
  <2>1. Fails(NewTxn, CLog)
    BY <1>2, <1>4 DEF InsertRefused
  <2>2. /\ LogGood(CLog', global_txn_id', acked', late') /\ log' = log
        /\ global_txn_id' = NewTxn /\ answer' = "FAILED" /\ acked' = acked /\ late' = late
    BY <2>1, FailsStep
  <2>3. RowsOK(rows') /\ stray' \subseteq Rids /\ Tells(log', rows', loaded', stray')
    <3>1. CASE fault.at = "undo"
      <4>1. rows' = Placed(rid, row) /\ stray' = stray \cup {rid}
        BY <1>4, <3>1 DEF InsertRefused
      <4>2. RowsOK(rows')
        BY <1>2, <4>1, PlacedRows
      <4>3. Tells(log, Placed(rid, row), loaded, stray \cup {rid})
        BY TellsWithStray DEF Placed
      <4> QED
        BY <1>2, <1>3, <2>2, <4>1, <4>2, <4>3
    <3>2. CASE fault.at # "undo"
      <4>1. rows' = rows /\ stray' = stray
        BY <1>4, <3>2 DEF InsertRefused
      <4> QED
        BY <1>3, <2>2, <4>1
    <3> QED
      BY <3>1, <3>2
  <2> QED
    BY <1>3, <2>2, <2>3, Assemble
<1>5. CASE InsertAccepted(row, rid)
  <2> DEFINE rec  == RedoInsert(NewTxn, rid, row)
             clog == AppendRecord(CLog, rec)
  <2>1. rec \in LogRecord /\ ~IsCommit(rec) /\ rec.txn = NewTxn
    BY <1>2, RecordShapes
  <2>2. LogGood(clog, NewTxn, acked, late) /\ CommitsBelow(clog.log, NewTxn)
    <3>1. /\ LogGood(CLog, NewTxn, acked, late) /\ NewTxn \in Nat
          /\ CommitsBelow(CLog.log, NewTxn)
      OBVIOUS
    <3> HIDE DEF rec
    <3> QED
      BY <2>1, <3>1, GoodAfterRecord
  <2>3. clog.log = Append(log, rec)
    BY AppendRecordFields
  <2>4. rows' = Placed(rid, row) /\ stray' = stray \ {rid}
    BY <1>5 DEF InsertAccepted
  <2>5. RowsOK(rows') /\ stray' \subseteq Rids
    BY <1>2, <2>4, PlacedRows
  <2>6. Tells(clog.log, rows', loaded, stray')
    <3>1. Tells(log, rows, loaded, stray) /\ log \in Seq(LogRecord) /\ NewTxn \in Nat
      OBVIOUS
    <3>2. Tells(Append(log, rec), Placed(rid, row), loaded, stray \ {rid})
      BY <1>2, <3>1, TellsAfterInsert DEF Placed
    <3> QED
      BY <2>3, <2>4, <3>2
  <2>7. Fails(NewTxn, clog) \/ CommitTxn(NewTxn, clog)
    BY <1>2, <1>5 DEF InsertAccepted
  <2>8. clog.log \in Seq(LogRecord)
    BY <2>2 DEF LogGood
  <2> HIDE DEF clog
  <2>9. CASE Fails(NewTxn, clog)
    <3>1. /\ LogGood(CLog', global_txn_id', acked', late') /\ log' = clog.log
          /\ global_txn_id' = NewTxn /\ answer' = "FAILED" /\ acked' = acked /\ late' = late
      BY <2>2, <2>9, FailsStep
    <3> QED
      BY <1>3, <2>5, <2>6, <3>1, Assemble
  <2>10. CASE CommitTxn(NewTxn, clog)
    <3>1. /\ LogGood(CLog', global_txn_id', acked', late')
          /\ log' = Append(clog.log, Commit(NewTxn)) /\ global_txn_id' \in Nat
          /\ answer' \in {"SUCCEEDED", "FAILED"}
          /\ acked' \cup late' = acked \cup late \cup {NewTxn}
      BY <2>2, <2>10, CommitStep
    <3>2. Tells(log', rows', loaded, stray')
      BY <2>6, <2>8, <3>1, TellsAfterCommit
    <3>3. acked' \cup late' \subseteq Nat
      BY <3>1
    <3> QED
      BY <1>3, <2>5, <3>1, <3>2, <3>3, Assemble
  <2> QED
    BY <2>7, <2>9, <2>10
<1> QED
  BY <1>1, <1>4, <1>5 DEF row

LEMMA BeginDeleteStep ==
  ASSUME IInv, BeginDelete
  PROVE  IInv'
<1> USE FromIInv
<1>1. PICK left \in Chosen : del' = [on |-> TRUE, txn |-> NewTxn, left |-> left]
  BY DEF BeginDelete
<1>2. left \in SUBSET Rids
  BY DEF Chosen, RowsOK
<1>3. /\ global_txn_id' = NewTxn
      /\ UNCHANGED <<rows, files, log, synced, answer, loaded, acked, late, stray, faults>>
  BY DEF BeginDelete
<1>4. statements' \in 0 .. MaxStatements
  BY StartedStep DEF BeginDelete
<1>5. LogGood(CLog', global_txn_id', acked', late') /\ CommitsBelow(log', global_txn_id')
  BY <1>3 DEF CLog
<1> QED
  BY <1>1, <1>2, <1>3, <1>4, <1>5, Assemble

LEMMA DeleteRecordStep ==
  ASSUME IInv, DeleteRecord
  PROVE  IInv'
<1> USE FromIInv
<1>1. PICK rid \in del.left, fault \in Fault :
        Counted(fault) /\ (DeleteRefused(rid, fault) \/ DeleteAccepted(rid))
  BY DEF DeleteRecord
<1>2. /\ UNCHANGED <<files, loaded, statements>> /\ del.on /\ faults' \in Nat
      /\ del.txn = global_txn_id /\ CommitsBelow(log, global_txn_id)
  BY <1>1, CountedStep DEF DeleteRecord, IInv
<1>3. NoDelete \in [on : BOOLEAN, txn : Nat, left : SUBSET Rids] /\ ~NoDelete.on
  BY DEF NoDelete
<1>4. rid \in Rids
  OBVIOUS
<1>5. CASE DeleteRefused(rid, fault)
  <2>1. Fails(global_txn_id, CLog) /\ del' = NoDelete /\ UNCHANGED <<rows, stray>>
    BY <1>5 DEF DeleteRefused
  <2>2. /\ LogGood(CLog', global_txn_id', acked', late') /\ log' = log
        /\ global_txn_id' = global_txn_id /\ answer' = "FAILED"
        /\ acked' = acked /\ late' = late
    BY <2>1, FailsStep
  <2> QED
    BY <1>2, <1>3, <2>1, <2>2, Assemble
<1>6. CASE DeleteAccepted(rid)
  <2> DEFINE rec  == RedoDelete(global_txn_id, rid)
             clog == AppendRecord(CLog, rec)
  <2>1. rec \in LogRecord /\ ~IsCommit(rec) /\ rec.txn = global_txn_id
    BY DEF RedoDelete, LogRecord, IsCommit
  <2>2. /\ LogGood(clog, global_txn_id, acked, late)
        /\ CommitsBelow(clog.log, global_txn_id)
    <3>1. /\ LogGood(CLog, global_txn_id, acked, late) /\ global_txn_id \in Nat
          /\ CommitsBelow(CLog.log, global_txn_id)
      BY <1>2
    <3> HIDE DEF rec
    <3> QED
      BY <2>1, <3>1, GoodAfterRecord
  <2>3. clog.log = Append(log, rec)
    BY AppendRecordFields
  <2>4. rows' = Without(rid) /\ stray' = stray \ {rid}
    BY <1>6 DEF DeleteAccepted
  <2>5. RowsOK(rows') /\ stray' \subseteq Rids
    BY <2>4, WithoutRows
  <2>6. Tells(clog.log, rows', loaded, stray')
    <3>1. Tells(log, rows, loaded, stray) /\ log \in Seq(LogRecord)
      OBVIOUS
    <3>2. Tells(Append(log, rec), Without(rid), loaded, stray \ {rid})
      BY <1>4, <3>1, TellsAfterDelete DEF Without
    <3> QED
      BY <2>3, <2>4, <3>2
  <2>7. Logged(rid) = clog
    BY <1>2 DEF Logged
  <2> HIDE DEF clog
  <2>8. CASE LogFull(CLog)
    <3>1. del' = NoDelete /\ Fails(global_txn_id, clog)
      BY <1>6, <2>7, <2>8 DEF DeleteAccepted
    <3>2. /\ LogGood(CLog', global_txn_id', acked', late') /\ log' = clog.log
          /\ global_txn_id' = global_txn_id /\ answer' = "FAILED"
          /\ acked' = acked /\ late' = late
      BY <2>2, <3>1, FailsStep
    <3> QED
      BY <1>2, <1>3, <2>5, <2>6, <3>1, <3>2, Assemble
  <2>9. CASE ~LogFull(CLog)
    <3>1. /\ del' = [del EXCEPT !.left = @ \ {rid}] /\ SetCLog(clog)
          /\ UNCHANGED <<answer, global_txn_id, acked, late>>
      BY <1>6, <2>7, <2>9 DEF DeleteAccepted
    <3>2. log' = clog.log /\ LogGood(CLog', global_txn_id', acked', late')
      BY <2>2, <3>1 DEF SetCLog, LogGood, CLog
    <3>3. /\ del' \in [on : BOOLEAN, txn : Nat, left : SUBSET Rids]
          /\ del'.txn = global_txn_id'
      BY <1>2, <3>1
    <3> QED
      BY <1>2, <2>2, <2>5, <2>6, <3>1, <3>2, <3>3, Assemble
  <2> QED
    BY <2>8, <2>9
<1> QED
  BY <1>1, <1>5, <1>6

LEMMA EndDeleteStep ==
  ASSUME IInv, EndDelete
  PROVE  IInv'
<1> USE FromIInv
<1>1. /\ del.txn = global_txn_id /\ CommitsBelow(CLog.log, global_txn_id)
      /\ LogGood(CLog, global_txn_id, acked, late) /\ global_txn_id \in Nat
  BY DEF EndDelete, IInv
<1>2. /\ LogGood(CLog', global_txn_id', acked', late')
      /\ log' = Append(log, Commit(global_txn_id)) /\ global_txn_id' \in Nat
      /\ answer' \in {"SUCCEEDED", "FAILED"}
      /\ acked' \cup late' = acked \cup late \cup {global_txn_id}
  BY <1>1, CommitStep DEF EndDelete
<1>3. Tells(log', rows, loaded, stray)
  <2>1. Tells(log, rows, loaded, stray) /\ log \in Seq(LogRecord)
    OBVIOUS
  <2> QED
    BY <1>1, <1>2, <2>1, TellsAfterCommit
<1>4. /\ UNCHANGED <<rows, files, loaded, stray, statements>> /\ del' = NoDelete
      /\ faults' \in Nat
  BY DEF EndDelete
<1>5. NoDelete \in [on : BOOLEAN, txn : Nat, left : SUBSET Rids] /\ ~NoDelete.on
  BY DEF NoDelete
<1>6. acked' \cup late' \subseteq Nat
  BY <1>2
<1> QED
  BY <1>2, <1>3, <1>4, <1>5, <1>6, Assemble

LEMMA CreateIndexStep ==
  ASSUME IInv, CreateIndex
  PROVE  IInv'
<1> USE FromIInv
<1>1. PICK name, fault :
        /\ name \in IndexNames
        /\ Counted(fault)
        /\ files' = files \cup {name} \/ files' = files
        /\ answer' \in {"SUCCEEDED", "FAILED"}
  BY DEF CreateIndex
<1>2. statements' \in 0 .. MaxStatements /\ del.on = FALSE /\ faults' \in Nat
  BY <1>1, StartedStep, CountedStep DEF CreateIndex
<1>3. /\ UNCHANGED <<rows, log, synced, global_txn_id, del, loaded, acked, late, stray>>
      /\ files' \subseteq IndexNames
  BY <1>1 DEF CreateIndex
<1>4. LogGood(CLog', global_txn_id', acked', late')
  BY <1>3 DEF CLog
<1> QED
  BY <1>1, <1>2, <1>3, <1>4, Assemble

LEMMA RestartStep ==
  ASSUME IInv, Restart
  PROVE  IInv'
<1> USE FromIInv
<1>1. /\ log' = <<>> /\ synced' = 0 /\ global_txn_id' = 0
      /\ loaded' = rows /\ acked' = {} /\ late' = {} /\ stray' = {} /\ answer' = "none"
      /\ UNCHANGED <<rows, files, del, statements, faults>> /\ ~del.on
  BY DEF Restart
<1>2. Tells(log', rows', loaded', stray')
  BY <1>1 DEF Tells, TellsOf
<1>3. LogGood(CLog', global_txn_id', acked', late')
  BY <1>1 DEF LogGood, CLog, Closes, UpTo, Answers
<1> QED
  BY <1>1, <1>2, <1>3, Assemble

\* The invariant that the four properties follow from.
THEOREM LogIsKept == Spec => []IInv
<1>1. Init => IInv
  BY InitIInv
<1>2. IInv /\ [Next]_vars => IInv'
  <2> SUFFICES ASSUME IInv, [Next]_vars PROVE IInv'
    OBVIOUS
  <2>1. CASE UNCHANGED vars
    BY <2>1 DEF vars, history, IInv, TypeOK, Tells, LogGood, CLog, Closes, UpTo, Answers,
                CommitsBelow
  <2>2. CASE Next
    BY <2>2, NoPlaceStep, InsertStep, BeginDeleteStep, DeleteRecordStep, EndDeleteStep,
       CreateIndexStep, RestartStep DEF Next
  <2> QED
    BY <2>1, <2>2
<1> QED
  BY <1>1, <1>2, PTL DEF Spec

\* The types, and a synced part that is a beginning of the log.
THEOREM TypesHold == Spec => []TypeOK
BY LogIsKept, PTL DEF IInv

\* The log says what the data file has, whatever statement failed where.
THEOREM LogAlwaysTells == Spec => []LogTellsRows
<1>1. IInv => LogTellsRows
  BY DEF IInv, Tells, TellsOf, LastIn, AboutIn, LogTellsRows, LastAbout, About
<1> QED
  BY <1>1, LogIsKept, PTL

\* No transaction goes on after its commit.
THEOREM CommitsClose == Spec => []CommitClosesTxn
<1>1. IInv => CommitClosesTxn
  BY DEF IInv, LogGood, CLog, Closes, IsCommit, CommitClosesTxn
<1> QED
  BY <1>1, LogIsKept, PTL

\* The client was told SUCCEEDED exactly of the transactions whose commit is in
\* the log file.
THEOREM SuccessesAreSynced == Spec => []SucceededIsSynced
<1>1. IInv => SucceededIsSynced
  BY DEF IInv, LogGood, CLog, Answers, IsCommit, SucceededIsSynced
<1> QED
  BY <1>1, LogIsKept, PTL

-----------------------------------------------------------------------------
(* Numbers.  The induction of the proofs about data: the numbers for      *)
(* which a claim fails are a set, and its least member leads to a          *)
(* contradiction.                                                          *)

LEMMA LeastNatural ==
  ASSUME NEW T \in SUBSET Nat, T # {}
  PROVE  \E x \in T : \A y \in T : x <= y
<1> DEFINE R == OpToRel(<, Nat)
<1>1. \A x, y \in Nat : x < y => <<x, y>> \in R
  BY DEF OpToRel
<1>2. PICK x \in T : \A y \in T : <<y, x>> \notin R
  <2>1. IsWellFoundedOn(R, Nat)
    BY NatLessThanWellFounded
  <2> HIDE DEF R
  <2> QED
    BY <2>1, WFMin
<1> HIDE DEF R
<1>3. ASSUME NEW y \in T PROVE x <= y
  <2>1. ~(y < x)
    BY <1>1, <1>2
  <2> QED
    BY <2>1
<1> QED
  BY <1>3

LEMMA GreatestNatural ==
  ASSUME NEW n \in Nat, NEW T \in SUBSET (0 .. n), T # {}
  PROVE  \E x \in T : \A y \in T : y <= x
<1> DEFINE D == {n - x : x \in T}
<1>1. D \in SUBSET Nat /\ D # {}
  <2>1. \A x \in T : n - x \in Nat
    OBVIOUS
  <2>2. D \subseteq Nat
    BY <2>1
  <2>3. PICK x \in T : TRUE
    OBVIOUS
  <2>4. n - x \in D
    OBVIOUS
  <2> QED
    BY <2>2, <2>4
<1>2. PICK d \in D : \A e \in D : d <= e
  <2> HIDE DEF D
  <2> QED
    BY <1>1, LeastNatural
<1>3. PICK x \in T : d = n - x
  BY <1>2
<1>4. ASSUME NEW y \in T PROVE y <= x
  <2>1. n - y \in D
    OBVIOUS
  <2> QED
    BY <1>2, <1>3, <2>1
<1> QED
  BY <1>4

-----------------------------------------------------------------------------
(* Keys. *)

Key == [attr : Int, rid : Nat \X Nat]

LEMMA CompareIsInt ==
  ASSUME NEW k \in Key, NEW l \in Key
  PROVE  /\ KeyCompare(k, l) \in Int
         /\ KeyCompare(l, k) = 0 - KeyCompare(k, l)
         /\ KeyCompare(k, k) = 0
<1>1. /\ k.attr \in Int /\ l.attr \in Int
      /\ k.rid[1] \in Nat /\ k.rid[2] \in Nat /\ l.rid[1] \in Nat /\ l.rid[2] \in Nat
  BY DEF Key
<1> QED
  BY <1>1 DEF KeyCompare, RidCompare

\* The comparison is no order, but it is one among keys no two of which compare
\* equal.
LEMMA CompareTransitive ==
  ASSUME NEW a \in Key, NEW b \in Key, NEW c \in Key,
         KeyCompare(a, b) < 0, KeyCompare(b, c) < 0, KeyCompare(a, c) # 0
  PROVE  KeyCompare(a, c) < 0
<1>1. /\ a.attr \in Int /\ b.attr \in Int /\ c.attr \in Int
      /\ a.rid[1] \in Nat /\ a.rid[2] \in Nat /\ b.rid[1] \in Nat /\ b.rid[2] \in Nat
      /\ c.rid[1] \in Nat /\ c.rid[2] \in Nat
  BY DEF Key
<1> QED
  BY <1>1 DEF KeyCompare, RidCompare

-----------------------------------------------------------------------------
(* The binary search. *)

SearchStep(keys, key, lb, r) ==
  LET first == r[1]
      count == r[2]
      step  == count \div 2
      c     == KeyCompare(keys[first + step], key)
  IN  IF count = 0 THEN [at |-> first, found |-> FALSE]
      ELSE IF c = 0 THEN [at |-> first + step, found |-> TRUE]
      ELSE IF c < 0 THEN lb[<<first + step + 1, count - step - 1>>]
      ELSE lb[<<first, step>>]
Search(keys, key) ==
  CHOOSE lb : lb = [r \in Nat \X (0 .. Len(keys)) |-> SearchStep(keys, key, lb, r)]

LEMMA LowerBoundIsSearch ==
  ASSUME NEW keys, NEW key
  PROVE  LowerBound(keys, key) = Search(keys, key)[<<1, Len(keys)>>]
BY DEF LowerBound, Search, SearchStep

\* halves of a part that is not empty are smaller
LEMMA Halves ==
  ASSUME NEW first \in Nat, NEW count \in Nat, count # 0
  PROVE  LET step == count \div 2
         IN  /\ step \in Nat /\ step < count
             /\ first + step \in Nat
             /\ first + step + 1 \in Nat /\ count - step - 1 \in Nat /\ count - step - 1 < count
OBVIOUS

\* each step of the search goes to a smaller part
LEMMA SearchDefined ==
  ASSUME NEW keys, NEW key, Len(keys) \in Nat
  PROVE  \A r \in Nat \X (0 .. Len(keys)) :
           Search(keys, key)[r] = SearchStep(keys, key, Search(keys, key), r)
<1> DEFINE N == Len(keys)
           D(k) == Nat \X (0 .. k)
           F(w, k) == w = [r \in D(k) |-> SearchStep(keys, key, w, r)]
           T == {k \in 0 .. N : ~\E w : F(w, k)}
<1>0. N \in Nat
  OBVIOUS
<1> HIDE DEF N
<1>1. T = {}
  <2> SUFFICES ASSUME T # {} PROVE FALSE
    OBVIOUS
  <2>1. PICK k \in T : \A j \in T : k <= j
    <3>1. T \in SUBSET Nat
      BY <1>0
    <3> HIDE DEF T
    <3> QED
      BY <3>1, LeastNatural
  <2>2. k \in 0 .. N /\ ~\E w : F(w, k)
    BY <2>1
  <2>3. PICK g : k = 0 \/ F(g, k - 1)
    <3>1. CASE k = 0
      BY <3>1
    <3>2. CASE k # 0
      <4>1. k - 1 \in 0 .. N /\ ~(k <= k - 1)
        BY <1>0, <2>2, <3>2
      <4>2. k - 1 \notin T
        BY <2>1, <4>1
      <4> QED
        BY <4>1, <4>2
    <3> QED
      BY <3>1, <3>2
  <2> DEFINE h == [r \in D(k) |-> SearchStep(keys, key, g, r)]
  <2>4. ASSUME NEW r \in D(k) PROVE SearchStep(keys, key, h, r) = SearchStep(keys, key, g, r)
    <3>1. r[1] \in Nat /\ r[2] \in Nat /\ r[2] <= k
      BY <1>0, <2>2
    <3>2. CASE r[2] = 0
      BY <3>2 DEF SearchStep
    <3>3. CASE r[2] # 0
      <4> DEFINE step  == r[2] \div 2
                 right == <<r[1] + step + 1, r[2] - step - 1>>
                 left  == <<r[1], step>>
      <4>1. /\ step \in 0 .. k - 1 /\ r[2] - step - 1 \in 0 .. k - 1
            /\ r[1] + step + 1 \in Nat /\ k # 0 /\ k \in Nat
        <5>1. /\ step \in Nat /\ step < r[2] /\ r[1] + step + 1 \in Nat
              /\ r[2] - step - 1 \in Nat /\ r[2] - step - 1 < r[2]
          BY <3>1, <3>3, Halves
        <5> HIDE DEF step
        <5> QED
          BY <1>0, <2>2, <3>1, <5>1
      <4>2. right \in D(k - 1) /\ left \in D(k - 1) /\ right \in D(k) /\ left \in D(k)
        BY <3>1, <4>1
      <4>3. h[right] = g[right] /\ h[left] = g[left]
        BY <2>3, <4>1, <4>2
      <4> HIDE DEF h
      <4> QED
        BY <3>3, <4>3 DEF SearchStep
    <3> QED
      BY <3>2, <3>3
  <2>5. F(h, k)
    BY <2>4
  <2> QED
    BY <2>2, <2>5
<1>2. \E w : F(w, N)
  <2>1. N \in 0 .. N
    BY <1>0
  <2> HIDE DEF F
  <2> QED
    BY <1>1, <2>1
<1>3. \E w : w = [r \in Nat \X (0 .. Len(keys)) |-> SearchStep(keys, key, w, r)]
  BY <1>2 DEF N
<1> HIDE DEF F, T
<1>4. Search(keys, key) =
        [r \in Nat \X (0 .. Len(keys)) |-> SearchStep(keys, key, Search(keys, key), r)]
  BY <1>3 DEF Search
<1> QED
  BY <1>4

\* keys before an equal or less one are less
Monotone(keys, key) ==
  \A i, j \in DOMAIN keys :
    i < j /\ KeyCompare(keys[j], key) <= 0 => KeyCompare(keys[i], key) < 0

\* where the keys less than key end, or a key that compares equal
IsBound(keys, key, res) ==
  \/ /\ res.found = TRUE /\ res.at \in 1 .. Len(keys)
     /\ KeyCompare(keys[res.at], key) = 0
  \/ /\ res.found = FALSE /\ res.at \in 1 .. Len(keys) + 1
     /\ \A i \in 1 .. Len(keys) : IF i < res.at THEN KeyCompare(keys[i], key) < 0
                                                ELSE KeyCompare(keys[i], key) > 0

\* The part from first of count keys has all that are not settled.
Unsettled(keys, key, first, count) ==
  \A i \in 1 .. Len(keys) : /\ i < first => KeyCompare(keys[i], key) < 0
                            /\ i >= first + count => KeyCompare(keys[i], key) > 0

LEMMA SearchFinds ==
  ASSUME NEW keys \in Seq(Key), NEW key \in Key, Monotone(keys, key)
  PROVE  IsBound(keys, key, LowerBound(keys, key))
<1> DEFINE N == Len(keys)
           S == Search(keys, key)
           P(count) == \A first \in 1 .. N + 1 :
                         first + count <= N + 1 /\ Unsettled(keys, key, first, count)
                           => IsBound(keys, key, S[<<first, count>>])
           T == {count \in 0 .. N : ~P(count)}
           C(i) == KeyCompare(keys[i], key)
<1>1. N \in Nat /\ DOMAIN keys = 1 .. N /\ \A i \in 1 .. N : keys[i] \in Key
  OBVIOUS
<1>2. \A i \in 1 .. N : C(i) \in Int
  BY <1>1, CompareIsInt
<1>3. \A r \in Nat \X (0 .. N) : S[r] = SearchStep(keys, key, S, r)
  BY <1>1, SearchDefined
<1>4. \A i, j \in 1 .. N : i < j /\ C(j) <= 0 => C(i) < 0
  BY <1>1 DEF Monotone
<1> HIDE DEF S, C, N
<1>5. T = {}
  <2> SUFFICES ASSUME T # {} PROVE FALSE
    OBVIOUS
  <2>1. PICK count \in T : \A j \in T : count <= j
    <3>1. T \in SUBSET Nat
      BY <1>1
    <3> HIDE DEF T
    <3> QED
      BY <3>1, LeastNatural
  <2>2. count \in 0 .. N /\ ~P(count) /\ count \in Nat
    BY <1>1, <2>1
  <2>3. PICK first \in 1 .. N + 1 :
          /\ first + count <= N + 1 /\ Unsettled(keys, key, first, count)
          /\ ~IsBound(keys, key, S[<<first, count>>])
    BY <2>2
  <2>4. \A j \in 0 .. N : j < count => P(j)
    <3> SUFFICES ASSUME NEW j \in 0 .. N, j < count PROVE P(j)
      OBVIOUS
    <3>1. j \notin T
      BY <1>1, <2>1, <2>2
    <3> HIDE DEF P
    <3> QED
      BY <3>1
  <2> HIDE DEF T, P
  <2> DEFINE r    == <<first, count>>
             step == count \div 2
             c    == C(first + step)
  <2>5. S[r] = IF count = 0 THEN [at |-> first, found |-> FALSE]
               ELSE IF c = 0 THEN [at |-> first + step, found |-> TRUE]
               ELSE IF c < 0 THEN S[<<first + step + 1, count - step - 1>>]
               ELSE S[<<first, step>>]
    <3>1. r \in Nat \X (0 .. N) /\ r[1] = first /\ r[2] = count
      BY <1>1, <2>2, <2>3
    <3>2. S[r] = SearchStep(keys, key, S, r)
      BY <1>3, <3>1
    <3> HIDE DEF r
    <3> QED
      BY <3>1, <3>2 DEF SearchStep, C
  <2>6. \A i \in 1 .. N : (i < first => C(i) < 0) /\ (i >= first + count => C(i) > 0)
    BY <2>3 DEF Unsettled, C, N
  <2>7. first \in Nat /\ first >= 1
    BY <1>1
  <2>8. CASE count = 0
    <3>1. S[r] = [at |-> first, found |-> FALSE]
      BY <2>5, <2>8
    <3>2. IsBound(keys, key, S[r])
      BY <1>1, <2>3, <2>6, <2>7, <2>8, <3>1 DEF IsBound, C, N
    <3> QED
      BY <2>3, <3>2
  <2>9. CASE count # 0
    <3>1. /\ step \in Nat /\ step < count
          /\ first + step + 1 \in Nat /\ count - step - 1 \in Nat /\ count - step - 1 < count
      BY <2>2, <2>7, <2>9, Halves
    <3> HIDE DEF step
    <3>2. first + step \in 1 .. N
      BY <1>1, <2>2, <2>3, <2>7, <3>1
    <3>3. c \in Int
      BY <1>2, <3>2
    <3>4. CASE c = 0
      <4>1. S[r] = [at |-> first + step, found |-> TRUE]
        BY <2>5, <2>9, <3>4
      <4>2. IsBound(keys, key, S[r])
        BY <3>2, <3>4, <4>1 DEF IsBound, C, N
      <4> QED
        BY <2>3, <4>2
    <3>5. CASE c < 0
      <4> DEFINE f == first + step + 1
                 n == count - step - 1
      <4>1. S[r] = S[<<f, n>>]
        BY <2>5, <2>9, <3>5
      <4>2. f \in 1 .. N + 1 /\ n \in 0 .. N /\ n < count /\ f + n = first + count
        BY <1>1, <2>2, <2>3, <2>7, <3>1, <3>2
      <4>3. \A i \in 1 .. N : i < f => C(i) < 0
        <5> SUFFICES ASSUME NEW i \in 1 .. N, i < f PROVE C(i) < 0
          OBVIOUS
        <5>1. i = first + step \/ i < first + step
          BY <3>1, <3>2
        <5>2. c <= 0
          BY <3>3, <3>5
        <5> QED
          BY <1>4, <3>2, <3>5, <5>1, <5>2
      <4> HIDE DEF f, n
      <4>4. Unsettled(keys, key, f, n)
        BY <2>6, <4>2, <4>3 DEF Unsettled, C, N
      <4>5. P(n) /\ f + n <= N + 1
        BY <2>3, <2>4, <4>2
      <4>6. IsBound(keys, key, S[<<f, n>>])
        BY <4>2, <4>4, <4>5 DEF P
      <4> QED
        BY <2>3, <4>1, <4>6
    <3>6. CASE c > 0
      <4>1. S[r] = S[<<first, step>>]
        BY <2>5, <2>9, <3>3, <3>6
      <4>2. step \in 0 .. N /\ first + step <= N + 1
        BY <1>1, <2>2, <2>3, <2>7, <3>1, <3>2
      <4>3. \A i \in 1 .. N : i >= first + step => C(i) > 0
        <5> SUFFICES ASSUME NEW i \in 1 .. N, i >= first + step PROVE C(i) > 0
          OBVIOUS
        <5>1. i = first + step \/ first + step < i
          BY <3>1, <3>2
        <5>2. C(i) \in Int
          BY <1>2
        <5> QED
          BY <1>4, <3>2, <3>3, <3>6, <5>1, <5>2
      <4>4. Unsettled(keys, key, first, step)
        BY <2>6, <4>3 DEF Unsettled, C, N
      <4>5. P(step)
        BY <2>4, <3>1, <4>2
      <4>6. IsBound(keys, key, S[<<first, step>>])
        BY <4>2, <4>4, <4>5 DEF P
      <4> QED
        BY <2>3, <4>1, <4>6
    <3> HIDE DEF c
    <3> QED
      BY <3>3, <3>4, <3>5, <3>6
  <2> QED
    BY <2>8, <2>9
<1>6. P(N)
  <2>1. N \in 0 .. N
    BY <1>1
  <2> HIDE DEF P
  <2> QED
    BY <1>5, <2>1
<1>7. Unsettled(keys, key, 1, N)
  BY <1>1 DEF Unsettled, N
<1>8. IsBound(keys, key, S[<<1, N>>])
  BY <1>1, <1>6, <1>7
<1> QED
  BY <1>8, LowerBoundIsSearch DEF S, N

-----------------------------------------------------------------------------
(* Entering and removing keys. *)

LEMMA InsertAtShape ==
  ASSUME NEW S, NEW s \in Seq(S), NEW e \in S, NEW p \in 1 .. Len(s) + 1
  PROVE  /\ InsertAt(s, p, e) \in Seq(S)
         /\ Len(InsertAt(s, p, e)) = Len(s) + 1
         /\ \A i \in 1 .. Len(s) + 1 :
              InsertAt(s, p, e)[i] = IF i < p THEN s[i] ELSE IF i = p THEN e ELSE s[i - 1]
<1> DEFINE N == Len(s)
           a == SubSeq(s, 1, p - 1)
           b == SubSeq(s, p, N)
           c == a \o <<e>>
<1>1. N \in Nat /\ p \in 1 .. N + 1 /\ p \in Int /\ \A i \in 1 .. N : s[i] \in S
  OBVIOUS
<1>2. /\ a \in Seq(S) /\ Len(a) = p - 1 /\ \A i \in 1 .. p - 1 : a[i] = s[i]
  <2>1. \A i \in 1 .. p - 1 : s[i] \in S
    BY <1>1
  <2> HIDE DEF N
  <2> QED
    BY <1>1, <2>1, SubSeqProperties
<1>3. /\ b \in Seq(S) /\ Len(b) = N - p + 1 /\ \A i \in 1 .. N - p + 1 : b[i] = s[p + i - 1]
  <2>1. \A i \in p .. N : s[i] \in S
    BY <1>1
  <2> HIDE DEF N
  <2> QED
    BY <1>1, <2>1, SubSeqProperties
<1>4. <<e>> \in Seq(S) /\ Len(<<e>>) = 1 /\ <<e>>[1] = e
  OBVIOUS
<1>5. InsertAt(s, p, e) = c \o b
  BY DEF InsertAt
<1> HIDE DEF a, b, N
<1>6. /\ c \in Seq(S) /\ Len(c) = p
      /\ \A i \in 1 .. p : c[i] = IF i <= p - 1 THEN a[i] ELSE <<e>>[i - (p - 1)]
  <2>1. /\ c \in Seq(S) /\ Len(c) = Len(a) + Len(<<e>>)
        /\ \A i \in 1 .. Len(a) + Len(<<e>>) :
             c[i] = IF i <= Len(a) THEN a[i] ELSE <<e>>[i - Len(a)]
    BY <1>2, <1>4, ConcatProperties
  <2> HIDE DEF c
  <2> QED
    BY <1>1, <1>2, <1>4, <2>1
<1> HIDE DEF c
<1>7. /\ c \o b \in Seq(S) /\ Len(c \o b) = Len(c) + Len(b)
      /\ \A i \in 1 .. Len(c) + Len(b) :
           (c \o b)[i] = IF i <= Len(c) THEN c[i] ELSE b[i - Len(c)]
  BY <1>3, <1>6, ConcatProperties
<1>8. Len(c) + Len(b) = N + 1
  BY <1>1, <1>3, <1>6
<1>9. ASSUME NEW i \in 1 .. N + 1
      PROVE  (c \o b)[i] = IF i < p THEN s[i] ELSE IF i = p THEN e ELSE s[i - 1]
  <2>1. CASE i < p
    BY <1>1, <1>2, <1>6, <1>7, <1>8, <2>1
  <2>2. CASE i = p
    <3>1. i - (p - 1) = 1 /\ ~(i <= p - 1) /\ i \in 1 .. p /\ i <= Len(c)
      BY <1>1, <1>6, <2>2
    <3> QED
      BY <1>4, <1>6, <1>7, <1>8, <2>2, <3>1
  <2>3. CASE i > p
    <3>1. i - p \in 1 .. N - p + 1 /\ p + (i - p) - 1 = i - 1 /\ ~(i <= Len(c))
      BY <1>1, <1>6, <2>3
    <3>2. (c \o b)[i] = b[i - p]
      BY <1>6, <1>7, <1>8, <3>1
    <3> QED
      BY <1>1, <1>3, <2>3, <3>1, <3>2
  <2>4. i < p \/ i = p \/ i > p
    BY <1>1
  <2> QED
    BY <2>1, <2>2, <2>3, <2>4
<1> QED
  BY <1>5, <1>7, <1>8, <1>9 DEF N

LEMMA RemoveAtShape ==
  ASSUME NEW S, NEW s \in Seq(S), NEW p \in 1 .. Len(s)
  PROVE  /\ RemoveAt(s, p) \in Seq(S)
         /\ Len(RemoveAt(s, p)) = Len(s) - 1
         /\ \A i \in 1 .. Len(s) - 1 :
              RemoveAt(s, p)[i] = IF i < p THEN s[i] ELSE s[i + 1]
<1> DEFINE N == Len(s)
           a == SubSeq(s, 1, p - 1)
           b == SubSeq(s, p + 1, N)
<1>1. N \in Nat /\ p \in 1 .. N /\ p \in Int /\ \A i \in 1 .. N : s[i] \in S
  OBVIOUS
<1>2. /\ a \in Seq(S) /\ Len(a) = p - 1 /\ \A i \in 1 .. p - 1 : a[i] = s[i]
  <2>1. \A i \in 1 .. p - 1 : s[i] \in S
    BY <1>1
  <2> HIDE DEF N
  <2> QED
    BY <1>1, <2>1, SubSeqProperties
<1>3. /\ b \in Seq(S) /\ Len(b) = N - p /\ \A i \in 1 .. N - p : b[i] = s[p + i]
  <2>1. \A i \in p + 1 .. N : s[i] \in S
    BY <1>1
  <2> HIDE DEF N
  <2> QED
    BY <1>1, <2>1, SubSeqProperties
<1>4. RemoveAt(s, p) = a \o b
  BY DEF RemoveAt
<1> HIDE DEF a, b, N
<1>5. /\ a \o b \in Seq(S) /\ Len(a \o b) = Len(a) + Len(b)
      /\ \A i \in 1 .. Len(a) + Len(b) :
           (a \o b)[i] = IF i <= Len(a) THEN a[i] ELSE b[i - Len(a)]
  BY <1>2, <1>3, ConcatProperties
<1>6. Len(a) + Len(b) = N - 1
  BY <1>1, <1>2, <1>3
<1>7. ASSUME NEW i \in 1 .. N - 1
      PROVE  (a \o b)[i] = IF i < p THEN s[i] ELSE s[i + 1]
  <2>1. CASE i < p
    BY <1>1, <1>2, <1>5, <1>6, <2>1
  <2>2. CASE ~(i < p)
    <3>1. i - (p - 1) \in 1 .. N - p /\ p + (i - (p - 1)) = i + 1 /\ ~(i <= Len(a))
      BY <1>1, <1>2, <2>2
    <3>2. (a \o b)[i] = b[i - (p - 1)]
      BY <1>2, <1>5, <1>6, <3>1
    <3> QED
      BY <1>3, <2>2, <3>1, <3>2
  <2> QED
    BY <2>1, <2>2
<1> QED
  BY <1>4, <1>5, <1>6, <1>7 DEF N

\* each key before the ones it compares less than
Ordered(es) == \A i, j \in DOMAIN es : i < j => KeyCompare(es[i], es[j]) < 0

\* no other key compares equal to key
Separate(es, key) == \A i \in DOMAIN es : es[i] = key \/ KeyCompare(es[i], key) # 0

LEMMA OrderedIsMonotone ==
  ASSUME NEW es \in Seq(Key), NEW key \in Key, Ordered(es), Separate(es, key)
  PROVE  Monotone(es, key)
<1> SUFFICES ASSUME NEW i \in DOMAIN es, NEW j \in DOMAIN es,
                    i < j, KeyCompare(es[j], key) <= 0
             PROVE  KeyCompare(es[i], key) < 0
  BY DEF Monotone
<1>1. es[i] \in Key /\ es[j] \in Key
  OBVIOUS
<1>2. KeyCompare(es[i], es[j]) < 0
  BY DEF Ordered
<1>3. CASE es[j] = key
  BY <1>2, <1>3
<1>4. CASE es[j] # key
  <2>1. KeyCompare(es[j], key) < 0
    <3>1. KeyCompare(es[j], key) # 0 /\ KeyCompare(es[j], key) \in Int
      BY <1>1, <1>4, CompareIsInt DEF Separate
    <3> QED
      BY <3>1
  <2>2. es[i] # key
    <3> SUFFICES ASSUME es[i] = key PROVE FALSE
      OBVIOUS
    <3>1. KeyCompare(es[j], es[i]) < 0
      BY <2>1
    <3>2. /\ KeyCompare(es[i], es[j]) \in Int
          /\ KeyCompare(es[j], es[i]) = 0 - KeyCompare(es[i], es[j])
      BY <1>1, CompareIsInt
    <3> QED
      BY <1>2, <3>1, <3>2
  <2>3. KeyCompare(es[i], key) # 0
    BY <2>2 DEF Separate
  <2> QED
    BY <1>1, <1>2, <2>1, <2>3, CompareTransitive
<1> QED
  BY <1>3, <1>4

\* A key that compares equal to none gets its place.
LEMMA KeyEntered ==
  ASSUME NEW es \in Seq(Key), NEW key \in Key, Ordered(es),
         \A i \in DOMAIN es : KeyCompare(es[i], key) # 0
  PROVE  LET new == InsertAt(es, LowerBound(es, key).at, key)
         IN  /\ ~LowerBound(es, key).found
             /\ new \in Seq(Key) /\ Ordered(new)
             /\ ToSet(new) = ToSet(es) \cup {key}
<1> DEFINE N   == Len(es)
           p   == LowerBound(es, key).at
           new == InsertAt(es, p, key)
<1>1. N \in Nat /\ DOMAIN es = 1 .. N /\ \A i \in 1 .. N : es[i] \in Key
  OBVIOUS
<1>2. IsBound(es, key, LowerBound(es, key))
  <2>1. Monotone(es, key)
    BY OrderedIsMonotone DEF Separate
  <2> QED
    BY <2>1, SearchFinds
<1>3. /\ LowerBound(es, key).found = FALSE /\ p \in 1 .. N + 1
      /\ \A i \in 1 .. N : IF i < p THEN KeyCompare(es[i], key) < 0
                                    ELSE KeyCompare(es[i], key) > 0
  BY <1>1, <1>2 DEF IsBound
<1> HIDE DEF p
<1>4. /\ new \in Seq(Key) /\ Len(new) = N + 1
      /\ \A i \in 1 .. N + 1 :
           new[i] = IF i < p THEN es[i] ELSE IF i = p THEN key ELSE es[i - 1]
  BY <1>3, InsertAtShape
<1> HIDE DEF new, N
<1>5. DOMAIN new = 1 .. N + 1
  BY <1>1, <1>4
<1>6. ASSUME NEW i \in 1 .. N + 1, NEW j \in 1 .. N + 1, i < j
      PROVE  KeyCompare(new[i], new[j]) < 0
  <2>1. \A k, l \in 1 .. N : k < l => KeyCompare(es[k], es[l]) < 0
    BY <1>1 DEF Ordered
  <2>2. \A k \in 1 .. N : k >= p => KeyCompare(key, es[k]) < 0
    <3> SUFFICES ASSUME NEW k \in 1 .. N, k >= p PROVE KeyCompare(key, es[k]) < 0
      OBVIOUS
    <3>1. /\ KeyCompare(es[k], key) \in Int
          /\ KeyCompare(key, es[k]) = 0 - KeyCompare(es[k], key)
      BY <1>1, CompareIsInt
    <3>2. KeyCompare(es[k], key) > 0
      BY <1>1, <1>3
    <3> QED
      BY <3>1, <3>2
  <2>3. CASE j < p
    <3>1. new[i] = es[i] /\ new[j] = es[j] /\ i \in 1 .. N /\ j \in 1 .. N
      BY <1>1, <1>3, <1>4, <1>6, <2>3
    <3> QED
      BY <1>6, <2>1, <3>1
  <2>4. CASE j = p
    <3>1. new[i] = es[i] /\ new[j] = key /\ i \in 1 .. N /\ i < p
      BY <1>1, <1>3, <1>4, <1>6, <2>4
    <3> QED
      BY <1>3, <3>1
  <2>5. CASE j > p /\ i < p
    <3>1. /\ new[i] = es[i] /\ new[j] = es[j - 1] /\ i \in 1 .. N /\ j - 1 \in 1 .. N
          /\ i < j - 1
      BY <1>1, <1>3, <1>4, <1>6, <2>5
    <3> QED
      BY <2>1, <3>1
  <2>6. CASE j > p /\ i = p
    <3>1. new[i] = key /\ new[j] = es[j - 1] /\ j - 1 \in 1 .. N /\ j - 1 >= p
      BY <1>1, <1>3, <1>4, <1>6, <2>6
    <3> QED
      BY <2>2, <3>1
  <2>7. CASE i > p
    <3>1. /\ new[i] = es[i - 1] /\ new[j] = es[j - 1] /\ i - 1 \in 1 .. N /\ j - 1 \in 1 .. N
          /\ i - 1 < j - 1
      BY <1>1, <1>3, <1>4, <1>6, <2>7
    <3> QED
      BY <2>1, <3>1
  <2> QED
    BY <1>1, <1>3, <2>3, <2>4, <2>5, <2>6, <2>7
<1>7. ToSet(new) = ToSet(es) \cup {key}
  <2>1. \A i \in 1 .. N + 1 : new[i] \in ToSet(es) \cup {key}
    <3> SUFFICES ASSUME NEW i \in 1 .. N + 1, i # p PROVE new[i] \in ToSet(es)
      BY <1>4
    <3>1. \/ i < p /\ i \in 1 .. N /\ new[i] = es[i]
          \/ i - 1 \in 1 .. N /\ new[i] = es[i - 1]
      BY <1>1, <1>3, <1>4
    <3> QED
      BY <1>1, <3>1 DEF ToSet
  <2>2. \A i \in 1 .. N : es[i] \in ToSet(new)
    <3> SUFFICES ASSUME NEW i \in 1 .. N PROVE \E j \in 1 .. N + 1 : new[j] = es[i]
      BY <1>5 DEF ToSet
    <3>1. CASE i < p
      BY <1>1, <1>4, <3>1
    <3>2. CASE i >= p
      <4>1. i + 1 \in 1 .. N + 1 /\ new[i + 1] = es[i]
        BY <1>1, <1>3, <1>4, <3>2
      <4> QED
        BY <4>1
    <3> QED
      BY <1>1, <1>3, <3>1, <3>2
  <2>3. key \in ToSet(new)
    BY <1>3, <1>4, <1>5 DEF ToSet
  <2> QED
    BY <1>1, <1>5, <2>1, <2>2, <2>3 DEF ToSet
<1>8. Ordered(new)
  BY <1>5, <1>6 DEF Ordered
<1> QED
  BY <1>3, <1>4, <1>7, <1>8 DEF new, p

\* A key that is there is found and taken away.
LEMMA KeyRemoved ==
  ASSUME NEW es \in Seq(Key), NEW key \in ToSet(es), Ordered(es), Separate(es, key)
  PROVE  LET new == RemoveAt(es, LowerBound(es, key).at)
         IN  /\ LowerBound(es, key).found
             /\ new \in Seq(Key) /\ Ordered(new)
             /\ ToSet(new) = ToSet(es) \ {key}
<1> DEFINE N   == Len(es)
           p   == LowerBound(es, key).at
           new == RemoveAt(es, p)
<1>1. N \in Nat /\ DOMAIN es = 1 .. N /\ \A i \in 1 .. N : es[i] \in Key
  OBVIOUS
<1>2. key \in Key
  BY <1>1 DEF ToSet
<1>3. IsBound(es, key, LowerBound(es, key))
  BY <1>2, OrderedIsMonotone, SearchFinds
<1>4. PICK q \in 1 .. N : es[q] = key
  BY <1>1 DEF ToSet
<1>5. LowerBound(es, key).found = TRUE /\ p \in 1 .. N /\ KeyCompare(es[p], key) = 0
  <2>1. KeyCompare(es[q], key) = 0
    BY <1>1, <1>4, CompareIsInt
  <2>2. ~(KeyCompare(es[q], key) < 0) /\ ~(KeyCompare(es[q], key) > 0)
    BY <2>1
  <2> QED
    BY <1>3, <2>2 DEF IsBound
<1> HIDE DEF p
<1>6. es[p] = key
  BY <1>1, <1>5 DEF Separate
<1>7. /\ new \in Seq(Key) /\ Len(new) = N - 1
      /\ \A i \in 1 .. N - 1 : new[i] = IF i < p THEN es[i] ELSE es[i + 1]
  BY <1>5, RemoveAtShape
<1> HIDE DEF new, N
<1>8. DOMAIN new = 1 .. N - 1
  BY <1>1, <1>5, <1>7
<1>9. \A k, l \in 1 .. N : k < l => KeyCompare(es[k], es[l]) < 0
  BY <1>1 DEF Ordered
<1>10. ASSUME NEW i \in 1 .. N - 1, NEW j \in 1 .. N - 1, i < j
       PROVE  KeyCompare(new[i], new[j]) < 0
  <2>1. CASE j < p
    BY <1>1, <1>5, <1>7, <1>9, <1>10, <2>1
  <2>2. CASE i < p /\ j >= p
    <3>1. new[i] = es[i] /\ new[j] = es[j + 1] /\ i \in 1 .. N /\ j + 1 \in 1 .. N /\ i < j + 1
      BY <1>1, <1>5, <1>7, <1>10, <2>2
    <3> QED
      BY <1>9, <3>1
  <2>3. CASE i >= p
    <3>1. /\ new[i] = es[i + 1] /\ new[j] = es[j + 1] /\ i + 1 \in 1 .. N /\ j + 1 \in 1 .. N
          /\ i + 1 < j + 1
      BY <1>1, <1>5, <1>7, <1>10, <2>3
    <3> QED
      BY <1>9, <3>1
  <2> QED
    BY <1>1, <1>5, <1>10, <2>1, <2>2, <2>3
<1>11. \A i \in 1 .. N : i # p => es[i] # key
  <2> SUFFICES ASSUME NEW i \in 1 .. N, i # p, es[i] = key PROVE FALSE
    OBVIOUS
  <2>1. KeyCompare(es[i], es[p]) = 0 /\ KeyCompare(es[p], es[i]) = 0
    BY <1>2, <1>6, CompareIsInt
  <2>2. i < p \/ p < i
    BY <1>1, <1>5
  <2>3. ~(KeyCompare(es[i], es[p]) < 0) /\ ~(KeyCompare(es[p], es[i]) < 0)
    BY <2>1
  <2> QED
    BY <1>5, <1>9, <2>2, <2>3
<1>12. ToSet(new) = ToSet(es) \ {key}
  <2>1. \A i \in 1 .. N - 1 : new[i] \in ToSet(es) \ {key}
    <3> SUFFICES ASSUME NEW i \in 1 .. N - 1 PROVE \E j \in 1 .. N : j # p /\ new[i] = es[j]
      BY <1>1, <1>11 DEF ToSet
    <3>1. CASE i < p
      <4>1. i \in 1 .. N /\ i # p /\ new[i] = es[i]
        BY <1>1, <1>5, <1>7, <3>1
      <4> QED
        BY <4>1
    <3>2. CASE i >= p
      <4>1. i + 1 \in 1 .. N /\ i + 1 # p /\ new[i] = es[i + 1]
        BY <1>1, <1>5, <1>7, <3>2
      <4> QED
        BY <4>1
    <3> QED
      BY <1>1, <1>5, <3>1, <3>2
  <2>2. \A i \in 1 .. N : es[i] # key => es[i] \in ToSet(new)
    <3> SUFFICES ASSUME NEW i \in 1 .. N, i # p PROVE \E j \in 1 .. N - 1 : new[j] = es[i]
      BY <1>6, <1>8 DEF ToSet
    <3>1. CASE i < p
      <4>1. i \in 1 .. N - 1 /\ new[i] = es[i]
        BY <1>1, <1>5, <1>7, <3>1
      <4> QED
        BY <4>1
    <3>2. CASE i > p
      <4>1. i - 1 \in 1 .. N - 1 /\ new[i - 1] = es[i]
        BY <1>1, <1>5, <1>7, <3>2
      <4> QED
        BY <4>1
    <3> QED
      BY <1>1, <1>5, <3>1, <3>2
  <2> QED
    BY <1>1, <1>8, <2>1, <2>2 DEF ToSet
<1>13. Ordered(new)
  BY <1>8, <1>10 DEF Ordered
<1> QED
  BY <1>5, <1>7, <1>12, <1>13 DEF new, p

-----------------------------------------------------------------------------
(* One index and the records. *)

Index == [name : IndexNames, field : Fields, entries : Seq(Key)]

\* The keys that a record gets compare equal to no other record's.
Apart(rw) ==
  \A r, s \in DOMAIN rw, f \in Fields :
    r # s /\ rw[r].val[f] = rw[s].val[f] => RidCompare(r, s) # 0

\* The index has the entries of the records and no other, in their order.
Exact(ix, rw) ==
  /\ ix \in Index
  /\ Ordered(ix.entries)
  /\ ToSet(ix.entries) = {EntryOf(ix, rw[rid], rid) : rid \in DOMAIN rw}

LEMMA EntryIsKey ==
  ASSUME NEW ix \in Index, NEW rid \in Rids, NEW row \in Row
  PROVE  EntryOf(ix, row, rid) \in Key
<1>1. row.val[ix.field] \in Int /\ rid \in Nat \X Nat
  BY TableAssumption DEF Row, Index
<1> QED
  BY <1>1 DEF EntryOf, Key

\* Entries of records that are apart do not compare equal.
LEMMA EntriesApart ==
  ASSUME NEW ix \in Index, NEW rw, RowsOK(rw), Apart(rw),
         NEW r \in DOMAIN rw, NEW s \in DOMAIN rw, r # s
  PROVE  KeyCompare(EntryOf(ix, rw[r], r), EntryOf(ix, rw[s], s)) # 0
<1>1. ix.field \in Fields
  BY DEF Index
<1>2. rw[r].val[ix.field] \in Int /\ rw[s].val[ix.field] \in Int
  BY <1>1, TableAssumption DEF RowsOK, Row
<1>3. rw[r].val[ix.field] = rw[s].val[ix.field] => RidCompare(r, s) # 0
  BY <1>1 DEF Apart
<1> QED
  BY <1>2, <1>3 DEF KeyCompare, EntryOf

LEMMA EnteredExact ==
  ASSUME NEW ix, NEW rw, NEW rid \in Rids, NEW row \in Row, NEW rx,
         rid \notin DOMAIN rw, RowsOK(rw), Exact(ix, rw), Apart(rx),
         rx = [r \in DOMAIN rw \cup {rid} |-> IF r = rid THEN row ELSE rw[r]]
  PROVE  /\ ~Holds(ix, row, rid)
         /\ Exact(Entered(ix, row, rid), rx)
<1> DEFINE es  == ix.entries
           key == EntryOf(ix, row, rid)
           new == InsertAt(es, LowerBound(es, key).at, key)
           jx  == Entered(ix, row, rid)
<1>1. ix \in Index /\ es \in Seq(Key) /\ Ordered(es) /\ key \in Key
  BY EntryIsKey DEF Exact, Index
<1>2. RowsOK(rx) /\ rid \in DOMAIN rx /\ rx[rid] = row
  BY DEF RowsOK
<1>3. \A r \in DOMAIN rw : r \in DOMAIN rx /\ rx[r] = rw[r] /\ r # rid
  OBVIOUS
<1>4. \A i \in DOMAIN es : KeyCompare(es[i], key) # 0
  <2> SUFFICES ASSUME NEW i \in DOMAIN es PROVE KeyCompare(es[i], key) # 0
    OBVIOUS
  <2>1. PICK r \in DOMAIN rw : es[i] = EntryOf(ix, rw[r], r)
    BY DEF Exact, ToSet
  <2>2. KeyCompare(EntryOf(ix, rx[r], r), EntryOf(ix, rx[rid], rid)) # 0
    BY <1>1, <1>2, <1>3, EntriesApart
  <2> QED
    BY <1>2, <1>3, <2>1, <2>2
<1>5. /\ ~LowerBound(es, key).found
      /\ new \in Seq(Key) /\ Ordered(new) /\ ToSet(new) = ToSet(es) \cup {key}
  BY <1>1, <1>4, KeyEntered
<1>6. jx = [ix EXCEPT !.entries = new]
  BY DEF Entered
<1> HIDE DEF new, jx
<1>7. jx \in Index /\ jx.entries = new /\ jx.field = ix.field
  BY <1>1, <1>5, <1>6 DEF Index
<1>8. ToSet(new) = {EntryOf(jx, rx[r], r) : r \in DOMAIN rx}
  <2>1. ToSet(es) = {EntryOf(ix, rw[r], r) : r \in DOMAIN rw}
    BY DEF Exact
  <2>2. \A r, w : EntryOf(jx, w, r) = EntryOf(ix, w, r)
    BY <1>7 DEF EntryOf
  <2>3. {EntryOf(jx, rx[r], r) : r \in DOMAIN rx} = {EntryOf(ix, rx[r], r) : r \in DOMAIN rx}
    BY <2>2
  <2>4. {EntryOf(ix, rx[r], r) : r \in DOMAIN rx} =
          {EntryOf(ix, rw[r], r) : r \in DOMAIN rw} \cup {key}
    BY <1>2, <1>3
  <2> QED
    BY <1>5, <2>1, <2>3, <2>4
<1>9. ~Holds(ix, row, rid)
  BY <1>5 DEF Holds
<1> QED
  BY <1>5, <1>7, <1>8, <1>9 DEF Exact, jx

LEMMA RemovedExact ==
  ASSUME NEW ix, NEW rw, NEW rid \in DOMAIN rw, NEW rx,
         RowsOK(rw), Exact(ix, rw), Apart(rw),
         rx = [r \in DOMAIN rw \ {rid} |-> rw[r]]
  PROVE  /\ Holds(ix, rw[rid], rid)
         /\ Exact(Removed(ix, rw[rid], rid), rx)
<1> DEFINE es  == ix.entries
           key == EntryOf(ix, rw[rid], rid)
           new == RemoveAt(es, LowerBound(es, key).at)
           jx  == Removed(ix, rw[rid], rid)
           All == {EntryOf(ix, rw[r], r) : r \in DOMAIN rw}
<1>1. ix \in Index /\ es \in Seq(Key) /\ Ordered(es) /\ ToSet(es) = All
  BY DEF Exact, Index
<1>2. key \in ToSet(es)
  BY <1>1
<1>3. Separate(es, key)
  <2> SUFFICES ASSUME NEW i \in DOMAIN es, es[i] # key PROVE KeyCompare(es[i], key) # 0
    BY DEF Separate
  <2>1. PICK r \in DOMAIN rw : es[i] = EntryOf(ix, rw[r], r)
    BY <1>1 DEF ToSet
  <2>2. r # rid
    BY <2>1
  <2> QED
    BY <1>1, <2>1, <2>2, EntriesApart
<1>4. /\ LowerBound(es, key).found
      /\ new \in Seq(Key) /\ Ordered(new) /\ ToSet(new) = ToSet(es) \ {key}
  BY <1>1, <1>2, <1>3, KeyRemoved
<1>5. jx = [ix EXCEPT !.entries = new]
  BY DEF Removed
<1> HIDE DEF new, jx
<1>6. jx \in Index /\ jx.entries = new /\ jx.field = ix.field
  BY <1>1, <1>4, <1>5 DEF Index
<1>7. ToSet(new) = {EntryOf(jx, rx[r], r) : r \in DOMAIN rx}
  <2>1. \A r, w : EntryOf(jx, w, r) = EntryOf(ix, w, r)
    BY <1>6 DEF EntryOf
  <2>2. {EntryOf(jx, rx[r], r) : r \in DOMAIN rx} = {EntryOf(ix, rx[r], r) : r \in DOMAIN rx}
    BY <2>1
  <2>3. \A r \in DOMAIN rw : EntryOf(ix, rw[r], r) = key => r = rid
    BY DEF EntryOf
  <2>4. {EntryOf(ix, rx[r], r) : r \in DOMAIN rx} = All \ {key}
    <3>1. \A r \in DOMAIN rx : r \in DOMAIN rw /\ rx[r] = rw[r] /\ r # rid
      OBVIOUS
    <3>2. \A r \in DOMAIN rw : r # rid => r \in DOMAIN rx
      OBVIOUS
    <3> HIDE DEF key
    <3>3. \A k \in All : k # key => \E r \in DOMAIN rx : k = EntryOf(ix, rx[r], r)
      BY <3>1, <3>2 DEF key
    <3>4. \A r \in DOMAIN rx : EntryOf(ix, rx[r], r) \in All \ {key}
      BY <2>3, <3>1
    <3> HIDE DEF All
    <3> QED
      BY <3>3, <3>4
  <2> QED
    BY <1>1, <1>4, <2>2, <2>4
<1>8. Holds(ix, rw[rid], rid)
  BY <1>4 DEF Holds
<1> QED
  BY <1>4, <1>6, <1>7, <1>8 DEF Exact, jx

\* As many entries as records.
LEMMA ExactCounts ==
  ASSUME NEW ix, NEW rw, Exact(ix, rw)
  PROVE  Len(ix.entries) = Cardinality(DOMAIN rw)
<1> DEFINE es == ix.entries
           N  == Len(es)
           f  == [i \in 1 .. N |-> es[i].rid]
<1>1. es \in Seq(Key) /\ Ordered(es) /\ N \in Nat /\ DOMAIN es = 1 .. N
  BY DEF Exact, Index
<1>2. \A i \in 1 .. N : \E r \in DOMAIN rw : es[i] = EntryOf(ix, rw[r], r)
  BY <1>1 DEF Exact, ToSet
<1>3. \A r \in DOMAIN rw : \E i \in 1 .. N : es[i] = EntryOf(ix, rw[r], r)
  BY <1>1 DEF Exact, ToSet
<1>4. \A i \in 1 .. N : /\ es[i].rid \in DOMAIN rw
                        /\ es[i] = EntryOf(ix, rw[es[i].rid], es[i].rid)
  <2> SUFFICES ASSUME NEW i \in 1 .. N
               PROVE  /\ es[i].rid \in DOMAIN rw
                      /\ es[i] = EntryOf(ix, rw[es[i].rid], es[i].rid)
    OBVIOUS
  <2>1. PICK r \in DOMAIN rw : es[i] = EntryOf(ix, rw[r], r)
    BY <1>2
  <2> HIDE DEF es
  <2>2. es[i].rid = r
    BY <2>1 DEF EntryOf
  <2> QED
    BY <2>1, <2>2
<1> HIDE DEF N, es
<1>5. f \in Injection(1 .. N, DOMAIN rw)
  <2>1. f \in [1 .. N -> DOMAIN rw]
    BY <1>4
  <2>2. ASSUME NEW i \in 1 .. N, NEW j \in 1 .. N, f[i] = f[j] PROVE i = j
    <3>1. es[i].rid = es[j].rid
      BY <2>2
    <3>2. es[i] = es[j]
      BY <1>4, <3>1
    <3>3. es[i] \in Key /\ KeyCompare(es[i], es[j]) = 0 /\ KeyCompare(es[j], es[i]) = 0
      <4>1. es[i] \in Key
        BY <1>1
      <4> QED
        BY <3>2, <4>1, CompareIsInt
    <3>4. ~(i < j) /\ ~(j < i)
      BY <1>1, <3>3 DEF Ordered
    <3> QED
      BY <1>1, <3>4
  <2> HIDE DEF f
  <2> QED
    BY <2>1, <2>2 DEF Injection, IsInjective
<1>6. f \in Surjection(1 .. N, DOMAIN rw)
  <2>1. f \in [1 .. N -> DOMAIN rw]
    BY <1>4
  <2>2. ASSUME NEW r \in DOMAIN rw PROVE \E i \in 1 .. N : f[i] = r
    <3>1. PICK i \in 1 .. N : es[i] = EntryOf(ix, rw[r], r)
      BY <1>3
    <3>2. f[i] = r
      BY <3>1 DEF EntryOf
    <3> QED
      BY <3>2
  <2> HIDE DEF f
  <2> QED
    BY <2>1, <2>2 DEF Surjection
<1> HIDE DEF f
<1>7. IsFiniteSet(1 .. N) /\ Cardinality(1 .. N) = N
  <2>1. Cardinality(1 .. N) = IF 1 > N THEN 0 ELSE N - 1 + 1
    BY <1>1, FS_Interval
  <2>2. IsFiniteSet(1 .. N)
    BY <1>1, FS_Interval
  <2> QED
    BY <1>1, <2>1, <2>2
<1>8. Cardinality(DOMAIN rw) = N
  BY <1>5, <1>6, <1>7, FS_Surjection
<1> QED
  BY <1>8 DEF N, es

-----------------------------------------------------------------------------
(* All indexes of the table. *)

AllExact(ixs, rw) == ixs \in Seq(Index) /\ \A i \in DOMAIN ixs : Exact(ixs[i], rw)

LEMMA InsertStopIsFirst ==
  ASSUME NEW ixs \in Seq(Index), NEW row, NEW rid, NEW fault
  PROVE  LET stop == InsertStop(ixs, row, rid, fault)
             Stops(i) == Holds(ixs[i], row, rid) \/ i = fault
         IN  /\ stop \in 1 .. Len(ixs) + 1
             /\ \A i \in 1 .. Len(ixs) : i < stop => ~Stops(i)
             /\ stop <= Len(ixs) => Stops(stop)
<1> DEFINE N == Len(ixs)
           Stops(i) == Holds(ixs[i], row, rid) \/ i = fault
           T == {i \in 1 .. N : Stops(i)}
           c == CHOOSE i \in 1 .. N : Stops(i) /\ \A j \in 1 .. N : Stops(j) => i <= j
           stop == InsertStop(ixs, row, rid, fault)
<1>1. N \in Nat /\ DOMAIN ixs = 1 .. N
  OBVIOUS
<1>2. stop = IF \E i \in 1 .. N : Stops(i) THEN c ELSE N + 1
  BY <1>1 DEF InsertStop, FirstStop
<1> HIDE DEF N, Stops, stop
<1>3. CASE T = {}
  <2>1. ~\E i \in 1 .. N : Stops(i)
    BY <1>3
  <2>2. stop = N + 1
    BY <1>2, <2>1
  <2>3. /\ stop \in 1 .. N + 1 /\ \A i \in 1 .. N : i < stop => ~Stops(i)
        /\ stop <= N => Stops(stop)
    BY <1>1, <2>1, <2>2
  <2> QED
    BY <2>3 DEF N, Stops, stop
<1>4. CASE T # {}
  <2>1. PICK x \in T : \A y \in T : x <= y
    <3>1. T \in SUBSET Nat
      BY <1>1
    <3> HIDE DEF T
    <3> QED
      BY <1>4, <3>1, LeastNatural
  <2>2. \E i \in 1 .. N : Stops(i) /\ \A j \in 1 .. N : Stops(j) => i <= j
    BY <2>1
  <2>3. c \in 1 .. N /\ Stops(c) /\ \A j \in 1 .. N : Stops(j) => c <= j
    BY <2>2
  <2>4. stop = c
    BY <1>2, <2>2
  <2> HIDE DEF c, T
  <2>5. /\ stop \in 1 .. N + 1 /\ \A i \in 1 .. N : i < stop => ~Stops(i)
        /\ stop <= N => Stops(stop)
    BY <1>1, <2>3, <2>4
  <2> QED
    BY <2>5 DEF N, Stops, stop
<1> QED
  BY <1>3, <1>4

LEMMA DeleteStopIsFirst ==
  ASSUME NEW ixs, NEW n \in Nat, DOMAIN ixs = 1 .. n, Len(ixs) = n,
         NEW row, NEW rid, NEW fault
  PROVE  LET stop == DeleteStop(ixs, row, rid, fault)
             Stops(i) == ~Holds(ixs[i], row, rid) \/ i = fault
         IN  /\ stop \in 1 .. n + 1
             /\ \A i \in 1 .. n : i < stop => ~Stops(i)
             /\ stop <= n => Stops(stop)
<1> DEFINE Stops(i) == ~Holds(ixs[i], row, rid) \/ i = fault
           T == {i \in 1 .. n : Stops(i)}
           c == CHOOSE i \in 1 .. n : Stops(i) /\ \A j \in 1 .. n : Stops(j) => i <= j
           stop == DeleteStop(ixs, row, rid, fault)
<1>2. stop = IF \E i \in 1 .. n : Stops(i) THEN c ELSE n + 1
  BY DEF DeleteStop, FirstStop
<1> HIDE DEF Stops, stop
<1>3. CASE T = {}
  <2>1. ~\E i \in 1 .. n : Stops(i)
    BY <1>3
  <2>2. stop = n + 1
    BY <1>2, <2>1
  <2>3. /\ stop \in 1 .. n + 1 /\ \A i \in 1 .. n : i < stop => ~Stops(i)
        /\ stop <= n => Stops(stop)
    BY <2>1, <2>2
  <2> QED
    BY <2>3 DEF Stops, stop
<1>4. CASE T # {}
  <2>1. PICK x \in T : \A y \in T : x <= y
    <3>1. T \in SUBSET Nat
      OBVIOUS
    <3> HIDE DEF T
    <3> QED
      BY <1>4, <3>1, LeastNatural
  <2>2. \E i \in 1 .. n : Stops(i) /\ \A j \in 1 .. n : Stops(j) => i <= j
    BY <2>1
  <2>3. c \in 1 .. n /\ Stops(c) /\ \A j \in 1 .. n : Stops(j) => c <= j
    BY <2>2
  <2>4. stop = c
    BY <1>2, <2>2
  <2> HIDE DEF c, T
  <2>5. /\ stop \in 1 .. n + 1 /\ \A i \in 1 .. n : i < stop => ~Stops(i)
        /\ stop <= n => Stops(stop)
    BY <2>3, <2>4
  <2> QED
    BY <2>5 DEF Stops, stop
<1> QED
  BY <1>3, <1>4

\* a sequence with other indexes at its places
LEMMA IndexesSeq ==
  ASSUME NEW ixs \in Seq(Index), NEW jxs, jxs = [i \in DOMAIN ixs |-> jxs[i]],
         \A i \in DOMAIN ixs : jxs[i] \in Index
  PROVE  jxs \in Seq(Index) /\ DOMAIN jxs = DOMAIN ixs /\ Len(jxs) = Len(ixs)
<1>1. Len(ixs) \in Nat /\ DOMAIN ixs = 1 .. Len(ixs)
  OBVIOUS
<1>2. jxs \in [1 .. Len(ixs) -> Index]
  BY <1>1
<1>3. jxs \in Seq(Index)
  BY <1>1, <1>2
<1> QED
  BY <1>1, <1>2, <1>3

\* The record goes into every index, unless the pool refuses a frame; what went
\* in before that is taken out again.
LEMMA AllEntered ==
  ASSUME NEW ixs, NEW rw, NEW rid \in Rids, NEW row \in Row, NEW rx, NEW fault,
         rid \notin DOMAIN rw, RowsOK(rw), AllExact(ixs, rw), Apart(rx),
         rx = [r \in DOMAIN rw \cup {rid} |-> IF r = rid THEN row ELSE rw[r]]
  PROVE  LET entered == InsertEntryOfIndexes(ixs, row, rid, fault)
         IN  /\ Complete(InsertStop(ixs, row, rid, fault), ixs) => AllExact(entered, rx)
             /\ AllExact(DeleteEntryOfIndexes(entered, row, rid, 0), rw)
<1> DEFINE n == Len(ixs)
           stop == InsertStop(ixs, row, rid, fault)
           entered == InsertEntryOfIndexes(ixs, row, rid, fault)
           undone == DeleteStop(entered, row, rid, 0)
           after == DeleteEntryOfIndexes(entered, row, rid, 0)
<1>1. ixs \in Seq(Index) /\ n \in Nat /\ DOMAIN ixs = 1 .. n
  BY DEF AllExact
<1>2. \A i \in 1 .. n : /\ Exact(ixs[i], rw) /\ ixs[i] \in Index
                        /\ ~Holds(ixs[i], row, rid)
                        /\ Exact(Entered(ixs[i], row, rid), rx)
  <2> SUFFICES ASSUME NEW i \in 1 .. n
               PROVE  /\ Exact(ixs[i], rw) /\ ixs[i] \in Index
                      /\ ~Holds(ixs[i], row, rid)
                      /\ Exact(Entered(ixs[i], row, rid), rx)
    OBVIOUS
  <2>1. Exact(ixs[i], rw)
    BY <1>1 DEF AllExact
  <2>2. ixs[i] \in Index
    BY <2>1 DEF Exact
  <2>3. ~Holds(ixs[i], row, rid) /\ Exact(Entered(ixs[i], row, rid), rx)
    BY <2>1, EnteredExact
  <2> QED
    BY <2>1, <2>2, <2>3
<1>3. stop \in 1 .. n + 1 /\ (stop <= n => stop \in 1 .. n)
  BY <1>1, InsertStopIsFirst
<1>4. entered = [i \in 1 .. n |-> IF i < stop THEN Entered(ixs[i], row, rid) ELSE ixs[i]]
  BY <1>1 DEF InsertEntryOfIndexes
<1>5. after = [i \in DOMAIN entered |-> IF i < undone THEN Removed(entered[i], row, rid)
                                                     ELSE entered[i]]
  BY DEF DeleteEntryOfIndexes
<1> HIDE DEF stop, entered, undone, after, n
<1>6. /\ entered \in Seq(Index) /\ DOMAIN entered = 1 .. n /\ Len(entered) = n
      /\ \A i \in 1 .. n :
           /\ i < stop => entered[i] = Entered(ixs[i], row, rid) /\ Exact(entered[i], rx)
           /\ ~(i < stop) => entered[i] = ixs[i]
  <2>1. \A i \in 1 .. n :
           /\ i < stop => entered[i] = Entered(ixs[i], row, rid) /\ Exact(entered[i], rx)
           /\ ~(i < stop) => entered[i] = ixs[i]
    BY <1>2, <1>4
  <2>2. \A i \in 1 .. n : entered[i] \in Index
    BY <1>2, <2>1 DEF Exact
  <2>3. entered = [i \in DOMAIN ixs |-> entered[i]]
    BY <1>1, <1>4
  <2> QED
    BY <1>1, <2>1, <2>2, <2>3, IndexesSeq DEF n
<1>7. RowsOK(rx) /\ rid \in DOMAIN rx /\ rx[rid] = row
  BY DEF RowsOK
<1> DEFINE back == [r \in DOMAIN rx \ {rid} |-> rx[r]]
<1>8. rw = back
  <2>1. DOMAIN rx \ {rid} = DOMAIN rw
    OBVIOUS
  <2>2. \A r \in DOMAIN rw : rx[r] = rw[r]
    OBVIOUS
  <2>3. rw = [r \in DOMAIN rw |-> rw[r]]
    BY DEF RowsOK
  <2> QED
    BY <2>1, <2>2, <2>3
<1>9. \A i \in 1 .. n : i < stop => /\ Holds(entered[i], row, rid)
                                    /\ Exact(Removed(entered[i], row, rid), rw)
  <2> SUFFICES ASSUME NEW i \in 1 .. n, i < stop
               PROVE  /\ Holds(entered[i], row, rid)
                      /\ Exact(Removed(entered[i], row, rid), rw)
    OBVIOUS
  <2>1. Exact(entered[i], rx)
    BY <1>6
  <2>2. Holds(entered[i], rx[rid], rid) /\ Exact(Removed(entered[i], rx[rid], rid), back)
    BY <1>7, <2>1, RemovedExact
  <2> HIDE DEF back
  <2>3. Holds(entered[i], rx[rid], rid) /\ Exact(Removed(entered[i], rx[rid], rid), rw)
    BY <1>8, <2>2
  <2> QED
    BY <1>7, <2>3
<1>10. /\ undone \in 1 .. n + 1
       /\ \A i \in 1 .. n : i < undone => Holds(entered[i], row, rid)
       /\ undone <= n => ~Holds(entered[undone], row, rid)
  <2>1. /\ undone \in 1 .. n + 1
        /\ \A i \in 1 .. n : i < undone => ~(~Holds(entered[i], row, rid) \/ i = 0)
        /\ undone <= n => ~Holds(entered[undone], row, rid) \/ undone = 0
    BY <1>1, <1>6, DeleteStopIsFirst DEF undone
  <2> QED
    BY <1>1, <2>1
<1>11. \A i \in 1 .. n : i < undone <=> i < stop
  <2> SUFFICES ASSUME NEW i \in 1 .. n PROVE i < undone <=> i < stop
    OBVIOUS
  <2>1. ~(i < stop) => ~Holds(entered[i], row, rid)
    BY <1>2, <1>6
  <2>2. ASSUME i < stop, ~(i < undone) PROVE FALSE
    <3>1. undone \in 1 .. n /\ undone < stop
      BY <1>1, <1>3, <1>10, <2>2
    <3> QED
      BY <1>9, <1>10, <3>1
  <2> QED
    BY <1>10, <2>1, <2>2
<1>12. \A i \in 1 .. n : Exact(after[i], rw)
  <2> SUFFICES ASSUME NEW i \in 1 .. n PROVE Exact(after[i], rw)
    OBVIOUS
  <2>1. after[i] = IF i < stop THEN Removed(entered[i], row, rid) ELSE entered[i]
    BY <1>5, <1>6, <1>11
  <2> QED
    BY <1>2, <1>6, <1>9, <2>1
<1>13. AllExact(after, rw)
  <2>1. \A i \in DOMAIN entered : after[i] \in Index
    BY <1>6, <1>12 DEF Exact
  <2>2. after \in Seq(Index) /\ DOMAIN after = 1 .. n
    <3>1. after = [i \in DOMAIN entered |-> after[i]]
      BY <1>5
    <3> QED
      BY <1>6, <2>1, <3>1, IndexesSeq
  <2> QED
    BY <1>12, <2>2 DEF AllExact
<1>14. stop > n => AllExact(entered, rx)
  <2> SUFFICES ASSUME stop > n PROVE AllExact(entered, rx)
    OBVIOUS
  <2>1. \A i \in 1 .. n : i < stop
    BY <1>1, <1>3
  <2> QED
    BY <1>6, <2>1 DEF AllExact
<1> QED
  BY <1>13, <1>14 DEF stop, entered, after, n, Complete

\* Without a refused frame every index has the entry of a record, and loses it.
LEMMA AllRemoved ==
  ASSUME NEW ixs, NEW rw, NEW rid \in DOMAIN rw, NEW rx,
         RowsOK(rw), AllExact(ixs, rw), Apart(rw),
         rx = [r \in DOMAIN rw \ {rid} |-> rw[r]]
  PROVE  /\ Complete(DeleteStop(ixs, rw[rid], rid, 0), ixs)
         /\ AllExact(DeleteEntryOfIndexes(ixs, rw[rid], rid, 0), rx)
<1> DEFINE n == Len(ixs)
           row == rw[rid]
           stop == DeleteStop(ixs, row, rid, 0)
           after == DeleteEntryOfIndexes(ixs, row, rid, 0)
<1>1. ixs \in Seq(Index) /\ n \in Nat /\ DOMAIN ixs = 1 .. n
  BY DEF AllExact
<1>2. \A i \in 1 .. n : /\ Holds(ixs[i], row, rid)
                        /\ Exact(Removed(ixs[i], row, rid), rx)
  BY <1>1, RemovedExact DEF AllExact
<1>3. after = [i \in 1 .. n |-> IF i < stop THEN Removed(ixs[i], row, rid) ELSE ixs[i]]
  BY <1>1 DEF DeleteEntryOfIndexes
<1>4. /\ stop \in 1 .. n + 1
      /\ stop <= n => ~Holds(ixs[stop], row, rid) \/ stop = 0
  BY <1>1, DeleteStopIsFirst
<1> HIDE DEF n, row, stop, after
<1>5. stop = n + 1
  <2> SUFFICES ASSUME stop # n + 1 PROVE FALSE
    OBVIOUS
  <2>1. stop \in 1 .. n /\ stop <= n /\ stop # 0
    BY <1>1, <1>4
  <2> QED
    BY <1>2, <1>4, <2>1
<1>6. \A i \in 1 .. n : after[i] = Removed(ixs[i], row, rid)
  BY <1>1, <1>3, <1>5
<1>7. AllExact(after, rx)
  <2>1. \A i \in DOMAIN ixs : after[i] \in Index
    BY <1>1, <1>2, <1>6 DEF Exact
  <2>2. after \in Seq(Index) /\ DOMAIN after = 1 .. n
    <3>1. after = [i \in DOMAIN ixs |-> after[i]]
      BY <1>1, <1>3
    <3> QED
      BY <1>1, <2>1, <3>1, IndexesSeq
  <2> QED
    BY <1>2, <1>6, <2>2 DEF AllExact
<1>8. stop > n
  BY <1>1, <1>5
<1> QED
  BY <1>7, <1>8 DEF Complete, n, row, stop, after

-----------------------------------------------------------------------------
(* The fold of CREATE INDEX over the records of the scan. *)

FillAdd(acc, rid) ==
  IF acc.ok /\ ~Holds(acc.ix, rows[rid], rid)
  THEN [acc EXCEPT !.ix = Entered(@, rows[rid], rid)]
  ELSE [acc EXCEPT !.ok = FALSE]

FillStep(ix, seq, fill, s) ==
  IF s = {} THEN [ix |-> ix, ok |-> TRUE] ELSE FillAdd(fill[s \ {Max(s)}], seq[Max(s)])

Fill(ix, seq) == CHOOSE fill : fill = [s \in SUBSET DOMAIN seq |-> FillStep(ix, seq, fill, s)]

LEMMA FilledIsFill ==
  ASSUME NEW ix, NEW seq
  PROVE  Filled(ix, seq) = Fill(ix, seq)[DOMAIN seq]
BY DEF Filled, FoldLeft, MapThenFoldSet, Fill, FillStep, FillAdd

\* without its greatest number a set of numbers from 1 to k is one up to k - 1
LEMMA GreatestOut ==
  ASSUME NEW k \in Nat, NEW s \in SUBSET (1 .. k), s # {}
  PROVE  k # 0 /\ Max(s) \in s /\ s \ {Max(s)} \in SUBSET (1 .. k - 1)
<1>1. PICK x \in s : \A y \in s : y <= x
  <2>1. s \in SUBSET (0 .. k)
    OBVIOUS
  <2> QED
    BY <2>1, GreatestNatural
<1>2. \A x1, y1 \in s : x1 <= y1 <=> y1 >= x1
  OBVIOUS
<1>3. Max(s) \in s /\ \A y \in s : Max(s) >= y
  BY <1>1, <1>2 DEF Max
<1> DEFINE m == Max(s)
<1>4. m \in s /\ \A y \in s : m >= y
  BY <1>3
<1> HIDE DEF m
<1>5. m \in Nat /\ m # 0 /\ m <= k
  BY <1>4
<1>6. k # 0 /\ \A y \in s \ {m} : y \in 1 .. k - 1
  <2> SUFFICES ASSUME NEW y \in s \ {m} PROVE y \in 1 .. k - 1
    BY <1>5
  <2>1. y \in Nat /\ y # 0 /\ y <= m /\ y # m
    BY <1>4
  <2> QED
    BY <1>5, <2>1
<1>7. k # 0 /\ m \in s /\ s \ {m} \in SUBSET (1 .. k - 1)
  BY <1>4, <1>6
<1> QED
  BY <1>7 DEF m

LEMMA GreatestOfFirst ==
  ASSUME NEW j \in Nat, j # 0
  PROVE  Max(1 .. j) = j /\ (1 .. j) \ {Max(1 .. j)} = 1 .. j - 1
<1>1. j \in 1 .. j /\ \A y \in 1 .. j : j >= y
  OBVIOUS
<1>2. Max(1 .. j) \in 1 .. j /\ \A y \in 1 .. j : Max(1 .. j) >= y
  BY <1>1 DEF Max
<1>3. Max(1 .. j) = j
  BY <1>1, <1>2
<1> QED
  BY <1>3

LEMMA FillDefined ==
  ASSUME NEW ix, NEW seq, NEW n \in Nat, DOMAIN seq = 1 .. n
  PROVE  \A s \in SUBSET (1 .. n) : Fill(ix, seq)[s] = FillStep(ix, seq, Fill(ix, seq), s)
<1> DEFINE F(w, k) == w = [s \in SUBSET (1 .. k) |-> FillStep(ix, seq, w, s)]
           T == {k \in 0 .. n : ~\E w : F(w, k)}
<1>1. T = {}
  <2> SUFFICES ASSUME T # {} PROVE FALSE
    OBVIOUS
  <2>1. PICK k \in T : \A j \in T : k <= j
    <3>1. T \in SUBSET Nat
      OBVIOUS
    <3> HIDE DEF T
    <3> QED
      BY <3>1, LeastNatural
  <2>2. k \in 0 .. n /\ ~\E w : F(w, k)
    BY <2>1
  <2>3. PICK g : k = 0 \/ F(g, k - 1)
    <3>1. CASE k = 0
      BY <3>1
    <3>2. CASE k # 0
      <4>1. k - 1 \in 0 .. n /\ ~(k <= k - 1)
        BY <2>2, <3>2
      <4>2. k - 1 \notin T
        BY <2>1, <4>1
      <4> QED
        BY <4>1, <4>2
    <3> QED
      BY <3>1, <3>2
  <2> DEFINE h == [s \in SUBSET (1 .. k) |-> FillStep(ix, seq, g, s)]
  <2>4. ASSUME NEW s \in SUBSET (1 .. k)
        PROVE  FillStep(ix, seq, h, s) = FillStep(ix, seq, g, s)
    <3>1. CASE s = {}
      BY <3>1 DEF FillStep
    <3>2. CASE s # {}
      <4> DEFINE rest == s \ {Max(s)}
      <4>1. k # 0 /\ rest \in SUBSET (1 .. k - 1)
        BY <2>2, <3>2, GreatestOut
      <4>2. rest \in SUBSET (1 .. k)
        OBVIOUS
      <4>3. h[rest] = g[rest]
        BY <2>3, <4>1, <4>2
      <4> HIDE DEF h
      <4> QED
        BY <3>2, <4>3 DEF FillStep
    <3> QED
      BY <3>1, <3>2
  <2>5. F(h, k)
    BY <2>4
  <2> QED
    BY <2>2, <2>5
<1>2. \E w : F(w, n)
  <2>1. n \in 0 .. n
    OBVIOUS
  <2> HIDE DEF F
  <2> QED
    BY <1>1, <2>1
<1>3. \E w : w = [s \in SUBSET DOMAIN seq |-> FillStep(ix, seq, w, s)]
  BY <1>2
<1> HIDE DEF F, T
<1>4. Fill(ix, seq) = [s \in SUBSET DOMAIN seq |-> FillStep(ix, seq, Fill(ix, seq), s)]
  BY <1>3 DEF Fill
<1> QED
  BY <1>4

LEMMA FillUpTo ==
  ASSUME NEW ix, NEW seq, NEW n \in Nat, DOMAIN seq = 1 .. n
  PROVE  LET fill == Fill(ix, seq)
         IN  /\ fill[1 .. 0] = [ix |-> ix, ok |-> TRUE]
             /\ \A j \in 1 .. n : fill[1 .. j] = FillAdd(fill[1 .. j - 1], seq[j])
<1> DEFINE fill == Fill(ix, seq)
<1>1. \A s \in SUBSET (1 .. n) : fill[s] = FillStep(ix, seq, fill, s)
  BY FillDefined
<1> HIDE DEF fill
<1>2. fill[1 .. 0] = [ix |-> ix, ok |-> TRUE]
  <2>1. 1 .. 0 = {} /\ 1 .. 0 \in SUBSET (1 .. n)
    OBVIOUS
  <2> QED
    BY <1>1, <2>1 DEF FillStep
<1>3. ASSUME NEW j \in 1 .. n PROVE fill[1 .. j] = FillAdd(fill[1 .. j - 1], seq[j])
  <2>1. 1 .. j \in SUBSET (1 .. n) /\ 1 .. j # {} /\ j \in Nat /\ j # 0
    <3>1. j \in Nat /\ j # 0 /\ j \in 1 .. j
      OBVIOUS
    <3>2. \A i \in 1 .. j : i \in 1 .. n
      OBVIOUS
    <3> QED
      BY <3>1, <3>2
  <2>2. Max(1 .. j) = j /\ (1 .. j) \ {Max(1 .. j)} = 1 .. j - 1
    BY <2>1, GreatestOfFirst
  <2>3. fill[1 .. j] = FillAdd(fill[(1 .. j) \ {Max(1 .. j)}], seq[Max(1 .. j)])
    BY <1>1, <2>1 DEF FillStep
  <2> QED
    BY <2>2, <2>3
<1> QED
  BY <1>2, <1>3 DEF fill

-----------------------------------------------------------------------------
(* The order of a scan. *)

LEMMA BeforeIsOrder ==
  ASSUME NEW a \in Nat \X Nat, NEW b \in Nat \X Nat
  PROVE  /\ ~Before(a, a)
         /\ a = b \/ Before(a, b) \/ Before(b, a)
         /\ \A c \in Nat \X Nat : Before(a, b) /\ Before(b, c) => Before(a, c)
<1>1. a[1] \in Nat /\ a[2] \in Nat /\ b[1] \in Nat /\ b[2] \in Nat
      /\ a = <<a[1], a[2]>> /\ b = <<b[1], b[2]>>
  OBVIOUS
<1>2. \A c \in Nat \X Nat : c[1] \in Nat /\ c[2] \in Nat
  OBVIOUS
<1>3. a[1] = b[1] /\ a[2] = b[2] => a = b
  BY <1>1
<1>4. a = b \/ Before(a, b) \/ Before(b, a)
  BY <1>1, <1>3 DEF Before
<1>5. ~Before(a, a)
  BY <1>1 DEF Before
<1>6. \A c \in Nat \X Nat : Before(a, b) /\ Before(b, c) => Before(a, c)
  BY <1>1, <1>2 DEF Before
<1> QED
  BY <1>4, <1>5, <1>6

LEMMA FirstPlace ==
  ASSUME NEW R \in SUBSET (Nat \X Nat), R # {}
  PROVE  \E b \in R : \A r \in R \ {b} : Before(b, r)
<1>0. \A r \in R : r \in Nat \X Nat /\ r[1] \in Nat /\ r[2] \in Nat
  OBVIOUS
<1> DEFINE P == {r[1] : r \in R}
<1>1. PICK p \in P : \A q \in P : p <= q
  <2>1. P \in SUBSET Nat /\ P # {}
    BY <1>0
  <2> HIDE DEF P
  <2> QED
    BY <2>1, LeastNatural
<1> DEFINE S == {r[2] : r \in {x \in R : x[1] = p}}
<1>2. PICK s \in S : \A t \in S : s <= t
  <2>1. S \in SUBSET Nat /\ S # {}
    BY <1>0, <1>1
  <2> HIDE DEF S
  <2> QED
    BY <2>1, LeastNatural
<1>3. PICK b \in R : b[1] = p /\ b[2] = s
  BY <1>2
<1>4. ASSUME NEW r \in R \ {b} PROVE Before(b, r)
  <2>1. r[1] \in P /\ (r[1] = p => r[2] \in S)
    OBVIOUS
  <2>2. p <= r[1] /\ (r[1] = p => s <= r[2])
    BY <1>1, <1>2, <2>1
  <2>3. ~Before(r, b)
    BY <1>0, <1>3, <2>2 DEF Before
  <2>4. b = r \/ Before(b, r) \/ Before(r, b)
    BY <1>0, BeforeIsOrder
  <2> QED
    BY <2>3, <2>4
<1> QED
  BY <1>4

Sorted(order, k, R) ==
  /\ order \in [1 .. k -> R]
  /\ \A i, j \in 1 .. k : i < j => Before(order[i], order[j])

LEMMA SortedExists ==
  ASSUME NEW R \in SUBSET (Nat \X Nat), IsFiniteSet(R)
  PROVE  \E order : Sorted(order, Cardinality(R), R)
<1> DEFINE Bad(k, Q) == /\ Q \in SUBSET (Nat \X Nat) /\ IsFiniteSet(Q) /\ Cardinality(Q) = k
                        /\ ~\E order : Sorted(order, k, Q)
           T == {k \in Nat : \E Q : Bad(k, Q)}
<1>1. T = {}
  <2> SUFFICES ASSUME T # {} PROVE FALSE
    OBVIOUS
  <2>1. PICK k \in T : \A j \in T : k <= j
    <3>1. T \in SUBSET Nat
      OBVIOUS
    <3> HIDE DEF T
    <3> QED
      BY <3>1, LeastNatural
  <2>2. k \in Nat /\ \E Q : Bad(k, Q)
    BY <2>1
  <2>3. PICK Q : Bad(k, Q)
    BY <2>2
  <2>4. Q \in SUBSET (Nat \X Nat) /\ IsFiniteSet(Q) /\ Cardinality(Q) = k
    BY <2>3
  <2>5. k # 0
    <3> SUFFICES ASSUME k = 0 PROVE FALSE
      OBVIOUS
    <3> DEFINE none == [i \in 1 .. 0 |-> 0]
    <3>1. Sorted(none, 0, Q)
      BY DEF Sorted
    <3> HIDE DEF none
    <3> QED
      BY <2>3, <3>1
  <2>6. Q # {}
    BY <2>4, <2>5, FS_EmptySet
  <2>7. PICK b \in Q : \A r \in Q \ {b} : Before(b, r)
    BY <2>4, <2>6, FirstPlace
  <2>8. IsFiniteSet(Q \ {b}) /\ Cardinality(Q \ {b}) = k - 1
    BY <2>4, FS_RemoveElement
  <2>9. k - 1 \in Nat /\ ~(k <= k - 1)
    BY <2>2, <2>5
  <2>10. ~Bad(k - 1, Q \ {b})
    BY <2>1, <2>9
  <2>11. PICK g : Sorted(g, k - 1, Q \ {b})
    BY <2>4, <2>8, <2>10
  <2> HIDE DEF Bad, T
  <2> DEFINE h == [i \in 1 .. k |-> IF i = 1 THEN b ELSE g[i - 1]]
  <2>12. \A i \in 1 .. k : i # 1 => i - 1 \in 1 .. k - 1
    BY <2>2
  <2>13. \A i \in 1 .. k : i # 1 => g[i - 1] \in Q \ {b}
    BY <2>11, <2>12 DEF Sorted
  <2>14. h \in [1 .. k -> Q]
    BY <2>13
  <2>15. \A i, j \in 1 .. k : i < j => Before(h[i], h[j])
    <3> SUFFICES ASSUME NEW i \in 1 .. k, NEW j \in 1 .. k, i < j PROVE Before(h[i], h[j])
      OBVIOUS
    <3>1. j # 1 /\ h[j] = g[j - 1]
      BY <2>2
    <3>2. CASE i = 1
      <4>1. h[i] = b
        BY <3>2
      <4> QED
        BY <2>7, <2>13, <3>1, <4>1
    <3>3. CASE i # 1
      <4>1. h[i] = g[i - 1]
        BY <3>3
      <4>2. i - 1 \in 1 .. k - 1 /\ j - 1 \in 1 .. k - 1
        BY <2>12, <3>1, <3>3
      <4>3. i - 1 < j - 1
        BY <2>2
      <4> QED
        BY <2>11, <3>1, <4>1, <4>2, <4>3 DEF Sorted
    <3> QED
      BY <3>2, <3>3
  <2>16. Sorted(h, k, Q)
    BY <2>14, <2>15 DEF Sorted
  <2> HIDE DEF h
  <2> QED
    BY <2>3, <2>16 DEF Bad
<1>2. Cardinality(R) \in Nat
  BY FS_CardinalityType
<1>3. ~Bad(Cardinality(R), R)
  BY <1>1, <1>2
<1> QED
  BY <1>3

\* A scan meets every record once.
LEMMA ScanMeetsAll ==
  ASSUME NEW R \in SUBSET (Nat \X Nat), IsFiniteSet(R)
  PROVE  LET order == ScanOrder(R)
             n == Cardinality(R)
         IN  /\ n \in Nat /\ order \in [1 .. n -> R]
             /\ \A i, j \in 1 .. n : i < j => order[i] # order[j]
             /\ \A r \in R : \E i \in 1 .. n : order[i] = r
<1> DEFINE n == Cardinality(R)
           order == ScanOrder(R)
<1>1. n \in Nat
  BY FS_CardinalityType
<1>2. PICK o : Sorted(o, n, R)
  BY SortedExists
<1>3. \E x \in [1 .. n -> R] : \A i, j \in DOMAIN x : i < j => Before(x[i], x[j])
  BY <1>2 DEF Sorted
<1>4. order \in [1 .. n -> R] /\ \A i, j \in DOMAIN order : i < j => Before(order[i], order[j])
  BY <1>3 DEF ScanOrder
<1> HIDE DEF order, n
<1>5. ASSUME NEW i \in 1 .. n, NEW j \in 1 .. n, i < j PROVE order[i] # order[j]
  <2>1. Before(order[i], order[j])
    BY <1>4, <1>5
  <2>2. ~Before(order[i], order[i])
    <3>1. order[i] \in Nat \X Nat
      BY <1>4
    <3> QED
      BY <3>1, BeforeIsOrder
  <2> QED
    BY <2>1, <2>2
<1>6. order \in Injection(1 .. n, R)
  <2>1. ASSUME NEW i \in 1 .. n, NEW j \in 1 .. n, order[i] = order[j] PROVE i = j
    <3>1. ~(i < j) /\ ~(j < i)
      BY <1>5, <2>1
    <3> QED
      BY <1>1, <3>1
  <2> QED
    BY <1>4, <2>1 DEF Injection, IsInjective
<1>7. Cardinality(1 .. n) = n
  <2>1. Cardinality(1 .. n) = IF 1 > n THEN 0 ELSE n - 1 + 1
    BY <1>1, FS_Interval
  <2> QED
    BY <1>1, <2>1
<1>8. order \in Surjection(1 .. n, R)
  BY <1>6, <1>7, FS_Injection DEF n
<1>9. \A r \in R : \E i \in 1 .. n : order[i] = r
  BY <1>8 DEF Surjection
<1> QED
  BY <1>1, <1>4, <1>5, <1>9 DEF order, n

\* An index made for the records of a table has their entries.
LEMMA FilledExact ==
  ASSUME NEW ix0 \in Index, ix0.entries = <<>>,
         RowsOK(rows), IsFiniteSet(DOMAIN rows), Apart(rows)
  PROVE  LET filled == Filled(ix0, ScanOrder(DOMAIN rows))
         IN  filled.ok /\ Exact(filled.ix, rows)
<1> DEFINE n == Cardinality(DOMAIN rows)
           order == ScanOrder(DOMAIN rows)
           fill == Fill(ix0, order)
           Met(j) == {order[i] : i \in 1 .. j}
           RowsTo(j) == [r \in Met(j) |-> rows[r]]
           P(j) == /\ fill[1 .. j] = [ix |-> fill[1 .. j].ix, ok |-> TRUE]
                   /\ Exact(fill[1 .. j].ix, RowsTo(j))
           T == {j \in 0 .. n : ~P(j)}
<1>1. DOMAIN rows \in SUBSET (Nat \X Nat)
  BY TableAssumption DEF RowsOK
<1>2. /\ n \in Nat /\ order \in [1 .. n -> DOMAIN rows]
      /\ \A i, j \in 1 .. n : i < j => order[i] # order[j]
      /\ \A r \in DOMAIN rows : \E i \in 1 .. n : order[i] = r
  BY <1>1, ScanMeetsAll
<1>3. /\ fill[1 .. 0] = [ix |-> ix0, ok |-> TRUE]
      /\ \A j \in 1 .. n : fill[1 .. j] = FillAdd(fill[1 .. j - 1], order[j])
  BY <1>2, FillUpTo
<1>4. Filled(ix0, order) = fill[1 .. n]
  BY <1>2, FilledIsFill
<1> HIDE DEF n, order, fill
<1>5. P(0)
  <2>1. Met(0) = {}
    OBVIOUS
  <2>2. Ordered(ix0.entries) /\ ToSet(ix0.entries) = {}
    BY DEF Ordered, ToSet
  <2>3. {EntryOf(ix0, RowsTo(0)[rid], rid) : rid \in DOMAIN RowsTo(0)} = {}
    BY <2>1
  <2>4. Exact(ix0, RowsTo(0))
    BY <2>2, <2>3 DEF Exact
  <2> HIDE DEF RowsTo
  <2> QED
    BY <1>3, <2>4
<1>6. ASSUME NEW j \in 1 .. n, P(j - 1) PROVE P(j)
  <2> DEFINE rid == order[j]
             ix == fill[1 .. j - 1].ix
             rw == RowsTo(j - 1)
             rx == RowsTo(j)
  <2>1. rid \in DOMAIN rows /\ rid \in Rids /\ rows[rid] \in Row
    BY <1>2 DEF RowsOK
  <2>2. Met(j) = Met(j - 1) \cup {rid} /\ rid \notin Met(j - 1) /\ Met(j) \subseteq DOMAIN rows
    <3>1. 1 .. j = (1 .. j - 1) \cup {j} /\ j \in 1 .. n /\ j \notin 1 .. j - 1
      BY <1>2
    <3>2. \A i \in 1 .. j - 1 : i \in 1 .. n /\ i < j
      BY <1>2
    <3>3. \A i \in 1 .. j - 1 : order[i] # rid
      BY <1>2, <3>2
    <3>4. \A i \in 1 .. j : order[i] \in DOMAIN rows
      BY <1>2, <3>1, <3>2
    <3> QED
      BY <3>1, <3>3, <3>4
  <2> HIDE DEF Met, rid
  <2>3. rid \notin DOMAIN rw /\ DOMAIN rx = DOMAIN rw \cup {rid}
    BY <2>2
  <2>4. RowsOK(rw) /\ RowsOK(rx)
    BY <2>2 DEF RowsOK
  <2>5. Apart(rx)
    BY <2>2 DEF Apart
  <2>6. rx = [r \in DOMAIN rw \cup {rid} |-> IF r = rid THEN rows[rid] ELSE rw[r]]
    BY <2>2
  <2>7. Exact(ix, rw)
    BY <1>6
  <2>8. ~Holds(ix, rows[rid], rid) /\ Exact(Entered(ix, rows[rid], rid), rx)
    <3> HIDE DEF rw, rx, ix
    <3> QED
      BY <2>1, <2>3, <2>4, <2>5, <2>6, <2>7, EnteredExact
  <2>9. fill[1 .. j] = FillAdd(fill[1 .. j - 1], rid)
    BY <1>3 DEF rid
  <2>10. fill[1 .. j - 1] = [ix |-> ix, ok |-> TRUE]
    BY <1>6
  <2> HIDE DEF rw, rx, ix
  <2>11. fill[1 .. j] = [ix |-> Entered(ix, rows[rid], rid), ok |-> TRUE]
    <3> DEFINE acc == [ix |-> ix, ok |-> TRUE]
    <3>1. FillAdd(acc, rid) = [acc EXCEPT !.ix = Entered(@, rows[rid], rid)]
      BY <2>8 DEF FillAdd
    <3>2. FillAdd(acc, rid) = [ix |-> Entered(ix, rows[rid], rid), ok |-> TRUE]
      BY <3>1
    <3> QED
      BY <2>9, <2>10, <3>2
  <2> QED
    BY <2>8, <2>11 DEF rx
<1>7. T = {}
  <2> SUFFICES ASSUME T # {} PROVE FALSE
    OBVIOUS
  <2> HIDE DEF P
  <2>1. PICK k \in T : \A j \in T : k <= j
    <3>1. T \in SUBSET Nat
      BY <1>2
    <3> HIDE DEF T
    <3> QED
      BY <3>1, LeastNatural
  <2>2. k \in 1 .. n
    BY <1>2, <1>5, <2>1
  <2>3. k - 1 \in 0 .. n /\ ~(k <= k - 1)
    BY <1>2, <2>2
  <2>4. P(k - 1)
    BY <2>1, <2>3
  <2> QED
    BY <1>6, <2>1, <2>2, <2>4
<1>8. P(n)
  <2> HIDE DEF P
  <2>1. n \in 0 .. n
    BY <1>2
  <2> QED
    BY <1>7, <2>1
<1>9. Met(n) = DOMAIN rows
  <2>1. \A i \in 1 .. n : order[i] \in DOMAIN rows
    BY <1>2
  <2>2. \A r \in DOMAIN rows : r \in Met(n)
    BY <1>2
  <2>3. \A r \in Met(n) : r \in DOMAIN rows
    BY <2>1
  <2> HIDE DEF Met
  <2> QED
    BY <2>2, <2>3
<1>10. RowsTo(n) = rows
  <2> HIDE DEF Met
  <2> QED
    BY <1>9 DEF RowsOK
<1>11. fill[1 .. n].ok /\ Exact(fill[1 .. n].ix, rows)
  <2> HIDE DEF RowsTo
  <2> QED
    BY <1>8, <1>10
<1> QED
  BY <1>4, <1>11 DEF order

-----------------------------------------------------------------------------
(* The invariant of the indexes.  It does not say what an index has after  *)
(* two keys compared equal or a removal was refused; a restart, which      *)
(* forgets the indexes, begins anew.                                       *)

IndexInv ==
  /\ IsFiniteSet(DOMAIN rows)
  /\ del.on => del.left \subseteq DOMAIN rows
  /\ ~blurred => Apart(rows)
  /\ ~blurred /\ ~hurt => AllExact(indexes_, rows)

LEMMA EqualEitherWay ==
  ASSUME NEW a \in Rids, NEW b \in Rids
  PROVE  RidCompare(a, b) = 0 => RidCompare(b, a) = 0
<1>1. a[1] \in Int /\ a[2] \in Int /\ b[1] \in Int /\ b[2] \in Int
  BY TableAssumption
<1>2. \A p, q, s, t \in Int :
        (IF p - q = 0 THEN p - q ELSE s - t) = 0 => (IF q - p = 0 THEN q - p ELSE t - s) = 0
  OBVIOUS
<1> QED
  BY <1>1, <1>2 DEF RidCompare

\* The new record is apart from the others.
LEMMA PlacedApart ==
  ASSUME RowsOK(rows), Apart(rows), NEW rid \in Rids \ DOMAIN rows, NEW row, ~Blurs(row, rid)
  PROVE  Apart(Placed(rid, row))
<1> SUFFICES ASSUME NEW r \in DOMAIN rows \cup {rid}, NEW s \in DOMAIN rows \cup {rid},
                    NEW f \in Fields, r # s,
                    Placed(rid, row)[r].val[f] = Placed(rid, row)[s].val[f]
             PROVE  RidCompare(r, s) # 0
  BY DEF Apart, Placed
<1>1. \A q \in DOMAIN rows : q # rid /\ q \in Rids /\ Placed(rid, row)[q] = rows[q]
  BY DEF Placed, RowsOK
<1>2. Placed(rid, row)[rid] = row
  BY DEF Placed
<1>3. \A q \in DOMAIN rows : rows[q].val[f] = row.val[f] => RidCompare(q, rid) # 0
  BY DEF Blurs
<1>4. CASE r # rid /\ s # rid
  BY <1>1, <1>4 DEF Apart
<1>5. CASE r = rid
  <2>1. s \in DOMAIN rows /\ rows[s].val[f] = row.val[f]
    BY <1>1, <1>2, <1>5
  <2> QED
    BY <1>1, <1>3, <1>5, <2>1, EqualEitherWay
<1>6. CASE s = rid
  <2>1. r \in DOMAIN rows /\ rows[r].val[f] = row.val[f]
    BY <1>1, <1>2, <1>6
  <2> QED
    BY <1>3, <1>6, <2>1
<1> QED
  BY <1>4, <1>5, <1>6

LEMMA InsertKeepsIndexes ==
  ASSUME IInv, IndexInv, Insert
  PROVE  IndexInv'
<1>1. PICK val \in [Fields -> Values], rid \in FreeSlots, fault \in Fault :
        LET row == [val |-> val, txn |-> NewTxn]
        IN  /\ Started
            /\ \/ InsertRefused(row, rid, fault)
               \/ fault = NoFault /\ InsertAccepted(row, rid)
            /\ blurred' = (blurred \/ Blurs(row, rid))
            /\ del' = del
  BY DEF Insert
<1> DEFINE row == [val |-> val, txn |-> NewTxn]
<1>2. row \in Row /\ rid \in Rids /\ rid \notin DOMAIN rows
  BY FromIInv DEF Row, FreeSlots
<1>3. /\ del' = del /\ ~del.on /\ RowsOK(rows)
      /\ InsertRefused(row, rid, fault) \/ InsertAccepted(row, rid)
      /\ ~blurred' => ~blurred /\ ~Blurs(row, rid)
  BY <1>1, FromIInv DEF Started
<1> DEFINE rx == Placed(rid, row)
<1> HIDE DEF row
<1>4. ~blurred' => Apart(rows) /\ Apart(rx)
  BY <1>2, <1>3, PlacedApart DEF IndexInv
<1>5. rx = [r \in DOMAIN rows \cup {rid} |-> IF r = rid THEN row ELSE rows[r]]
  BY DEF Placed
<1>6. IsFiniteSet(DOMAIN rows) /\ IsFiniteSet(DOMAIN rows \cup {rid})
  BY FS_AddElement DEF IndexInv
<1>7. IsFiniteSet(DOMAIN rx)
  BY <1>5, <1>6
<1> HIDE DEF rx
<1>8. ASSUME ~blurred', ~hurt, NEW f
      PROVE  LET entered == InsertEntryOfIndexes(indexes_, row, rid, f)
             IN  /\ Complete(InsertStop(indexes_, row, rid, f), indexes_) => AllExact(entered, rx)
                 /\ AllExact(DeleteEntryOfIndexes(entered, row, rid, 0), rows)
  <2>1. AllExact(indexes_, rows)
    BY <1>3, <1>8 DEF IndexInv
  <2> QED
    BY <1>2, <1>3, <1>4, <1>5, <1>8, <2>1, AllEntered
<1>9. CASE InsertRefused(row, rid, fault)
  <2>1. rows' = rows \/ rows' = rx
    BY <1>9 DEF InsertRefused, rx
  <2>2. IsFiniteSet(DOMAIN rows') /\ (~blurred' => Apart(rows'))
    BY <1>4, <1>6, <1>7, <2>1
  <2>3. ASSUME ~blurred', ~hurt' PROVE AllExact(indexes_', rows')
    <3> DEFINE f == FaultAt(fault, "entry")
               entered == InsertEntryOfIndexes(indexes_, row, rid, f)
    <3>1. ~hurt /\ fault.at # "undo" /\ fault.at # "undo entry"
      BY <1>9, <2>3 DEF InsertRefused
    <3>2. rows' = rows
      BY <1>9, <3>1 DEF InsertRefused
    <3>3. indexes_' = DeleteEntryOfIndexes(entered, row, rid, FaultAt(fault, "undo entry"))
      BY <1>9 DEF InsertRefused, AfterRollback
    <3>4. FaultAt(fault, "undo entry") = 0
      BY <3>1 DEF FaultAt
    <3>5. AllExact(DeleteEntryOfIndexes(entered, row, rid, 0), rows)
      BY <1>8, <2>3, <3>1
    <3> QED
      BY <3>2, <3>3, <3>4, <3>5
  <2> QED
    BY <1>3, <2>2, <2>3 DEF IndexInv
<1>10. CASE InsertAccepted(row, rid)
  <2>1. /\ Complete(InsertStop(indexes_, row, rid, 0), indexes_) /\ rows' = rx
        /\ indexes_' = InsertEntryOfIndexes(indexes_, row, rid, 0) /\ hurt' = hurt
    BY <1>10 DEF InsertAccepted, rx
  <2>2. ~blurred' /\ ~hurt' => AllExact(indexes_', rows')
    BY <1>8, <2>1
  <2> QED
    BY <1>3, <1>4, <1>7, <2>1, <2>2 DEF IndexInv
<1> QED
  BY <1>3, <1>9, <1>10

LEMMA BeginDeleteKeepsIndexes ==
  ASSUME IInv, IndexInv, BeginDelete
  PROVE  IndexInv'
<1>1. PICK left \in Chosen : del' = [on |-> TRUE, txn |-> NewTxn, left |-> left]
  BY DEF BeginDelete
<1>2. left \subseteq DOMAIN rows
  BY DEF Chosen
<1>3. UNCHANGED <<rows, indexes_, blurred, hurt>>
  BY DEF BeginDelete
<1> QED
  BY <1>1, <1>2, <1>3 DEF IndexInv

LEMMA DeleteRecordKeepsIndexes ==
  ASSUME IInv, IndexInv, DeleteRecord
  PROVE  IndexInv'
<1>1. PICK rid \in del.left, fault \in Fault :
        DeleteRefused(rid, fault) \/ DeleteAccepted(rid)
  BY DEF DeleteRecord
<1>2. /\ del.on /\ rid \in DOMAIN rows /\ del.left \subseteq DOMAIN rows /\ RowsOK(rows)
      /\ blurred' = blurred
  BY FromIInv DEF DeleteRecord, IndexInv
<1> DEFINE rx == Without(rid)
<1>3. rx = [r \in DOMAIN rows \ {rid} |-> rows[r]]
  BY DEF Without
<1>4. ~blurred => Apart(rows) /\ Apart(rx)
  BY <1>3 DEF IndexInv, Apart
<1>5. IsFiniteSet(DOMAIN rows) /\ IsFiniteSet(DOMAIN rows \ {rid})
  BY FS_RemoveElement DEF IndexInv
<1> HIDE DEF rx
<1>6. ASSUME ~blurred, ~hurt
      PROVE  /\ Complete(DeleteStop(indexes_, rows[rid], rid, 0), indexes_)
             /\ AllExact(DeleteEntryOfIndexes(indexes_, rows[rid], rid, 0), rx)
  <2>1. AllExact(indexes_, rows) /\ Apart(rows)
    BY <1>4, <1>6 DEF IndexInv
  <2> QED
    BY <1>2, <1>3, <2>1, AllRemoved
<1>7. CASE DeleteRefused(rid, fault)
  <2>1. rows' = rows /\ del' = NoDelete
    BY <1>7 DEF DeleteRefused
  <2>2. ASSUME ~blurred', ~hurt' PROVE FALSE
    <3>1. ~hurt /\ fault = NoFault
      BY <1>7, <2>2 DEF DeleteRefused
    <3>2. ~Complete(DeleteStop(indexes_, rows[rid], rid, 0), indexes_)
      BY <1>7, <3>1 DEF DeleteRefused, NoFault, FaultAt
    <3> QED
      BY <1>2, <1>6, <2>2, <3>1, <3>2
  <2> QED
    BY <1>2, <1>4, <1>5, <2>1, <2>2 DEF IndexInv, NoDelete
<1>8. CASE DeleteAccepted(rid)
  <2>1. /\ indexes_' = DeleteEntryOfIndexes(indexes_, rows[rid], rid, 0)
        /\ rows' = rx /\ hurt' = hurt
        /\ del' = NoDelete \/ del' = [del EXCEPT !.left = @ \ {rid}]
    BY <1>8 DEF DeleteAccepted, rx
  <2>2. DOMAIN rows' = DOMAIN rows \ {rid}
    BY <1>3, <2>1
  <2>3. del'.on => del'.left \subseteq DOMAIN rows'
    <3>1. del \in [on : BOOLEAN, txn : Nat, left : SUBSET Rids]
      BY FromIInv
    <3> QED
      BY <1>2, <2>1, <2>2, <3>1 DEF NoDelete
  <2>4. ~blurred' /\ ~hurt' => AllExact(indexes_', rows')
    BY <1>2, <1>6, <2>1
  <2>5. ~blurred' => Apart(rows')
    BY <1>2, <1>4, <2>1
  <2> QED
    BY <1>5, <2>2, <2>3, <2>4, <2>5 DEF IndexInv
<1> QED
  BY <1>1, <1>7, <1>8

\* One index more.
LEMMA AllExactAppended ==
  ASSUME NEW ixs, NEW rw, NEW ix, AllExact(ixs, rw), Exact(ix, rw)
  PROVE  AllExact(Append(ixs, ix), rw)
<1>1. ixs \in Seq(Index) /\ ix \in Index
  BY DEF AllExact, Exact
<1>2. /\ Append(ixs, ix) \in Seq(Index) /\ DOMAIN Append(ixs, ix) = DOMAIN ixs \cup {Len(ixs) + 1}
      /\ Append(ixs, ix)[Len(ixs) + 1] = ix
      /\ \A i \in DOMAIN ixs : Append(ixs, ix)[i] = ixs[i]
  BY <1>1
<1> QED
  BY <1>2 DEF AllExact

LEMMA CreateIndexKeepsIndexes ==
  ASSUME IInv, IndexInv, CreateIndex
  PROVE  IndexInv'
<1>1. PICK name \in IndexNames, f \in Fields :
        LET filled == Filled([name |-> name, field |-> f, entries |-> <<>>],
                             ScanOrder(DOMAIN rows))
        IN  indexes_' = indexes_ \/ indexes_' = Append(indexes_, filled.ix)
  BY DEF CreateIndex
<1> DEFINE ix0 == [name |-> name, field |-> f, entries |-> <<>>]
           filled == Filled(ix0, ScanOrder(DOMAIN rows))
<1>2. UNCHANGED <<rows, del, blurred, hurt>>
  BY DEF CreateIndex
<1>3. ix0 \in Index /\ ix0.entries = <<>>
  BY DEF Index
<1>4. indexes_' = indexes_ \/ indexes_' = Append(indexes_, filled.ix)
  BY <1>1
<1> HIDE DEF ix0
<1>5. ASSUME ~blurred, ~hurt PROVE AllExact(indexes_', rows)
  <2>1. AllExact(indexes_, rows) /\ Apart(rows) /\ IsFiniteSet(DOMAIN rows) /\ RowsOK(rows)
    BY <1>5, FromIInv DEF IndexInv
  <2>2. Exact(filled.ix, rows)
    BY <1>3, <2>1, FilledExact
  <2> HIDE DEF filled
  <2>3. AllExact(Append(indexes_, filled.ix), rows)
    BY <2>1, <2>2, AllExactAppended
  <2> QED
    BY <1>4, <2>1, <2>3
<1> QED
  BY <1>2, <1>5 DEF IndexInv

LEMMA NoIndexExact ==
  ASSUME NEW rw
  PROVE  AllExact(<<>>, rw)
BY DEF AllExact

LEMMA RestartKeepsIndexes ==
  ASSUME IInv, IndexInv, Restart
  PROVE  IndexInv'
<1>1. UNCHANGED <<rows, del>> /\ indexes_' = <<>>
  BY DEF Restart
<1>2. ~blurred' => Apart(rows)
  BY DEF Restart, Apart
<1>3. AllExact(indexes_', rows)
  BY <1>1, NoIndexExact
<1> QED
  BY <1>1, <1>2, <1>3 DEF IndexInv

LEMMA InitIndexInv == Init => IndexInv
<1> SUFFICES ASSUME Init PROVE IndexInv
  OBVIOUS
<1>1. rows = <<>> /\ DOMAIN rows = {} /\ ~del.on /\ indexes_ = <<>>
  BY DEF Init, NoDelete
<1>2. IsFiniteSet(DOMAIN rows)
  BY <1>1, FS_EmptySet
<1>3. AllExact(indexes_, rows)
  BY <1>1, NoIndexExact
<1>4. Apart(rows)
  BY <1>1 DEF Apart
<1> QED
  BY <1>1, <1>2, <1>3, <1>4 DEF IndexInv

THEOREM IndexesFollowRows == Spec => []IndexInv
<1>1. Init => IndexInv
  BY InitIndexInv
<1>2. IInv /\ IndexInv /\ [Next]_vars => IndexInv'
  <2> SUFFICES ASSUME IInv, IndexInv, [Next]_vars PROVE IndexInv'
    OBVIOUS
  <2>1. ASSUME UNCHANGED <<rows, indexes_, del, blurred, hurt>> PROVE IndexInv'
    BY <2>1 DEF IndexInv, AllExact, Exact, Apart
  <2>2. CASE UNCHANGED vars
    BY <2>1, <2>2 DEF vars, history
  <2>3. CASE InsertFindsNoPlace
    BY <2>1, <2>3 DEF InsertFindsNoPlace
  <2>4. CASE EndDelete
    <3>1. UNCHANGED <<rows, indexes_, blurred, hurt>> /\ del' = NoDelete
      BY <2>4 DEF EndDelete
    <3> QED
      BY <3>1 DEF IndexInv, NoDelete, AllExact, Exact, Apart
  <2> QED
    BY <2>2, <2>3, <2>4, InsertKeepsIndexes, BeginDeleteKeepsIndexes, DeleteRecordKeepsIndexes,
       CreateIndexKeepsIndexes, RestartKeepsIndexes DEF Next
<1> QED
  BY <1>1, <1>2, LogIsKept, PTL DEF Spec

\* Every index has the entries of the records and no other, as long as no two
\* keys compare equal and no removal was refused.
THEOREM IndexesAreExact == Spec => []IndexesExact
<1>1. IndexInv => IndexesExact
  <2> SUFFICES ASSUME IndexInv, ~blurred, ~hurt, NEW i \in DOMAIN indexes_
               PROVE  /\ ToSet(indexes_[i].entries) =
                           {EntryOf(indexes_[i], rows[rid], rid) : rid \in DOMAIN rows}
                      /\ Len(indexes_[i].entries) = Cardinality(DOMAIN rows)
    BY DEF IndexesExact
  <2>1. Exact(indexes_[i], rows)
    BY DEF IndexInv, AllExact
  <2>2. Len(indexes_[i].entries) = Cardinality(DOMAIN rows)
    BY <2>1, ExactCounts
  <2> QED
    BY <2>1, <2>2 DEF Exact
<1> QED
  BY <1>1, IndexesFollowRows, PTL

=============================================================================
