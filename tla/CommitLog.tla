----------------------------- MODULE CommitLog -----------------------------
(***************************************************************************)
(* The redo log of a database, storage/clog_manager.cpp over the stdio     *)
(* file of common/persist_file_io_handler.cpp: the log buffer cut into     *)
(* blocks, its flush, the part of a write stdio keeps in user memory, and  *)
(* the server stopping or dying at any moment.  A server start opens the   *)
(* log file it finds and never calls Recover.                              *)
(***************************************************************************)
EXTENDS Naturals, Sequences, SequencesExt

CONSTANTS
  DataSize,    \* CLOG_BLOCK_DATA_SIZE, in units of log data
  Blocks,      \* blocks of the log buffer: CLOG_BUFFER_SIZE / CLOG_BLOCK_SIZE
  Lengths,     \* clog_record_len of the records, in units
  MaxRecords,  \* bound: records of one run of the server
  MaxRuns      \* bound: runs of the server

ASSUME SizesAssumption ==
  /\ DataSize \in Nat \ {0} /\ Blocks \in Nat \ {0}
  /\ Lengths \subseteq 1 .. DataSize * Blocks   \* a record fits the buffer
  /\ MaxRecords \in Nat /\ MaxRuns \in Nat \ {0}

VARIABLES
  buffer,    \* the blocks of buffer_ in use; none: both write offsets are 0
  current,   \* current_block_offset_, in blocks; block 0 is the file header
  file,      \* the blocks after the header, as the operating system has them
  stdio,     \* what fwrite has not passed on: the blocks from at onwards
  running,   \* the server runs
  run,       \* history variable: the number of the run
  log,       \* history variable: the records appended in this run
  old,       \* history variable: the file this run found
  promised   \* history variable: the units a commit answered Success for

vars == <<buffer, current, file, stdio, running, run, log, old, promised>>

Kind == {"change", "RedoMiniTxnCommit"}
Record == [kind : Kind, len : Lengths]

\* the i-th unit of the n-th record of run k
Unit == (1 .. MaxRuns) \X (1 .. MaxRecords) \X (1 .. DataSize * Blocks)
UnitsOf(n, record) == [i \in 1 .. record.len |-> <<run, n, i>>]

\* first_record_offset, counted from the end of the block's header: DataSize
\* when it says that no record starts in the block
Block == [first : 0 .. DataSize, data : Seq(Unit)]
NewBlock == [first |-> 0, data |-> <<>>]
Full(block) == Len(block.data) = DataSize

NoBlocks == [at |-> 1, blocks |-> <<>>]

Init ==
  /\ buffer = <<>> /\ current = 0
  /\ file = <<>> /\ stdio = NoBlocks
  /\ running = TRUE /\ run = 1
  /\ log = <<>> /\ old = <<>> /\ promised = {}

-----------------------------------------------------------------------------
(* CLogBuffer: s is a buffer, the block number it has come to and the units *)
(* of the record it has taken so far (offset).                              *)

\* mutant: the test lets one more block in
BufFull_OneMore(b) == Len(b) = Blocks + 1 /\ Full(Last(b))

\* the last block of the buffer is full: answered by LogBufFull
BufFull(b) == Len(b) = Blocks /\ Full(Last(b))

\* mutant: the block's place in the file is not advanced
InOpenBlock_SamePlace(s) ==
  IF s.buffer = <<>> \/ Full(Last(s.buffer))
  THEN [s EXCEPT !.buffer = Append(@, NewBlock),
                 !.current = IF s.buffer = <<>> THEN @ + 1 ELSE @]
  ELSE s

\* the first block of an empty buffer, or the block after a full one
InOpenBlock(s) ==
  IF s.buffer = <<>> \/ Full(Last(s.buffer))
  THEN [s EXCEPT !.buffer = Append(@, NewBlock), !.current = @ + 1]
  ELSE s

\* mutant: the rest of a record counts as the start of a record
FirstRecordOffset_AnyStart(block, left, offset) ==
  IF block.data # <<>> THEN block.first ELSE IF left <= DataSize THEN 0 ELSE DataSize

\* only the record that opens a block sets first_record_offset
FirstRecordOffset(block, left, offset) ==
  IF block.data # <<>> THEN block.first
  ELSE IF left <= DataSize THEN (IF offset = 0 THEN 0 ELSE left)
  ELSE DataSize

\* one pass of AppendCLogRecord: what is left of the record, or what fits
Pass(s, units) ==
  LET t == InOpenBlock(s)
      block == Last(t.buffer)
      left == Len(units) - t.offset
      room == DataSize - Len(block.data)
      n == IF left <= room THEN left ELSE room
  IN  [t EXCEPT !.buffer[Len(t.buffer)] =
                   [first |-> FirstRecordOffset(block, left, t.offset),
                    data |-> block.data \o SubSeq(units, t.offset + 1, t.offset + n)],
                !.offset = @ + n]

\* AppendCLogRecord calls itself until the record or the buffer ends; every
\* pass but the last fills a block
AppendCLogRecord(s, units) ==
  LET after[k \in 0 .. Blocks + 1] ==
        IF k = 0 THEN s
        ELSE IF after[k - 1].offset = Len(units) \/ BufFull(after[k - 1].buffer) THEN after[k - 1]
        ELSE Pass(after[k - 1], units)
  IN  after[Blocks + 1]

\* mutant: a flushed buffer starts over with a block of its own
Kept_Nothing(b) == <<>>

\* FlushBuffer: the last block, if it is not full, becomes the first
Kept(b) == IF Full(Last(b)) THEN <<>> ELSE <<Last(b)>>

-----------------------------------------------------------------------------
(* The file. *)

\* a write beyond the end leaves zeros in between
Written(f, at, blocks) ==
  [i \in 1 .. (IF Len(f) >= at + Len(blocks) THEN Len(f) ELSE at + Len(blocks) - 1) |->
     IF i \in at .. at + Len(blocks) - 1 THEN blocks[i - at + 1]
     ELSE IF i \in DOMAIN f THEN f[i] ELSE NewBlock]

\* fflush
Flushed == Written(file, stdio.at, stdio.blocks)

\* mutant: a flush of the last block alone
WriteAt_LastBlock(at, blocks) ==
  /\ file' = Written(Flushed, at + Len(blocks) - 1, <<Last(blocks)>>)
  /\ stdio' = NoBlocks

\* WriteAt: the fflush comes before the fwrite, so stdio keeps as much of
\* the end of the new data as it likes
WriteAt(at, blocks) ==
  \E n \in 0 .. Len(blocks) :
     /\ file' = Written(Flushed, at, SubSeq(blocks, 1, n))
     /\ stdio' = [at |-> at + n, blocks |-> SubSeq(blocks, n + 1, Len(blocks))]

-----------------------------------------------------------------------------
(* CLogManager *)

\* mutant: what did not fit is forgotten when the buffer has been flushed
Rest_Lost(s, units) == s

\* "the current record is not written completely"
Rest(s, units) == AppendCLogRecord(s, units)

\* mutant: only a full buffer is flushed
MustSync_OnlyFull(record, isFull) == isFull

MustSync(record, isFull) == isFull \/ record.kind = "RedoMiniTxnCommit"

\* units of the records appended up to now
Appended(records) == FlattenSeq([n \in DOMAIN records |-> UnitsOf(n, records[n])])

AppendRecord(record) ==
  LET units == UnitsOf(Len(log) + 1, record)
      s == AppendCLogRecord([buffer |-> buffer, current |-> current, offset |-> 0], units)
      isFull == s.offset < record.len   \* LogBufFull, and the value returned
      t == Rest([s EXCEPT !.buffer = Kept(@)], units)
  IN  /\ running /\ Len(log) < MaxRecords
      /\ log' = Append(log, record)
      /\ IF MustSync(record, isFull)
         THEN /\ WriteAt(s.current - Len(s.buffer) + 1, s.buffer)
              /\ buffer' = t.buffer /\ current' = t.current
         ELSE /\ buffer' = s.buffer /\ current' = s.current
              /\ UNCHANGED <<file, stdio>>
      /\ promised' = IF record.kind = "RedoMiniTxnCommit" /\ ~isFull
                     THEN promised \cup ToSet(Appended(log')) ELSE promised
      /\ UNCHANGED <<running, run, old>>

\* DataBase::Destroy deletes the log buffer without Sync; the exit of the
\* process flushes stdio
Exit ==
  /\ running
  /\ running' = FALSE
  /\ file' = Flushed
  /\ buffer' = <<>> /\ stdio' = NoBlocks
  /\ UNCHANGED <<current, run, log, old, promised>>

\* the process dies: user memory is gone, what was written stays
Crash ==
  /\ running
  /\ running' = FALSE
  /\ buffer' = <<>> /\ stdio' = NoBlocks
  /\ UNCHANGED <<current, file, run, log, old, promised>>

\* DataBase::Init: a new CLogManager, whose CLogFile opens the existing file
\* and reads its header block only
Start ==
  /\ ~running /\ run < MaxRuns
  /\ running' = TRUE /\ run' = run + 1
  /\ current' = 0 /\ log' = <<>> /\ old' = file
  /\ UNCHANGED <<buffer, file, stdio, promised>>

Next ==
  \/ \E record \in Record : AppendRecord(record)
  \/ Exit
  \/ Crash
  \/ Start

Spec == Init /\ [][Next]_vars

-----------------------------------------------------------------------------
(* Properties *)

Content(blocks) == FlattenSeq([i \in DOMAIN blocks |-> blocks[i].data])

\* the blocks written in this run, as the file will have them once stdio and
\* the buffer are written
InFile == SubSeq(Flushed, 1, current - Len(buffer))
Everything == Written(Flushed, current - Len(buffer) + 1, buffer)
ThisRun == SubSeq(Everything, 1, current)

(***************************************************************************)
(* Types, with the sizes of the buffer and of its blocks.                  *)
(***************************************************************************)
TypeOK ==
  /\ buffer \in Seq(Block) /\ Len(buffer) <= Blocks
  /\ \A i \in DOMAIN buffer : Len(buffer[i].data) \in 1 .. DataSize
  /\ current \in 0 .. MaxRecords * Blocks
  /\ file \in Seq(Block) /\ old \in Seq(Block)
  /\ stdio.at \in Nat \ {0} /\ stdio.blocks \in Seq(Block)
  /\ running \in BOOLEAN /\ run \in 1 .. MaxRuns
  /\ log \in Seq(Record) /\ Len(log) <= MaxRecords
  /\ promised \subseteq Unit

\* the places in a block where a record starts, and the first of them
Starts(block) == {p \in DOMAIN block.data : block.data[p][3] = 1}
FirstStart(block) == CHOOSE p \in Starts(block) : \A q \in Starts(block) : p <= q

\* Where none starts first_record_offset is the size of a block, or the end of
\* the rest if the block is not yet full.  Only a block opened by a record that
\* is longer than a block is left out.
PointsAtFirstRecord(block) ==
  IF Starts(block) = {}
  THEN block.first = DataSize \/ (~Full(block) /\ block.first = Len(block.data))
  ELSE \/ block.first = FirstStart(block) - 1
       \/ log[block.data[FirstStart(block)][2]].len > DataSize

(***************************************************************************)
(* While the server runs, the blocks of the file, those stdio still holds  *)
(* and those of the buffer, each at its offset, spell every record         *)
(* appended in this run once and in order, however records were cut at     *)
(* block ends and at buffer ends.  All blocks but the last are full:       *)
(* CLogFile::Recover stops at the first one that is not.  And              *)
(* first_record_offset tells where the first record of a block starts,     *)
(* after any rest of an earlier one.                                       *)
(***************************************************************************)
LogAccounted ==
  running => /\ Content(ThisRun) = Appended(log)
             /\ \A i \in 1 .. current - 1 : Full(ThisRun[i])
             /\ \A i \in DOMAIN buffer : PointsAtFirstRecord(buffer[i])

(***************************************************************************)
(* When AppendRecord answers Success for a commit, nothing of this run's   *)
(* records up to it is in the log buffer only: it has been handed to       *)
(* stdio, so that a stop of the server keeps it.                           *)
(***************************************************************************)
CommitHandedOver ==
  running => \A u \in promised :
               u[1] = run => \E i \in DOMAIN Flushed : u \in ToSet(Flushed[i].data)

(***************************************************************************)
(* Wherever a run is cut short, the file holds a beginning of its log,     *)
(* then the blocks it found there: no block is missing in between, and     *)
(* none is older than the one after it.                                    *)
(***************************************************************************)
CrashLeavesBeginning ==
  \E n \in 0 .. Len(file) :
     /\ IsPrefix(Content(SubSeq(file, 1, n)), Appended(log))
     /\ Len(old) >= Len(file) \/ n >= Len(old)
     /\ \A i \in n + 1 .. Len(file) : i \in DOMAIN old /\ file[i] = old[i]
=============================================================================
