# Verification of the idmbs server

TLA+ modules, TLC runs and TLAPS proofs kept beside the C++ code of `src/src/server`, a
single-threaded relational database server in the style of miniob. Paths below are
relative to `src/src/server/` unless they start with `src/`.

## 1. The system

One thread reads SQL statements and pushes each through five stages (start, parse, resolve,
execute, store). Nothing runs concurrently; what makes the code hard is that many objects
hold pages of one small buffer pool *between* calls, that errors leave multi-step
operations half done, that the stages keep what an earlier line left in them, that closing,
reopening and crashing leave state behind, and that limits (frames, pages, log buffer, node
sizes) are met in the middle of operations.

| Part | Code | State | Operations | Works with |
|---|---|---|---|---|
| Buffer pool | `storage/buffer_pool.*` | open files by name and descriptor, frames, `disposed_pages_`, a header page per file | create, open, close, get, allocate, dispose, unpin, flush, evict | LRU cache, memory pool; called by records and indexes |
| Frame manager, memory pool | `storage/buffer_pool.cpp`, `storage/mem_pool.h` | frames free / used / cached | `Alloc`, `Free`, `GetPurgeableFrame` | LRU cache |
| LRU cache | `storage/lru_cache.h` | hash set and doubly linked list | get, put, remove, walks | frame manager |
| Bitmap | `storage/bitmap.cpp` | bits of a page | set, clear, next set / unset | records, page iterator |
| Record file | `storage/record.*` | slotted pages, `free_pages_`, scanner position | insert, delete, update, get, scan | buffer pool |
| Commit log | `storage/clog_manager.*`, `common/persist_file_io_handler.*` | LSN, 4 MB log buffer, 512-byte blocks, stdio buffer | append, sync, recover | tables, transactions |
| Transactions | `storage/txn.*` | next id, operations per table, id field of records | insert, delete, visibility | tables, log |
| Tables | `storage/table.*` | record file, indexes, meta data | insert, delete, scan, create index, open | records, B+ trees, log |
| B+ tree | `storage/b_plus_tree*`, `common/lower_bound.h` | header page, node pages, sibling links | insert, delete, split, coalesce, redistribute, scan | buffer pool |
| Databases | `storage/database.*` | opened tables, the path | create table, open all | tables |
| Parser | `parse/parse.cpp`, `parse/yacc_sql.*` | the queries of a line | the semantic actions | lexer |
| Resolution | `resolve/*` | none | names, filters, values | tables |
| Execution | `execute/*` | pull operators over a scan | select, insert, delete, create | tables |
| Server loop | `server.cpp`, `common/*_main*`, `storage/storage_main.cpp` | what each stage holds, its transaction, the answer | one line at a time, a script, exit | all |

What makes each part correct: *pool*: nothing held is evicted, nothing written is lost,
headers add up, every counted page exists, also after a crash; *frame manager*: no frame
lost or shared, the eviction loop ends; *LRU list*: no dangling pointer, both walks in order
of use; *record file*: every inserted record is found again by scan until it is deleted,
pins are returned; *log*: a committed record is handed to the file, in order, and a crash
leaves a beginning of the log; *tables and transactions*: records, index entries and log
agree after every statement, also after a failed one; *B+ tree*: ordered, balanced, all
leaves linked, every range answered, pages and pins given back; *databases*: a table that
was answered for comes back; *server*: a line does and answers what its command means, and
inherits neither transaction nor answer of another.

## 2. Modules

| Module | Models | Checked / proved |
|---|---|---|
| `LruOrder` | recency as a strict order of keys; used by the pool, the list and the frames | lemmas in their proofs |
| `BufferPool` | `GlobalBufferPoolManager`, `DiskBufferPool`, crash and restart; one action per call | `pool_shared`; `BufferPoolProofs` |
| `PageStore` | the promise: files of pages that keep what is written | target of the refinement |
| `BufferPoolRefinement` | mapping from `BufferPool` to `PageStore` | `pool_refines`; proved in `BufferPoolProofs` |
| `LruList` | the linked list of `LruCache`, link by link | `lru_list`; `LruListProofs` |
| `FrameManager` | frame manager and memory pool, `AllocateFrame` one round per step; composes `LruList` and compares itself with `BufferPool` | `frame_manager`, `frame_loop`; `FrameManagerProofs` |
| `RecordFile` | `RecordFileHandler`, `RecordPageHandler`, `RecordFileScanner` under SELECT and DELETE | `record_file`; `RecordFileProofs` |
| `CommitLog` | `CLogBuffer`, `CLogFile`, `CLogManager` over stdio; exit, crash, start | `commit_log`; `CommitLogProofs` |
| `CommitLogClaims` | what a comment says of the redo log and the code does not do | `claim_replay` |
| `BplusTree` | `BplusTreeHandler` and `BplusTreeScanner` on clean and dirty frames | `btree` |
| `TableStore` | one table: records, indexes, log, transactions, every error path | `table_store`; `TableStoreProofs` |
| `Catalog` | `DataBase` and the files of its tables, through crashes | `catalog`; `CatalogProofs` |
| `SqlParser` | the query structures, and the semantic actions that fill them | used by the next three |
| `Statements` | resolution, values, comparisons and the operators of execution | used by the next two |
| `SqlMeaning` | what a command means, read off the command as written | the reference of `session` |
| `Session` | the server loop and its five stages; composes the three above | `session`; `SessionProofs` |
| `MCBufferPool`, `MCFrameManager`, `MCBplusTree`, `MCTableStore`, `MCCatalog`, `MCSession` | instances for TLC: symmetry sets, rows, lines | |

The layers are modelled apart and each takes the one below at its word: `Session` takes
tables, `TableStore` takes record files and trees, `RecordFile` and `BplusTree` take the
pool. What a lower layer may refuse is a choice in the upper one (`Fault`), and how often it
is made is a bound (`MaxFaults`).

### BufferPool

`file` is the two maps of open pools; `frames` is the content of the LRU cache by `FrameId`
(descriptor, page); `recency` the LRU order; `disposed` the sets `disposed_pages_`; `disk`
the files. `held` is a history variable: the pins the clients have taken and not returned. A
header page is a record (`pages_num`, `allocated_pages_num`, the bitmap as a set) that is
read and changed in its resident frame, as `file_header_` is.

The heart is `AllocateFrame`. `Granted(k, E)` says that the loop frees exactly the frames
`E` and then gets a frame for page `k`; `Refused(k, E)` that it frees `E` and then finds
every frame pinned, or meets a dirty frame whose descriptor is closed. `E` is the shortest
list of unpinned frames from the old end of the LRU order that makes room. Every operation
that may allocate a frame is split into an action that succeeds and one that fails, and a
failure keeps its evictions, its touch of the LRU order and what the code had changed by
then (`AllocatePageReusesFails` keeps the bit set).

Two next-state relations. `Next` lets the clients fetch any page number, close files at any
moment and lets the process die between two operations. `OpNext` is the contract of the
clients: they fetch and dispose pages whose bit is set, do not close files while the server
runs, and the process exits through `GlobalBufferPoolManager::Destroy`. The code breaks it in
two places. A CREATE INDEX that is refused by a record closes and removes its file, which
`Next` has (`CloseFile`, `RemoveFile`). An INSERT that is rolled back may dispose a page whose
bit is clear, which is in `RecordFile` (`TakenBackFromFreePage`); the page is pinned and its
pin is never returned, so the disposal is never carried out. Both let a client
write into a page it holds (marking it dirty, as every caller does through the frame it
holds) or format and flush it (`RecordPageHandler::InitEmptyPage`).

`CloseFile` first erases the pool from the two maps and then uses the erased iterator
(`buffer_pool.cpp:534-538`). The build reads the pool pointer that is still in the freed
node; the model takes that outcome. A `CloseFile` that finds the header page pinned by a
client is not modelled, because no client fetches page 0. Closing leaves the data frames of
the file cached, and `open()` returns the lowest free number, so that the next file may be
opened under a number that still has frames of another. This happens after a CREATE INDEX that
a record refuses (`table.cpp:400`, `b_plus_tree.cpp:715-731`). Here `OpenFile` takes any free
number. The frames a closed file leaves behind are marked (`left`, a history field) until
they are written or formatted. `CleanFramesMatchDisk` speaks of all other clean frames: only
marked ones may differ from the file that is open under their number.

### LruList and FrameManager

`LruList` keeps `searcher_` as a function from key to node with `prev` and `next`; a key
has at most one node, so a pointer is the key of its node. `newer` is a history variable,
the true order of use, and `InUseOrder` says the links are that order.

`FrameManager` uses the operators of `LruList` for its cache, the free list and used set of
`MemoryPool`, and the label (`file_desc_`, `page_id`) each frame carries. Where
`BufferPool` takes `AllocateFrame` in one action, here a call starts the loop and every
round is a step. The failure of `LoadPage` is an `Unpin` followed by `PurgeFrame`.
`LoopAnswers` compares the two: the frames freed by the rounds are the set that
`BufferPool` names, for the cache the loop started with.

### RecordFile

A page is the set of its occupied slots (`record_num` is its size, `record_capacity` the
constant `Capacity`); values are left out, because every question here is about where a
record is. The pool is cut down to what a record file sees of it: the header's `pages_num`
and bitmap, `disposed_pages_`, and which pages are pinned. `held` are the pages pinned for
good: a `RecordPageHandler` that goes out of scope does not unpin, so `InsertRecord`,
`DeleteRecord` (except with the last record of a page) and the end of a scan each leave a
pin. `GetPage` fails when the pinned pages and the header fill the `Frames`.

`InsertRecord` ends in one of four ways: a page of `free_pages_` is found (any order, as in
an `unordered_set`), a page of it gets no frame, a page is allocated, or none can be. An INSERT
whose index entry is refused deletes its record again (`table.cpp:520`, `:536`), which is one
step with the insertion: `TakenBackFromFreePage` and `TakenBackFromNewPage`. The rollback gets
the page a second time, and disposes it if it became empty; but the insertion's own
pin stays, so the page goes to `disposed_pages_` and never leaves it before the server exits.
A statement that scans is `BeginScan`, then one action per record, then `EndScan` or
`ScanFails`. `NextRecord` and `DeleteRecord` both run `RecordFileScanner::Next`, which is
one record ahead (`next_record_`) with an iterator two ahead (`next_slot_id_`); whether
the predicate matches is a choice. `NextSetBit` is kept as it is, with `ByteBits` per byte.
`Restart` is a regular exit, which flushes all pages (`DiskBufferPool::Destroy`), and
`InitFreePages` of the next start. A scan that cannot start is no step: the scanner then
returns an uninitialized record (see the hazard at `table.cpp:417`).

`stray` is the history of rows that went into a page whose bit was clear: after a restart,
deleting the only record of a page disposes it while `free_pages_` keeps it, and the next
INSERT goes there. When that INSERT is rolled back, a page whose bit is clear is in
`disposed_pages_`. `RowsKept` says of all other rows that they stay, that every page in
`disposed_pages_` is pinned, and that one which only the scanner pins, the only one whose
disposal will be carried out, has its bit set and no record.

### CommitLog

`buffer` is the blocks of `buffer_` in use, so that it is empty exactly when both write
offsets are 0; `current` is `current_block_offset_` in blocks. A unit stands for a piece of
a log record: a block takes `DataSize` of them (504 bytes in the code). `AppendCLogRecord`
calls itself for the next piece of a record; here `Pass` is one piece, repeated by a
recursive function. `AppendRecord` is the whole of `CLogManager::AppendRecord`: append, on
a full buffer or a commit flush, then append the rest.

`WriteAt` calls `fflush` before its `fwrite`, and nothing calls it after. What glibc passes
to the operating system at once is therefore a choice: any number of the blocks, from the
front, and the others stay in `stdio`. `Exit` is a regular end of the process, which flushes
stdio but not the log buffer that `DataBase::Destroy` deletes; `Crash` loses both. `Start` is
`DataBase::Init`: nothing calls `CLogManager::Recover`, and the block offset starts at 0.
`log`, `old`, `promised` and `run` are history variables.

`LogAccounted` includes where `first_record_offset` points. It leaves out blocks opened by a
record longer than a block (an insert of more than 504 bytes): those are marked as if no
record started there, against the comment at `clog_manager.cpp:191`; only recovery, which
is never called, would read the mark.

### BplusTree

A tree is a record `t`: `nodes` are the allocated pages as the pool shows them, `saved` what
the file holds of the pages whose frame is clean (a marked page is not in `saved`), `root`,
the `pins` left behind, `torn` when a split could not enter its new node in the parent, and
`aborted` when an assertion ends the process. One statement runs at a time, so a call of the
handler is one step: an operator takes a tree and returns the one the C++ leaves, built from
an operator per C++ function (`Split`, `Coalesce`, `Redistribute`, `AdjustRoot`, ...), in
their order. `Evict` gives a clean, unpinned page back to what `saved` has: exactly what an
eviction does. It is how the model shows which changes stay unmarked.

`RidCompare` is `RecordId::Compare` with its slip: two slots of one page are equal. The
places of `MCBplusTree` are pairwise different for it; places that are not are the subject
of `TableStore`. `NoPage`, `ZeroKey` and the first key of an internal node are as in the
code: the range tests fall on separators and first keys that no entry has any more, against
the comment at `b_plus_tree.cpp:1504`, and `RangesAnswered` says that the scanner answers
every range all the same. `lost` and `unlinked` are the history of evictions that took back
an unmarked change; `InsertsAreMarked` says that only deletions and the `prev_brother` of a
split's right neighbor can cause one, and the other properties speak of trees that lost
nothing. A leaf takes four entries in the run: with two or three the code runs
into its own assertions, but only a field of more than 4 KB makes a leaf page that small.

### TableStore

`rows`, `indexes_` (each a leaf, found by the code's binary search), `log`, `synced`,
`global_txn_id`. INSERT and CREATE INDEX are one action each, per way they end; a DELETE is
`BeginDelete`, one step per record, and an end. A *fault* is one call of the record file or
of a tree that the pool refuses, wherever in the statement it comes: the entry of the second
index, the rollback of the first, the record after its entries are gone. `LogRoom` is how
many records the log buffer takes: `AppendRecord` on a full buffer reports `LogBufFull`
for a record that it has appended, and the statement fails with its change made.

History: `loaded` the rows a process starts with, `acked` and `late` the transactions
answered SUCCEEDED and those whose commit met a full buffer, `stray` the rows a refused
rollback leaves, `blurred` that two rows of one page got equal keys, `hurt` that a removal
was refused. `LogTellsRows` ties log and rows through all of these; `IndexesExact` speaks of
histories that are neither blurred nor hurt. Statements are bounded, so the run has an end
and does not check deadlock.

### Catalog

Meta files are absent, torn or JSON; data files have their header page or not. A statement
opens the database (`GetDb`, then one `OpenTable` per meta file in any order, as the
directory lists them); CREATE TABLE is one step per call of the operating system, and
`Crash` may come between any two. Every open file keeps a frame for its header page, so a
process has room for `NumFrames` files. A CREATE TABLE that finds no frame leaves complete
files behind, so the next process has one table more than frames and opens none of them: that is the
cause `RefusedForCause` allows, along with files of a creation cut short. A data file
without header makes `LoadPage` use a null `file_header_` (`buffer_pool.cpp:440`); the
process dies, and so does the next. `GetDb` appends to `project_bin_path_` itself, so that
after a first failure no later try of that process succeeds. An index file is never opened
again, because `table_meta_` never hears of an index. CREATE INDEX ends in three ways: the index
is there; the file is there but got no frame, and its name stays taken; or a record was refused,
and the file is closed and removed (`b_plus_tree.cpp:715-731`). Data and node pages take frames
as well, so any CREATE TABLE or CREATE INDEX may be refused one.
`SchemaKept` compares the fields a process has of a table with those CREATE TABLE gave,
through `Serialize`, the type names and the sort by offset.

### SqlParser, Statements, SqlMeaning, Session

`SqlParser` starts from the commands of a line in the order the grammar reduces them, and
fills the arrays of a query the way the semantic actions do: conditions and values are
collected by the context, last query wins. `Statements` is every `Statement::Handle` and
operator of execution over the tables. Values are sequences of numbers: one number for an int or
a float, the bytes for a string, and a field holds as much of a string and its NUL as it
has room for. Floats are counted in a small unit: `Epsilon` is the greatest difference below
1E-6, `Hundredth` the units in 0.01. `SignBit` is the least byte that is negative as a
`char`, 128 in the code. `Commands`, `IsLine` and `IsTable` say what a line and a
table may be: whatever the grammar and CREATE TABLE let through, over a set `Names`. `SqlMeaning` uses none of this: it reads what a WHERE is true of off the command, and
what a SELECT shows. `Blind` names the comparisons that the code gets wrong or leaves open,
and they are the only thing the properties leave out of a WHERE:

* an int with a float;
* equal floats, unless `<=` or `>` asks, and the order of floats of which the left one is
  greater by no more than `Epsilon` (`common_defs.cpp:51-56` takes both for "less");
* the order of ints whose difference overflows;
* the order of a string that fills its side and begins the longer one on the other side, when
  the next char of the longer one has the wrong sign: the code answers that char, whichever
  side it comes from, and a byte from 128 on is negative;
* equal strings that fill neither of two fields of different widths.

A SELECT shows a float with `%.2f` (`tuple.cpp:15`), to the nearest hundredth and halves to the
even one: `Hundredths` is the code's, `Nearest` in `SqlMeaning` what it should be. A name that
two columns of a table have is left out as well (`NamesField`, `NamesColumns`). CREATE TABLE
lets them through, and `RowTuple::GetUnit` (`tuple.cpp:100`) returns the first field of a name,
so that `SELECT *` shows that one twice.

`Session` has an action per end of each stage. An action is `Init` and `Handle` of one
stage: take over what the stage before holds, copy `txn_`, work, set the answer, pass on or
end the line. `mains` keeps what every stage held last, which is where a line could meet
something of another one. `DoTest` reads a script and handles its lines the same way. The
tables are taken at their word except for `MaxFaults` calls that fail (no frame, a refused
index, a full log buffer). `Stopped` makes the end of the server the only state without a
successor, so the deadlock check shows that no line stops inside a stage.

## 3. Runs

| Run | Question | Bounds |
|---|---|---|
| `pool_shared` | Do the six invariants of the pool hold for two files that fight for frames? | 2 files that are closed, removed and opened under either of 2 descriptors, 2 frames, 3 pages a file, 2 pins a page |
| `pool_refines` | Is the pool a page store to its clients? | 1 file, 3 frames, 4 pages |
| `lru_list` | Is the list sound under every sequence of calls? | 5 keys, 2 values |
| `frame_manager` | Does the loop do what `BufferPool` says, and is every frame accounted for? | 3 frames, 2 descriptors, 2 pages |
| `frame_loop` | Does `AllocateFrame` return? | 2 frames, 2 descriptors, 2 pages |
| `commit_log` | Is the log complete, in order and a beginning of itself after a crash? | 2 runs of the server, 3 records of 1 to 3 units, blocks of 2 units, 2 blocks |
| `record_file` | Do rows stay, do scans return each once? | 3 record pages of 3 slots, 3 frames, bytes of 2 bits |
| `btree` | Is the tree valid, does it answer every range, does it give its pages back, and what does an eviction lose? | 15 entries, 4 entries a leaf, 4 children a node, 10 pages, 5 tables to start from, 3 calls after that |
| `table_store` | Do records, indexes, log, ids and answers agree through refused calls and full buffers? | 3 places (2 of one page), 2 fields of 2 values, 2 indexes, 2 records of log buffer, 5 statements, 1 refused call |
| `catalog` | Does a table that was answered for come back with its schema? | 4 tables and a name too long, 3 frames, crashes at any moment |
| `session` | Does every line do, show and answer what its command means, and only that? | 2 tables of 2 rows, 39 lines, 3 of them read, scripts of 2, 1 fault, ints from -8 to 7, bytes from 0 to 7 (from 4 on negative), `Epsilon` 1, `Hundredth` 4 |
| `claim_replay` | Is every acknowledged commit in the log file? (No.) | as `commit_log` |

The bounds. With two frames and two open files both header frames are resident and pinned
and every allocation fails; with one file open, one frame is left and every miss evicts.
So two frames reach grants, evictions, dirty write-backs, refusals and failed opens. Three
pages let a file grow to its limit, have a page freed below the last one, and reuse it.
`MaxPins` = 2 distinguishes the last unpin from another; pins are otherwise unbounded in
the code. The refinement needs an eviction that has a choice, so it has three frames for
four pages. Five keys give a list with a node that has two neighbours on each side.
In the log, two blocks of two units let a record start in a block and end in the next,
be longer than a block, end exactly with a block or with the buffer, and meet a full
buffer with a part of it written or none; three records do all of that after a kept block,
and the second run writes over the blocks of the first, shorter or longer.
In a record file, three slots over bytes of two bits put a byte boundary inside a page's
bitmap and inside the file's, which is where `NextSetBit` could skip; three frames hold
the header and two pages, so that statements fail for want of a frame, and after a restart
a scan can evict the page it has just left. Restarts are not bounded.
In the tree, the rows a CREATE INDEX finds bring it to one, two or three levels, ascending,
descending and mixed; three further calls split, merge, borrow from either side, shrink the
root, empty the tree and meet the end of the file with ten pages. It is the longest run,
some two and a half minutes.
In a table, two indexes let the second refuse what the first has taken; two places of one
page and one of another give keys that compare equal and keys that do not; a log buffer of
two records is full inside a statement, at its commit, or not at all; with five statements a
row that a rollback left behind can be deleted, its place reused, and the process
restarted between. In the catalog, three frames are fewer than four tables. In the session,
the 39 lines lead each stage to each of its ends, and three of them are enough for a line
between two others: the one that leaves a transaction, the one that fails, the one that
could inherit it.

Fairness. Only `FrameManager` assumes any: weak fairness of `Round`, the loop body of
`AllocateFrame`. The thread that runs the loop is the only thread and does not block, so it
runs the next round. Nothing is assumed of the clients. Deadlock is checked except where the
model's bounds end the behaviour (`commit_log`, `table_store`).

Every property has a mutant of a definition that models code under which TLC finds it
violated (`PROJECT.json`; the mutants stand in the modules, before what they change).

What `claim_replay` shows: the end of a flushed log is still in stdio's memory, and a
restarted server overwrites the log from its first block, so the log file is not what
`buffer_pool.cpp:159` relies on.

## 4. Proofs

All proofs are for every value of the constants that the named assumptions of the modules
allow. These only say what the constants stand for: sizes are positive, the null values
(`Nil`, `NoFile`) are none of the values, `open` never returns -1, descriptors and items are
finitely many, a log record fits the log buffer, attributes have a type and take space.

`BufferPoolProofs` (at least one frame and one page, finitely many descriptors, distinct
kinds of page content):

* `BooksBalance`: `Spec => []Books`, the inductive invariant. It joins `TypeOK`,
  `PinAccounting`, `HeadersSound`, `CountedPagesExist`, `DisposalPending` and
  `PoolBounded`. None of them is inductive alone: that a header stays sound when a
  deferred disposal runs needs that the page is still allocated (`DisposalPending`), which
  needs that nobody freed it while it was pinned (`PinAccounting`), which needs that the
  frame was not evicted (victims have no pins) and that a header frame is always resident
  (the pool's own pin).
* `TypesHold`, `PinsConserved`, `HeadersStaySound`, `CountedPagesStay`,
  `DisposalsStayPending`, `PoolStaysBounded`: its parts.
* `NoLostUpdate`: `CleanFramesMatchDisk`, for whatever free descriptor `open()` returns.
  A file that is opened under a number with frames of another is told from its own frames by
  `left`; the invariant adds that a number that is not open has only such frames.

The order of the arguments: lemmas about `Flushed` (what a write-back changes on disk),
about `Granted` and `Refused` (victims are unpinned; the result has room), about the order
of use (`WithoutOrder`, `TouchOrder`), then one lemma per action and one per conjunct.

The second half of the module proves the refinement: `BufferPoolImplementsPageStore`,
`OpSpec => ImplementsPageStore`, under the contract `OpNext`: no file is closed while the server
runs, so that no frame is left behind. What a client sees of a
page is its frame if it is cached and the file otherwise. The invariant is `Ready`: `Books`,
`CleanFramesMatchDisk`, and that no page but the first of a file holds a header. Evictions
are not seen because a clean victim matches the file and a dirty one is written to it
(`PageSeen`, `OperationSeen`). Then there is one lemma for each action of the page store
(`StoreAllocates`, `StoreAcquires`, `StoreWrites`, ...) and one for each operation of the
pool, which shows the action that the operation carries out, or that it carries out none:
flushing, creating and opening files, and calls that get no frame before they change
anything. Opening a file is not seen because nobody holds a page of a descriptor that has no
frames, and `Shutdown` is `Restart` because it writes every frame of an open file.

Induction theorems that take an operator cannot be used, so the proofs about data go by a
least counterexample: the numbers for which a claim fails are a set, a non-empty set of
naturals has a least member (`LeastNatural`, from the library's well-founded induction), and
that member leads to a contradiction. A recursive function is unfolded the same way: that some
function satisfies its equation up to `k` is shown for every `k`, so the `CHOOSE` it stands
for satisfies it. The modules that need these lemmas each state them.

`LruListProofs` proves `ListStaysInUseOrder` and `NoDanglingPointer`, `Spec => []InUseOrder`
and `Spec => []TypeOK` of `LruList`, for every set of keys: the links are the neighbours in
the order of use after `LruTouch`, `LruPush` and `LruRemove`.

`FrameManagerProofs` builds on it. `FramesUnderTheirLabels` is the inductive invariant: the
list is sound; free, used and cached frames are three parts of the pool; every cached frame
has the label it is cached under; the loop's page is one it may allocate.
`FramesStayAccounted` is the part the runs check. It needs the labels, because the loop
frees the frame it chose under the label it finds in it, and needs that a purgeable frame is
a cached one.

`LoopIsOneAction`, `Spec => []LoopAnswers`, is the step from the list to the abstract cache:
what the loop of `AllocateFrame` has done when it answers is what `BufferPool` does in one
action. Its invariant is `LInv`. `Rounds` says that in every round the keys freed so far are
the least recently used of the unpinned keys the call found, that what is cached, in use
order, pinned and dirty is what it was without them, and that there was a reason to go on.
Two facts carry it. The walk from the tail, a recursive function over links, visits the
cached keys by rank in the order of use (uniqueness of such a walk, `OneWalk`, then
`PurgeableIsOldest`); and the next victim is the least recently used unpinned key that the
abstract action evicts next (`NextVictim`, `OneMore`).

`RecordFileProofs`: `RecordsAndScanner` is the inductive invariant, `TypesHold`, `RowsStay`
and `ScansAreComplete` its parts. Every set bit of a page is a row (`SlotsAreRows`), and
`ScanPlace` says where the scanner is: it stands on a row, the record read ahead is the next
one of its page, and what a running scan has still to return is exactly the rows from there
on. A disposal that waits for a pin of a handler that is gone stays where it is
(`HeldDisposals`), so an INSERT that is taken back, also on a page whose bit is clear, hurts
no row. The invariant holds through a DELETE that clears the bit the scanner stands on, because the disposal
of a page that became empty waits for the scanner's pin. That `NextSetBit`, with the start it
keeps in the byte, finds every bit (`NextSetBitExact`), and that the recursive walk over pages
ends at the next page with a record (`NextPageFinds`), are shown by least counterexample.

`CommitLogProofs`: `LogInFileAndBuffer` is the inductive invariant, `TypesHold`,
`LogIsAccounted`, `CommitsAreHandedOver` and `CrashesLeaveBeginnings` its parts, for every
size of blocks, buffer and records that fit the buffer and every bound on records and runs
(`SizesAssumption`). The properties alone are not inductive. `StateOk` says of a running
server that the blocks of the file before the buffer, as they will be when stdio has written,
are full and with the blocks of the buffer spell what was appended; that there is a block `w`,
the last before the buffer or the first of it, up to which the file has units that were
appended, all that a commit promised among them, and behind which there is only what the run
found; and, of the file without what stdio holds, that it has such a `w` too (`Beginning`).
The invariant was first checked with TLC, on the instance of `commit_log`.
The argument has four parts:

* Sequences: `FlattenSeq` of a concatenation, its elements, prefixes, and what a write does to
  a file (`WrittenFront`, `WrittenTwice`: the part stdio passes on now and the rest later are
  one write).
* `AppendCLogRecord`: one pass keeps the buffer sound and moves on by what it says
  (`PassGoes`), so all passes do (`AppendEnds`, by least counterexample over the recursive
  function). `RecordAppended` adds what only the sizes give: after one flush the rest of a
  record fits, because a record is at most as long as the buffer, so two calls are enough and
  `current` grows by at most `Blocks`.
* A flush: the block kept at the front of the buffer is the last one written (`KeptIsLast`),
  so that buffer and file join (`FlushesBuffer`); what stdio had passed on when the process
  died is a beginning (`FileBegins`).
* `first_record_offset`: of a block that is opened or filled (`FilledOk`).

`TableStoreProofs`: `LogIsKept` is the inductive invariant, `TypesHold`, `LogAlwaysTells`,
`CommitsClose` and `SuccessesAreSynced` its parts. What the log says last of a place is what
the table has there: a step appends one record of the log for the place it changes, or adds
the place to what a refused rollback leaves. A running DELETE has an id that no commit has,
and every id in the log is below the next.

The second half of the module proves `IndexesAreExact`, `Spec => []IndexesExact`, for every
number of places, records and indexes. The property is not inductive. `IndexInv` adds that the
entries of an index are sorted, that the keys of different records do not compare equal as
long as `blurred` says so, that the records are finitely many and that a DELETE has only
records left that are there. `KeyComparator` is no order (`RidCompare` calls two slots of one
page equal), so nothing can be taken from a theory of orders; that what it calls less is
transitive is proved from its arithmetic. The argument goes up in four steps:

* A leaf. Where the keys that are less come before the rest, the binary search ends at their
  end or at the key that compares equal (`SearchFinds`, by least counterexample over the part
  that is left); an entry put there or taken from there leaves the keys sorted (`KeyEntered`,
  `KeyRemoved`).
* An index: `EnteredExact`, `RemovedExact`, and as many entries as records (`ExactCounts`).
* All indexes of a record: a refused insertion is taken back from exactly the indexes it had
  reached (`AllEntered`), and DELETE finds the record in each of them (`AllRemoved`).
* CREATE INDEX: a scan meets every record once (`ScanMeetsAll`), so the fold over it leaves an
  exact index and is never refused (`FilledExact`).

`CatalogProofs`: `FramesAndFiles` is the inductive invariant, `TypesHold`, `TablesStay` and
`NeverRefusedOtherwise` its parts. A table that was answered for has whole files and had a
frame when it was created; the frames those tables need are therefore no more than the pool
has, unless a CREATE TABLE that was not answered for has left a file; and while a process
opens the database each such table is either opened or still to open.

`SchemasStay` is `Spec => []SchemaKept`: `Deserialize` after `Serialize` gives a `TableMeta`
back (`ReadBack`), because a type has one name, the offsets add up and increase, and a sort
of what is sorted moves no field (`SortedStays`, for every permutation that keeps the order
of offsets, since `std::sort` promises no more); and the meta file of a table stays the one
that was written for it (`Recorded`). That offsets increase needs that every attribute takes
space, which `IsFieldValid` sees to when a CREATE TABLE is resolved (`AttrsAssumption`).

`SessionProofs` has two invariants. `IdsHandedOut` is that of the transactions and
`TransactionsAreOwn` its part `OwnTransaction`. Ids come from one counter. From the resolution
of an INSERT to its execution its id is the newest and nothing was written under it, and a
DELETE takes an id of its own when it runs; every id that was written under is one the counter
has passed.

`IdsAreInts` is `Spec => []IdsFit`: no line takes more than two ids. A row keeps the id of its
INSERT as an int, so the type of a row rests on it, and on the assumption that twice the number
of lines is an int (`SessionAssumption`): the code counts ids in an `int32_t` and checks nothing.

`LinesAreHandled` follows one line through the stages, for every set of lines the grammar has
(`IsLine`, over any set of names), every set of tables (`IsTable`), every greatest int, epsilon, hundredth and sign bit, and every
number of faults. `LinesAreTyped`, `AnswersAreOwn`, `InsertsDoAsAnswered`,
`DeletesDoAsAnswered` and `SelectsShowAsMeant` are its parts `TypeOK`, `AnsweredForItself`,
`InsertedAsAnswered`, `DeletedAsAnswered` and `ShownAsMeant`. None of them is inductive: a line
is asked four stages before it is answered. `LineInv` says of a line on its way that its query
is what the parser makes of the line that was asked, its statement what resolve makes of that
query and of the tables as they were, that tables and answer are still those of before, and,
once it is executed, that the answer that waits is one of its kind and goes with what the tables
have become (`Did`, with a part for each kind: `InsertDid`, `DeleteDid`, `SelectDid`). The
argument:

* The parser. It folds over the commands of a line and over the conditions of a WHERE. A fold
  is a recursive function over sets of indices, shown to exist by induction on the greatest
  index (`WhereDefined`, `LineDefined`) and then turned into the list of the contexts between
  the steps (`WhereSteps`, `LineSteps`). Each command leaves a query of its kind, whatever
  commands came before it, because a condition takes from the values only what it put there
  (`ConditionTyped`, `ReduceTyped`, `ParseTyped`). A line of one command leaves a query with
  the conditions and attributes of that command: conditions and names as they were written,
  attributes in the order of the command, because the grammar reduces them from last to first
  and `AttrOrder` turns them round.
* Resolution: every query is refused with a text of its kind or becomes a statement of it, and
  then fits the table (`AllSettled`, `InsertSettled`).
* A WHERE: the rows the code lets through are those the WHERE is true of, whenever no
  comparison is `Blind` (`WhereMeant`), condition by condition (`ConditionMeant`) and type by
  type (`ComparedAsMeant`): a difference of ints that is an int has the sign of the order
  (`DifferenceOfInts`), the answer for floats is wrong only when they are equal or the left one is
  greater by no more than `Epsilon`, and strings are compared up to the shorter length and then
  by the sign of the next char of the longer (`StringsCompared`, `BeginsLonger`, `SignOfChar`).
* A SELECT: the header and the rows flatten what each attribute stands for (`SelectMeant`). A
  table scan meets the slots in their order (`ScanOrdered`), so the order of a sub-scan is that of
  the rows it lets through. A float is shown as its nearest hundredth (`HundredthsNearest`).
* Records: `MakeRecord` of values that fit is a row of the table, and reads as the values,
  cut at the width of the field (`RowMade`), which rests on where `strncpy` leaves a NUL
  (`KeptText`).
* Steps: one lemma each, over `Settles`, which takes in one place the three ways a statement
  can end: passed on, failed, or answered from inside the stage.

The proofs corrected the model where its small instance could not: a column name may be used
twice (above), and ids and int values have a range, since without one `CompareInt` is wrong for
values no int can be.

Only model-checked: the properties of `BplusTree` (its operators are recursive, which the
prover's arithmetic backend refuses) and the termination of `AllocateFrame` (liveness).

## 5. Not modelled

In the pool: errors of `read`, `write` and `lseek` other than reading past the end (a
failed extension at `buffer_pool.cpp:252` is reported as success with a clean frame),
`RecoverPage` (called only by redo replay, which nothing starts), `PurgeAllPages` and
`CheckPageId` (not called), a `MemoryPool` that grows (the server never asks for one), the
mutexes (one thread), access times (never read).

In the log: `Recover`, `BlockRecover` and `CLogMiniTxnManager` (nothing calls them), the
bytes of a record, the overflow of `global_lsn`, errors of `fwrite` (`Sync` ignores them).

In records and trees: `UpdateRecord` and the `Recover` functions (no caller), the bytes of a
record, `BplusTreeHandler::Open` (no caller in this commit), `FixUserKey`, printing, and a
`GetPage` that fails inside a tree (`TableStore` has it as a refused call, without what it
leaves inside the tree).

In tables and transactions: index scans (`FindIndexForScan` finds none, because
`table_meta_` never hears of an index), `Table::UpdateRecord` (returns an error),
`Txn::Commit` and `Rollback` (no caller), visibility (no caller passes a transaction),
several refused calls in one DELETE of `Session`, and a scan whose `Init` fails
(`table.cpp:417`), which returns an uninitialized record.

In databases: `CreateDb` and `DropTable`, which have no caller.

In the server: the lexer and the tables and driver that bison generates (the model starts
from the commands of a line, or from a line that is refused), the prefix tree of keywords,
DATE literals (they leave no value), lines that mix commands of different kinds (a query is
cast to a type it does not have), the 21st item of an array of the parser, the end of
standard input, NaN and infinite floats, the rounding of the difference of two floats, the sign of a
printed zero (`-0`), where standard output goes during a script, and builds without assertions.
The client is a socket program that no code of this server answers.

## 6. Plan

Done: the pool, the list, the frames, the refinement of the page store, record files, the
catalog, the log, tables and the server (checked and proved); the tree (checked). What would
come next:

1. `TableStore` over a tree of several leaves, where it takes one leaf for the whole tree now.
2. Recovery, when the server starts it: `Recover` over the files that `CommitLog` leaves,
   against `LogTellsRows`.
