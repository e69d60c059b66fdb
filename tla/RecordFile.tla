----------------------------- MODULE RecordFile -----------------------------
(***************************************************************************)
(* The records of one table, storage/record.cpp: RecordPageHandlers on     *)
(* pages of the buffer pool, RecordFileHandler with its free_pages_, and   *)
(* the RecordFileScanner a SELECT or DELETE statement pulls from.  One     *)
(* statement runs at a time, but a DELETE changes the file underneath its  *)
(* own scanner, which is always one record ahead.                          *)
(***************************************************************************)
EXTENDS Integers, FiniteSets, FiniteSetsExt

CONSTANTS
  MaxPages,  \* BufferPoolFileHeader::max_page_num
  Capacity,  \* record_capacity of a page
  ByteBits,  \* bits the bitmaps keep in a byte (8)
  Frames     \* frames of the pool for this file, one for its header page

ASSUME RecordSizesAssumption ==
  /\ MaxPages \in Nat \ {0, 1} /\ Capacity \in Nat \ {0}
  /\ ByteBits \in Nat \ {0} /\ Frames \in Nat \ {0, 1}

Page == 1 .. MaxPages - 1   \* page 0 is the header page
Slot == 0 .. Capacity - 1
RecordId == Page \X Slot
None == -1

VARIABLES
  pages,      \* pages_num of the file header
  allocated,  \* its bitmap, without page 0
  disposed,   \* disposed_pages_
  slots,      \* the bitmap of every record page; record_num is its size
  held,       \* pages with a pin of a handler that is gone: never unpinned
  freePages,  \* free_pages_
  scan,       \* the scanner of the statement that runs
  rows,       \* history variable: records inserted and not deleted
  stray       \* history variable: those put in a page whose bit was clear

vars == <<pages, allocated, disposed, slots, held, freePages, scan, rows, stray>>

NoScan == [running |-> FALSE, deletes |-> FALSE, page |-> 0, next |-> None,
           ahead |-> None, due |-> {}]
\* page: of record_page_handler_; next: the slot of next_record_; ahead:
\* next_slot_id_.  due is a history variable: records not returned yet.
Scan == [running : BOOLEAN, deletes : BOOLEAN, page : 0 .. MaxPages - 1,
         next : Slot \cup {None}, ahead : Slot \cup {None},
         due : SUBSET RecordId]

Init ==
  /\ pages = 1 /\ allocated = {} /\ disposed = {}
  /\ slots = [p \in Page |-> {}]
  /\ held = {} /\ freePages = {}
  /\ scan = NoScan
  /\ rows = {} /\ stray = {}

-----------------------------------------------------------------------------
(* Bitmaps and the buffer pool. *)

(***************************************************************************)
(* BitMap::NextSetBit(start) of a map with the bits S.  The position in    *)
(* the first byte is also where it starts to look in the bytes after, as   *)
(* long as the bytes it has passed are zero.                               *)
(***************************************************************************)
Found(S, start) ==
  {i \in S : /\ i >= start
             /\ \/ i \div ByteBits = start \div ByteBits
                \/ i % ByteBits >= start % ByteBits
                \/ \E j \in S : j \div ByteBits \in start \div ByteBits .. (i \div ByteBits) - 1}
NextSetBit(S, size, start) ==
  LET found == {i \in Found(S, start) : i < size} IN
  IF found = {} THEN None ELSE Min(found)

Full(p) == Cardinality(slots[p]) = Capacity

Pinned == held \cup ({scan.page} \ {0})

\* GetPage(p) while the pages Q are pinned: p is one of them, or a frame is
\* left beside the header page
Gettable(p, Q) == p \in Q \/ Cardinality(Q) + 1 < Frames

\* UnpinPage of pages whose other pins are Q: the disposals it carries out
Disposals(S, Q) == (S \cap disposed) \ Q

-----------------------------------------------------------------------------
(* RecordFileHandler *)

\* RecordPageHandler::InsertRecord into the page p with the slots taken
Put(p, taken) ==
  LET slot == Min(Slot \ taken) IN
  /\ slots' = [slots EXCEPT ![p] = taken \cup {slot}]
  /\ rows' = rows \cup {<<p, slot>>}
  /\ stray' = IF p \in allocated' THEN stray \ {<<p, slot>>} ELSE stray \cup {<<p, slot>>}

(***************************************************************************)
(* InsertRecord tries the pages of free_pages_ in the order the set gives  *)
(* them, drops the full ones E it meets and ends at one that is not full.  *)
(* Its handler goes out of scope without Destroy: the pin stays.           *)
(***************************************************************************)
Drops(E) == E \subseteq {p \in freePages : Full(p) /\ Gettable(p, Pinned)}
Left(E) == allocated \ Disposals(E, Pinned)

TakesFreePage(p, E) ==
  /\ ~scan.running /\ Drops(E)
  /\ p \in freePages \ E /\ ~Full(p) /\ Gettable(p, Pinned)
  /\ freePages' = freePages \ E
  /\ allocated' = Left(E)
  /\ held' = held \cup {p}
  /\ UNCHANGED <<pages, scan>>

InsertIntoFreePage(p, E) ==
  /\ TakesFreePage(p, E)
  /\ disposed' = disposed \ Disposals(E, Pinned)
  /\ Put(p, slots[p])

\* no frame for the next page of free_pages_
InsertFindsNoFrame(E) ==
  /\ ~scan.running /\ Drops(E)
  /\ \E p \in freePages \ E : ~Gettable(p, Pinned)
  /\ freePages' = freePages \ E
  /\ allocated' = Left(E) /\ disposed' = disposed \ Disposals(E, Pinned)
  /\ UNCHANGED <<pages, slots, held, scan, rows, stray>>

\* mutant: pages_num does not count the new page
Grown_Never(p) == pages

Grown(p) == IF p = pages THEN pages + 1 ELSE pages

NewPages == IF pages < MaxPages THEN {pages} ELSE {}

\* AllocatePage: the first page whose bit is clear, or else a new one
Allocatable(E) ==
  LET unset == (1 .. pages - 1) \ Left(E) IN
  IF unset # {} THEN {Min(unset)} ELSE NewPages

\* every free page was full: AllocatePage, InitEmptyPage, UnpinPage
TakesNewPage(p) ==
  /\ ~scan.running /\ Drops(freePages)
  /\ p \in Allocatable(freePages) /\ Gettable(p, Pinned)
  /\ pages' = Grown(p)
  /\ allocated' = Left(freePages) \cup {p}
  /\ held' = held \cup {p}
  /\ freePages' = {p}
  /\ UNCHANGED scan

InsertIntoNewPage(p) ==
  /\ TakesNewPage(p)
  /\ disposed' = disposed \ Disposals(freePages, Pinned)
  /\ Put(p, {})

\* the file is full, or there is no frame; the bit of an old page is set by then
InsertFindsNoPage ==
  /\ ~scan.running /\ Drops(freePages)
  /\ \A p \in Allocatable(freePages) : ~Gettable(p, Pinned)
  /\ allocated' = Left(freePages) \cup (Allocatable(freePages) \ {pages})
  /\ disposed' = disposed \ Disposals(freePages, Pinned)
  /\ freePages' = {}
  /\ UNCHANGED <<pages, slots, held, scan, rows, stray>>

(***************************************************************************)
(* An index refuses the record: Table::InsertRecord deletes it again.  The *)
(* page is still pinned by the handler of the insertion, so DeleteRecord   *)
(* gets it; without another record in it the page is disposed, later, even *)
(* if its bit is clear.                                                    *)
(***************************************************************************)
TakenBackFromFreePage(p, E) ==
  /\ TakesFreePage(p, E)
  /\ disposed' = (disposed \ Disposals(E, Pinned)) \cup (IF slots[p] = {} THEN {p} ELSE {})
  /\ UNCHANGED <<slots, rows, stray>>

TakenBackFromNewPage(p) ==
  /\ TakesNewPage(p)
  /\ disposed' = (disposed \ Disposals(freePages, Pinned)) \cup {p}
  /\ slots' = [slots EXCEPT ![p] = {}]
  /\ UNCHANGED <<rows, stray>>

-----------------------------------------------------------------------------
(* RecordFileScanner *)

PageAfter(p) == NextSetBit(allocated \cup {0}, pages, p + 1)

\* FetchNextRecord leaves the page p for the next one with a record; 0 when
\* there is none, None when a page gets no frame
NextPage(p) ==
  LET walk[q \in 0 .. MaxPages - 1] ==
        IF PageAfter(q) = None THEN 0
        ELSE IF ~Gettable(PageAfter(q), held) THEN None
        ELSE IF slots[PageAfter(q)] # {} THEN PageAfter(q)
        ELSE walk[PageAfter(q)]
  IN  walk[p]

\* the last page the scanner pins on its way to the end of the file
LastPage == IF allocated = {} THEN 0 ELSE Max(allocated)

\* the pages it unpins from p on, once it has pinned q
Unpinned(p, q) == {r \in allocated : p <= r /\ r < q}

\* mutant: the slot after the record is not skipped
SlotAfter_Same(p, slot) == NextSetBit(slots[p], Capacity, slot)

\* RecordPageIterator::Next has looked for the slot after the one it returns
SlotAfter(p, slot) == NextSetBit(slots[p], Capacity, slot + 1)

At(s, p) == [s EXCEPT !.page = p, !.next = NextSetBit(slots[p], Capacity, 0),
                      !.ahead = SlotAfter(p, NextSetBit(slots[p], Capacity, 0))]
AtEnd(s) == [s EXCEPT !.page = LastPage, !.next = None, !.ahead = None]

\* FetchNextRecord, if it succeeds
Fetched(s) ==
  IF s.ahead # None
  THEN [s EXCEPT !.next = s.ahead, !.ahead = SlotAfter(s.page, s.ahead)]
  ELSE LET q == NextPage(s.page)
       IN  IF q = 0 THEN AtEnd(s) ELSE At(s, q)

FetchFails(s) == s.ahead = None /\ NextPage(s.page) = None

Records == {rid \in RecordId : rid[1] \in allocated /\ rid[2] \in slots[rid[1]]}

BeginScan(deletes) ==
  LET s == [NoScan EXCEPT !.running = TRUE, !.deletes = deletes, !.due = Records] IN
  /\ ~scan.running
  /\ ~FetchFails(s)
  /\ scan' = Fetched(s)
  /\ allocated' = allocated \ Disposals(Unpinned(0, scan'.page), held)
  /\ disposed' = disposed \ Disposals(Unpinned(0, scan'.page), held)
  /\ UNCHANGED <<pages, slots, held, freePages, rows, stray>>

\* the record a SELECT gets, or one a DELETE does not match
NextRecord ==
  /\ scan.running /\ scan.next # None
  /\ ~FetchFails(scan)
  /\ scan' = [Fetched(scan) EXCEPT !.due = @ \ {<<scan.page, scan.next>>}]
  /\ allocated' = allocated \ Disposals(Unpinned(scan.page, scan'.page), held)
  /\ disposed' = disposed \ Disposals(Unpinned(scan.page, scan'.page), held)
  /\ UNCHANGED <<pages, slots, held, freePages, rows, stray>>

\* mutant: a page is disposed when one record is left
Emptied_OneLeft(p, slot) == Cardinality(slots[p] \ {slot}) <= 1

Emptied(p, slot) == slots[p] \ {slot} = {}

(***************************************************************************)
(* The record matches and DELETE removes it, when the scanner is already   *)
(* one record ahead: RecordPageHandler::DeleteRecord unpins and disposes   *)
(* the page with its last record, and keeps its pin otherwise.             *)
(***************************************************************************)
DeleteRecord ==
  LET p == scan.page
      left == Disposals(Unpinned(p, scan'.page), held)
      waits == p \in held \cup {scan'.page}
      emptied == Emptied(p, scan.next)
  IN  /\ scan.running /\ scan.deletes /\ scan.next # None
      /\ ~FetchFails(scan)
      /\ scan' = [Fetched(scan) EXCEPT !.due = @ \ {<<p, scan.next>>}]
      /\ Gettable(p, held \cup {scan'.page})
      /\ slots' = [slots EXCEPT ![p] = @ \ {scan.next}]
      /\ allocated' = (allocated \ left) \ (IF emptied /\ ~waits THEN {p} ELSE {})
      /\ disposed' = (disposed \ left) \cup (IF emptied /\ waits THEN {p} ELSE {})
      /\ held' = IF emptied THEN held ELSE held \cup {p}
      /\ freePages' = freePages \cup {p}
      /\ rows' = rows \ {<<p, scan.next>>} /\ stray' = stray \ {<<p, scan.next>>}
      /\ UNCHANGED pages

\* the operators go without Destroy of the page handler: the last pin stays
EndScan ==
  /\ scan.running /\ scan.next = None
  /\ scan' = NoScan
  /\ held' = held \cup ({scan.page} \ {0})
  /\ UNCHANGED <<pages, allocated, disposed, slots, freePages, rows, stray>>

\* no frame for the next page, or none to get the page of the record again:
\* the statement ends where it is
ScanFails ==
  /\ scan.running /\ scan.next # None
  /\ scan' = NoScan
  /\ \/ /\ FetchFails(scan)
        /\ UNCHANGED <<allocated, disposed, held>>
     \/ /\ scan.deletes /\ ~FetchFails(scan)
        /\ LET q == Fetched(scan).page IN
             /\ ~Gettable(scan.page, held \cup {q})
             /\ held' = held \cup {q}
             /\ allocated' = allocated \ Disposals(Unpinned(scan.page, q), held)
             /\ disposed' = disposed \ Disposals(Unpinned(scan.page, q), held)
  /\ UNCHANGED <<pages, slots, freePages, rows, stray>>

-----------------------------------------------------------------------------
\* the server exits, which flushes all pages and forgets the pins, and
\* InitFreePages of the next one reads the file
Restart ==
  /\ ~scan.running
  /\ held' = {} /\ disposed' = {}
  /\ freePages' = {p \in allocated : ~Full(p)}
  /\ UNCHANGED <<pages, allocated, slots, scan, rows, stray>>

Next ==
  \/ \E E \in SUBSET Page, p \in Page : InsertIntoFreePage(p, E) \/ TakenBackFromFreePage(p, E)
  \/ \E E \in SUBSET Page : InsertFindsNoFrame(E)
  \/ \E p \in Page : InsertIntoNewPage(p) \/ TakenBackFromNewPage(p)
  \/ InsertFindsNoPage
  \/ \E deletes \in BOOLEAN : BeginScan(deletes)
  \/ NextRecord
  \/ DeleteRecord
  \/ EndScan
  \/ ScanFails
  \/ Restart

Spec == Init /\ [][Next]_vars

-----------------------------------------------------------------------------
(* Properties *)

(***************************************************************************)
(* Types; a page beyond the file has no bit.                               *)
(***************************************************************************)
TypeOK ==
  /\ pages \in 1 .. MaxPages
  /\ allocated \subseteq 1 .. pages - 1
  /\ disposed \subseteq Page /\ held \subseteq Page /\ freePages \subseteq Page
  /\ slots \in [Page -> SUBSET Slot]
  /\ scan \in Scan
  /\ rows \subseteq RecordId /\ stray \subseteq rows

(***************************************************************************)
(* At every moment the records a scan would find are the rows that were    *)
(* inserted and not deleted, at the ids they got: no page is disposed or   *)
(* formatted under a record, and no deleted one comes back.  Only rows     *)
(* put into a page the file's bitmap does not have may be missing.  A page *)
(* in disposed_pages_ may get new records, or have its bit clear, after an *)
(* INSERT that was taken back: then a handler that is gone pins it and its *)
(* disposal is never carried out.  One that only the scanner pins has its  *)
(* bit and no record when the scanner lets it go.                          *)
(***************************************************************************)
RowsKept ==
  /\ Records \subseteq rows
  /\ rows \ stray \subseteq Records
  /\ disposed \subseteq Pinned
  /\ \A p \in disposed \ held : p \in allocated /\ slots[p] = {}

(***************************************************************************)
(* A scan returns each record it started with exactly once, although the   *)
(* DELETE that pulls from it clears slots and disposes pages: what it has  *)
(* fetched ahead is still there and not returned yet, and when it reports  *)
(* the end nothing is left out.                                            *)
(***************************************************************************)
ScanComplete ==
  scan.running =>
    /\ scan.next # None => <<scan.page, scan.next>> \in scan.due
    /\ scan.next = None => scan.due = {}
    /\ scan.due \subseteq Records
=============================================================================
