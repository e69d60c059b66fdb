----------------------------- MODULE BufferPool -----------------------------
(***************************************************************************)
(* The page cache of storage/buffer_pool.{h,cpp}: one FrameManager (a      *)
(* bounded pool of frames behind an LRU cache) shared by the               *)
(* DiskBufferPools of all open files, each with its header page resident   *)
(* in a pinned frame.  The server is one thread, so every member function  *)
(* is one atomic action; what interleaves are the calls of the clients     *)
(* (record handlers, scanners, B+ trees) that hold pages pinned between    *)
(* calls.                                                                  *)
(***************************************************************************)
EXTENDS Integers, FiniteSets, LruOrder

CONSTANTS
  File,       \* names of the on-disk files
  Fd,         \* file descriptors open() may return
  NumFrames,  \* frames FrameManager::Init allocates (MEM_POOL_ITEM_NUM pools)
  MaxPages,   \* BufferPoolFileHeader::max_page_num
  Value,      \* what clients write into pages
  Zero,       \* the contents of a page after Frame::ResetPage
  Absent,     \* a page beyond the end of its file
  NoFile,     \* the file of a descriptor that is not open
  MaxPins     \* bound of the model: pins the clients hold on one page

ASSUME NumFramesAssumption == NumFrames \in Nat \ {0}
ASSUME MaxPagesAssumption == MaxPages \in Nat \ {0}
ASSUME FdAssumption == IsFiniteSet(Fd)
ASSUME NoFileAssumption == NoFile \notin File

PageId == 0 .. MaxPages - 1
FrameId == Fd \X PageId
HeaderPage == 0                                  \* BP_HEADER_PAGE
Data == Value \cup {Zero}
Header == [pages : 1 .. MaxPages, allocated : Nat, bitmap : SUBSET PageId]
Content == Header \cup Data
\* left is a history field: the file the frame belonged to was closed, and the
\* frame was neither evicted nor flushed since
Frame == [data : Content, dirty : BOOLEAN, pin : Nat, left : BOOLEAN]

ASSUME AbsentAssumption == Absent \notin Content
ASSUME HeaderIsNotData == Header \cap Data = {}

VARIABLES
  file,      \* fd_buffer_pools_ and buffer_pools_: the file open under a descriptor
  frames,    \* the frames in the LRU cache, by FrameId
  recency,   \* LRU order: <<a, b>> when a was used more recently than b
  disposed,  \* disposed_pages_ of the pool of each descriptor
  disk,      \* the files
  held       \* pins the clients have taken and not returned

vars == <<file, frames, recency, disposed, disk, held>>

IsOpen(fd) == file[fd] # NoFile
Cached == DOMAIN frames
HeaderFrame(fd) == <<fd, HeaderPage>>
\* file_header_: the header is read and written in its resident frame
FileHeader(fd) == frames[HeaderFrame(fd)].data
\* the header the first page of a new file holds
EmptyHeader == [pages |-> 1, allocated |-> 1, bitmap |-> {HeaderPage}]
NewFrame(data, pin) == [data |-> data, dirty |-> FALSE, pin |-> pin, left |-> FALSE]

TypeOK ==
  /\ file \in [Fd -> File \cup {NoFile}]
  /\ frames \in [Cached -> Frame]
  /\ Cached \subseteq FrameId
  /\ recency \subseteq FrameId \X FrameId
  /\ disposed \in [Fd -> SUBSET PageId]
  /\ disk \in [File -> [PageId -> Content \cup {Absent}]]
  /\ held \in [FrameId -> Nat]

Init ==
  /\ file = [fd \in Fd |-> NoFile]
  /\ frames = [k \in {} |-> NewFrame(Zero, 0)]
  /\ recency = {}
  /\ disposed = [fd \in Fd |-> {}]
  /\ disk = [f \in File |-> [p \in PageId |-> Absent]]
  /\ held = [k \in FrameId |-> 0]

-----------------------------------------------------------------------------
Younger(a, b) == <<a, b>> \in recency

(***************************************************************************)
(* The pages of the files after the frames S were written back: FlushPage  *)
(* writes a frame to the file its descriptor is open on.                   *)
(***************************************************************************)
Backs(k, f, p) == file[k[1]] = f /\ k[2] = p
Flushed(S) ==
  [f \in File |-> [p \in PageId |->
     IF \E k \in S : Backs(k, f, p)
     THEN frames[CHOOSE k \in S : Backs(k, f, p)].data
     ELSE disk[f][p]]]

\* mutant: a dirty victim is not written back
Dirty_None(S) == {}
Dirty(S) == {k \in S : frames[k].dirty}

(***************************************************************************)
(* AllocateFrame(k): until FrameManager::Alloc finds no frame with the key *)
(* k and a free frame in the pool, free the least recently used unpinned   *)
(* frame, writing it back first when it is dirty.  The look-up touches k   *)
(* when k is cached, so k is the last of the victims then.  A dirty frame  *)
(* whose descriptor no pool is registered for cannot be written back and   *)
(* stops the loop with an error, even if clean frames are left.            *)
(***************************************************************************)
Unpinned == {k \in Cached : frames[k].pin = 0}
Stranded(k) == frames[k].dirty /\ ~IsOpen(k[1])

Full(k, E) == k \in Cached \ E \/ Cardinality(Cached \ E) >= NumFrames

OldestFirst(k, E) ==
  /\ E \subseteq Unpinned
  /\ \A a \in E, b \in Unpinned \ E : b = k \/ (a # k /\ Younger(b, a))

\* E is the set of frames the loop has freed when it stops
Evicts(k, E) ==
  /\ OldestFirst(k, E)
  /\ \A v \in E : ~Stranded(v)
  /\ \A D \in SUBSET E : D # E /\ OldestFirst(k, D) => Full(k, D)

Granted(k, E) == Evicts(k, E) /\ ~Full(k, E)

Refused(k, E) ==
  /\ Evicts(k, E)
  /\ Full(k, E)
  /\ \/ E = Unpinned
     \/ \E v \in Unpinned \ E : Stranded(v) /\ OldestFirst(k, E \cup {v})

\* the cache once E is freed and the granted frame is in use for page k
Installed(k, E, frame) ==
  [j \in (Cached \ E) \cup {k} |-> IF j = k THEN frame ELSE frames[j]]

GrantedOrder(k, E) == Touch(Without(recency, E), k, Cached \ E)

\* what a refused AllocateFrame leaves behind: its evictions, and k touched
Remaining(E) == [j \in Cached \ E |-> frames[j]]
RefusedOrder(k, E) ==
  IF k \in Cached THEN Touch(Without(recency, E), k, Cached \ E)
                  ELSE Without(recency, E)

-----------------------------------------------------------------------------
(* Files. *)

\* GlobalBufferPoolManager::CreateFile
CreateFile(f) ==
  /\ \A p \in PageId : disk[f][p] = Absent
  /\ disk' = [disk EXCEPT ![f][HeaderPage] = EmptyHeader]
  /\ UNCHANGED <<file, frames, recency, disposed, held>>

\* f is not open yet and open() returns fd, also one that a file was closed
\* under whose frames are still in the cache
Opens(f, fd) ==
  /\ ~IsOpen(fd)
  /\ \A g \in Fd : file[g] # f
  /\ disk[f][HeaderPage] # Absent

OpenFile(f, fd) ==
  LET k == HeaderFrame(fd) IN
  /\ Opens(f, fd)
  /\ \E E \in SUBSET Unpinned :
       /\ Granted(k, E)
       /\ disk' = Flushed(Dirty(E))
       /\ frames' = Installed(k, E, NewFrame(disk[f][HeaderPage], 1))
       /\ recency' = GrantedOrder(k, E)
  /\ file' = [file EXCEPT ![fd] = f]
  /\ UNCHANGED <<disposed, held>>

\* AllocateFrame(BP_HEADER_PAGE) fails, the descriptor is closed again
OpenFileFails(f, fd) ==
  LET k == HeaderFrame(fd) IN
  /\ Opens(f, fd)
  /\ \E E \in SUBSET Unpinned :
       /\ Refused(k, E)
       /\ disk' = Flushed(Dirty(E))
       /\ frames' = Remaining(E)
       /\ recency' = RefusedOrder(k, E)
  /\ UNCHANGED <<file, disposed, held>>

(***************************************************************************)
(* CloseFile gives up the pool's own pin on the header frame and purges    *)
(* that frame; the other frames of the descriptor stay in the cache, for   *)
(* whatever file is opened under its number next.                          *)
(***************************************************************************)
LeftBehind(fd) ==
  [j \in Cached \ {HeaderFrame(fd)} |->
     [frames[j] EXCEPT !.left = @ \/ j[1] = fd]]

CloseFile(fd) ==
  LET k == HeaderFrame(fd) IN
  /\ IsOpen(fd)
  /\ frames[k].pin = 1
  /\ disk' = Flushed(Dirty({k}))
  /\ frames' = LeftBehind(fd)
  /\ recency' = Without(recency, {k})
  /\ disposed' = [disposed EXCEPT ![fd] = {}]
  /\ file' = [file EXCEPT ![fd] = NoFile]
  /\ UNCHANGED held

\* BplusTreeHandler::Close deletes the file it has closed
RemoveFile(f) ==
  /\ \A fd \in Fd : file[fd] # f
  /\ disk[f][HeaderPage] # Absent
  /\ disk' = [disk EXCEPT ![f] = [p \in PageId |-> Absent]]
  /\ UNCHANGED <<file, frames, recency, disposed, held>>

\* a frame after FlushPage
Synced(frame) == [frame EXCEPT !.dirty = FALSE, !.left = FALSE]

\* FlushAllPages: every frame of the descriptor, dirty or not
FlushAllPages(fd) ==
  LET S == {k \in Cached : k[1] = fd} IN
  /\ IsOpen(fd)
  /\ disk' = Flushed(S)
  /\ frames' = [k \in Cached |->
       IF k \in S THEN Synced(frames[k]) ELSE frames[k]]
  /\ UNCHANGED <<file, recency, disposed, held>>

-----------------------------------------------------------------------------
(* Pages: what the clients call. *)

\* mutant: a hit does not pin
GetPageHit_NoPin(fd, p) ==
  LET k == <<fd, p>> IN
  /\ IsOpen(fd) /\ k \in Cached
  /\ held[k] < MaxPins
  /\ recency' = Touch(recency, k, Cached)
  /\ held' = [held EXCEPT ![k] = @ + 1]
  /\ UNCHANGED <<file, frames, disposed, disk>>

GetPageHit(fd, p) ==
  LET k == <<fd, p>> IN
  /\ IsOpen(fd) /\ k \in Cached
  /\ held[k] < MaxPins
  /\ frames' = [frames EXCEPT ![k].pin = @ + 1]
  /\ recency' = Touch(recency, k, Cached)
  /\ held' = [held EXCEPT ![k] = @ + 1]
  /\ UNCHANGED <<file, disposed, disk>>

GetPageMiss(fd, p) ==
  LET k == <<fd, p>> IN
  /\ IsOpen(fd) /\ k \notin Cached
  /\ disk[file[fd]][p] # Absent
  /\ \E E \in SUBSET Unpinned :
       /\ Granted(k, E)
       /\ disk' = Flushed(Dirty(E))
       /\ frames' = Installed(k, E, NewFrame(disk[file[fd]][p], 1))
       /\ recency' = GrantedOrder(k, E)
  /\ held' = [held EXCEPT ![k] = @ + 1]
  /\ UNCHANGED <<file, disposed>>

\* no frame is granted, or LoadPage reads past the end of the file and the
\* granted frame is freed again
GetPageFails(fd, p) ==
  LET k == <<fd, p>> IN
  /\ IsOpen(fd) /\ k \notin Cached
  /\ \E E \in SUBSET Unpinned :
       /\ \/ Refused(k, E)
          \/ Granted(k, E) /\ disk[file[fd]][p] = Absent
       /\ disk' = Flushed(Dirty(E))
       /\ frames' = Remaining(E)
       /\ recency' = Without(recency, E)
  /\ UNCHANGED <<file, disposed, held>>

\* the header frame after page p is marked allocated in it
Marked(fd, p, pages) ==
  [frames[HeaderFrame(fd)] EXCEPT
     !.dirty = TRUE,
     !.data = [pages |-> pages, allocated |-> @.allocated + 1,
               bitmap |-> @.bitmap \cup {p}]]

\* AllocatePage hands out a page of the file whose bit is clear
Reusable(fd, p) ==
  LET h == FileHeader(fd) IN
  /\ h.allocated < h.pages
  /\ p \in 0 .. h.pages - 1 /\ p \notin h.bitmap
  /\ \A q \in 0 .. h.pages - 1 : q \notin h.bitmap => p <= q

\* the bit is set before the page is fetched
AllocatePageReusesHit(fd, p) ==
  LET k == <<fd, p>> IN
  /\ IsOpen(fd) /\ Reusable(fd, p) /\ k \in Cached
  /\ held[k] < MaxPins
  /\ frames' = [frames EXCEPT ![HeaderFrame(fd)] = Marked(fd, p, FileHeader(fd).pages),
                              ![k].pin = @ + 1]
  /\ recency' = Touch(recency, k, Cached)
  /\ held' = [held EXCEPT ![k] = @ + 1]
  /\ UNCHANGED <<file, disposed, disk>>

AllocatePageReusesMiss(fd, p) ==
  LET k == <<fd, p>> IN
  /\ IsOpen(fd) /\ Reusable(fd, p) /\ k \notin Cached
  /\ \E E \in SUBSET Unpinned :
       /\ Granted(k, E)
       /\ disk' = Flushed(Dirty(E))
       /\ frames' = [Installed(k, E, NewFrame(disk[file[fd]][p], 1)) EXCEPT
                       ![HeaderFrame(fd)] = Marked(fd, p, FileHeader(fd).pages)]
       /\ recency' = GrantedOrder(k, E)
  /\ held' = [held EXCEPT ![k] = @ + 1]
  /\ UNCHANGED <<file, disposed>>

\* GetPage fails after the bit was set: nobody holds the page, it stays allocated
AllocatePageReusesFails(fd, p) ==
  LET k == <<fd, p>> IN
  /\ IsOpen(fd) /\ Reusable(fd, p) /\ k \notin Cached
  /\ \E E \in SUBSET Unpinned :
       /\ Refused(k, E)
       /\ disk' = Flushed(Dirty(E))
       /\ frames' = [Remaining(E) EXCEPT
                       ![HeaderFrame(fd)] = Marked(fd, p, FileHeader(fd).pages)]
       /\ recency' = Without(recency, E)
  /\ UNCHANGED <<file, disposed, held>>

\* AllocatePage grows the file: the new page is the one after the last
Extendable(fd) ==
  LET h == FileHeader(fd) IN
  /\ h.allocated >= h.pages \/ 0 .. h.pages - 1 \subseteq h.bitmap
  /\ h.pages < MaxPages

\* mutant: the new page is not flushed
AllocatePageExtends_NoFlush(fd) ==
  LET p == FileHeader(fd).pages
      k == <<fd, p>> IN
  /\ IsOpen(fd) /\ Extendable(fd)
  /\ \E E \in SUBSET Unpinned :
       /\ Granted(k, E)
       /\ disk' = Flushed(Dirty(E))
       /\ frames' = [Installed(k, E, NewFrame(Zero, 1)) EXCEPT
                       ![HeaderFrame(fd)] = Marked(fd, p, p + 1)]
       /\ recency' = GrantedOrder(k, E)
  /\ held' = [held EXCEPT ![k] = @ + 1]
  /\ UNCHANGED <<file, disposed>>

AllocatePageExtends(fd) ==
  LET p == FileHeader(fd).pages
      k == <<fd, p>> IN
  /\ IsOpen(fd) /\ Extendable(fd)
  /\ \E E \in SUBSET Unpinned :
       /\ Granted(k, E)
       \* ResetPage, then FlushPage extends the file
       /\ disk' = [Flushed(Dirty(E)) EXCEPT ![file[fd]][p] = Zero]
       /\ frames' = [Installed(k, E, NewFrame(Zero, 1)) EXCEPT
                       ![HeaderFrame(fd)] = Marked(fd, p, p + 1)]
       /\ recency' = GrantedOrder(k, E)
  /\ held' = [held EXCEPT ![k] = @ + 1]
  /\ UNCHANGED <<file, disposed>>

\* AllocateFrame fails before the header is touched
AllocatePageExtendFails(fd) ==
  LET k == <<fd, FileHeader(fd).pages>> IN
  /\ IsOpen(fd) /\ Extendable(fd)
  /\ \E E \in SUBSET Unpinned :
       /\ Refused(k, E)
       /\ disk' = Flushed(Dirty(E))
       /\ frames' = Remaining(E)
       /\ recency' = RefusedOrder(k, E)
  /\ UNCHANGED <<file, disposed, held>>

\* mutant: the change is not marked
WritePage_NoDirtyMark(fd, p, v) ==
  LET k == <<fd, p>> IN
  /\ IsOpen(fd) /\ held[k] > 0
  /\ frames' = [frames EXCEPT ![k].data = v]
  /\ UNCHANGED <<file, recency, disposed, disk, held>>

(***************************************************************************)
(* The caller changes a page it holds and marks the frame dirty.           *)
(***************************************************************************)
WritePage(fd, p, v) ==
  LET k == <<fd, p>> IN
  /\ IsOpen(fd) /\ held[k] > 0
  /\ frames' = [frames EXCEPT ![k].data = v, ![k].dirty = TRUE]
  /\ UNCHANGED <<file, recency, disposed, disk, held>>

\* RecordPageHandler::InitEmptyPage: the page is formatted and flushed at once
FormatPage(fd, p, v) ==
  LET k == <<fd, p>> IN
  /\ IsOpen(fd) /\ held[k] > 0
  /\ frames' = [frames EXCEPT ![k] = Synced([@ EXCEPT !.data = v])]
  /\ disk' = [disk EXCEPT ![file[fd]][p] = v]
  /\ UNCHANGED <<file, recency, disposed, held>>

\* mutant: the count of allocated pages is not adjusted
Cleared_NoCount(fd, p) ==
  [frames[HeaderFrame(fd)] EXCEPT
     !.dirty = TRUE,
     !.data = [pages |-> @.pages, allocated |-> @.allocated,
               bitmap |-> @.bitmap \ {p}]]

\* the header frame after the bit of page p is cleared in it
Cleared(fd, p) ==
  [frames[HeaderFrame(fd)] EXCEPT
     !.dirty = TRUE,
     !.data = [pages |-> @.pages, allocated |-> @.allocated - 1,
               bitmap |-> @.bitmap \ {p}]]

\* DisposePage when PurgePage succeeds: the page leaves the cache and the bitmap
Purged(fd, p) ==
  LET k == <<fd, p>> IN
  /\ disk' = Flushed(Dirty({k} \cap Cached))
  /\ frames' = [Remaining({k}) EXCEPT ![HeaderFrame(fd)] = Cleared(fd, p)]
  /\ recency' = Without(recency, {k})

DisposePage(fd, p) ==
  LET k == <<fd, p>> IN
  /\ IsOpen(fd)
  /\ k \in Cached => frames[k].pin = 0
  /\ Purged(fd, p)
  /\ UNCHANGED <<file, disposed, held>>

\* PurgePage finds the page pinned (and has touched it): dispose it later
DisposePageLater(fd, p) ==
  LET k == <<fd, p>> IN
  /\ IsOpen(fd)
  /\ k \in Cached /\ frames[k].pin > 0
  /\ recency' = Touch(recency, k, Cached)
  /\ disposed' = [disposed EXCEPT ![fd] = @ \cup {p}]
  /\ UNCHANGED <<file, frames, disk, held>>

\* mutant: without the assertion that the page is pinned
UnpinPage_Unchecked(fd, p) ==
  LET k == <<fd, p>> IN
  /\ IsOpen(fd) /\ k \in Cached
  /\ p \notin disposed[fd]
  /\ frames' = [frames EXCEPT ![k].pin = @ - 1]
  /\ held' = [held EXCEPT ![k] = @ - 1]
  /\ UNCHANGED <<file, recency, disposed, disk>>

UnpinPage(fd, p) ==
  LET k == <<fd, p>> IN
  /\ IsOpen(fd) /\ held[k] > 0
  /\ frames[k].pin > 1 \/ p \notin disposed[fd]
  /\ frames' = [frames EXCEPT ![k].pin = @ - 1]
  /\ held' = [held EXCEPT ![k] = @ - 1]
  /\ UNCHANGED <<file, recency, disposed, disk>>

\* mutant: the page is not taken out of disposed_pages_
UnpinPageDisposes_NoErase(fd, p) ==
  LET k == <<fd, p>> IN
  /\ IsOpen(fd) /\ held[k] > 0
  /\ frames[k].pin = 1 /\ p \in disposed[fd]
  /\ Purged(fd, p)
  /\ held' = [held EXCEPT ![k] = @ - 1]
  /\ UNCHANGED <<file, disposed>>

\* the last pin of a page in disposed_pages_ is returned: DisposePage now
UnpinPageDisposes(fd, p) ==
  LET k == <<fd, p>> IN
  /\ IsOpen(fd) /\ held[k] > 0
  /\ frames[k].pin = 1 /\ p \in disposed[fd]
  /\ Purged(fd, p)
  /\ disposed' = [disposed EXCEPT ![fd] = @ \ {p}]
  /\ held' = [held EXCEPT ![k] = @ - 1]
  /\ UNCHANGED file

-----------------------------------------------------------------------------
(* The process. *)

\* the state of a process that has just started
Restarted ==
  /\ file' = [fd \in Fd |-> NoFile]
  /\ frames' = [k \in {} |-> NewFrame(Zero, 0)]
  /\ recency' = {}
  /\ disposed' = [fd \in Fd |-> {}]
  /\ held' = [k \in FrameId |-> 0]

\* GlobalBufferPoolManager::Destroy (FlushAllPages of every open file), exit, restart
Shutdown ==
  /\ Cached # {}
  /\ disk' = Flushed({k \in Cached : IsOpen(k[1])})
  /\ Restarted

\* the process dies between two operations
Crash ==
  /\ Cached # {}
  /\ UNCHANGED disk
  /\ Restarted

-----------------------------------------------------------------------------
(***************************************************************************)
(* Clients that fetch and dispose only pages whose bit is set, as the      *)
(* comment in CheckPageId asks for, never close a file while the server    *)
(* runs, and a process that always exits through Shutdown.                 *)
(***************************************************************************)
OpNext ==
  \/ \E f \in File : CreateFile(f) \/ \E fd \in Fd : OpenFile(f, fd) \/ OpenFileFails(f, fd)
  \/ \E fd \in Fd :
       \/ FlushAllPages(fd)
       \/ AllocatePageExtends(fd)
       \/ AllocatePageExtendFails(fd)
  \/ \E fd \in Fd, p \in PageId \ {HeaderPage} :
       \/ /\ IsOpen(fd) /\ p \in FileHeader(fd).bitmap
          /\ \/ GetPageHit(fd, p) \/ GetPageMiss(fd, p) \/ GetPageFails(fd, p)
             \/ DisposePage(fd, p) \/ DisposePageLater(fd, p)
       \/ AllocatePageReusesHit(fd, p)
       \/ AllocatePageReusesMiss(fd, p)
       \/ AllocatePageReusesFails(fd, p)
       \/ \E v \in Value : WritePage(fd, p, v) \/ FormatPage(fd, p, v)
       \/ UnpinPage(fd, p)
       \/ UnpinPageDisposes(fd, p)
  \/ Shutdown

OpSpec == Init /\ [][OpNext]_vars

(***************************************************************************)
(* The same with files closed at any time and deleted, as the B+ tree does *)
(* when CREATE INDEX fails, crashes, and clients that fetch a page of any  *)
(* number, which GetPage does not check.  One call of the code is missing: *)
(* an INSERT that is rolled back may dispose a page whose bit is clear and *)
(* which is pinned (RecordFile, TakenBackFromFreePage); that page keeps    *)
(* pins that nobody returns, so that the disposal is never carried out.    *)
(***************************************************************************)
Next ==
  \/ OpNext
  \/ \E fd \in Fd : CloseFile(fd)
  \/ \E f \in File : RemoveFile(f)
  \/ \E fd \in Fd, p \in PageId \ {HeaderPage} :
       \/ GetPageHit(fd, p)
       \/ GetPageMiss(fd, p)
       \/ GetPageFails(fd, p)
  \/ Crash

Spec == Init /\ [][Next]_vars
-----------------------------------------------------------------------------
(* Safety. *)

(***************************************************************************)
(* Pins are conserved: the pin count of a frame is the number of pins      *)
(* clients took with GetPage and AllocatePage and have not returned with   *)
(* UnpinPage, plus the pool's own pin on the header frame of an open file; *)
(* a page somebody holds is in the cache, whatever was evicted since.      *)
(***************************************************************************)
OwnPin(k) == IF k[2] = HeaderPage /\ IsOpen(k[1]) THEN 1 ELSE 0
PinAccounting ==
  \A k \in FrameId :
    IF k \in Cached THEN frames[k].pin = held[k] + OwnPin(k)
                    ELSE held[k] = 0 /\ OwnPin(k) = 0

(***************************************************************************)
(* The allocation map adds up, in the resident header and in the header on *)
(* disk at any moment, so also after a crash: allocated_pages_num counts   *)
(* the set bits, none of them beyond pages_num, and the header page is     *)
(* never free for AllocatePage.                                            *)
(***************************************************************************)
HeaderOK(h) ==
  /\ h \in Header
  /\ HeaderPage \in h.bitmap
  /\ h.bitmap \subseteq 0 .. h.pages - 1
  /\ h.allocated = Cardinality(h.bitmap)
HeadersSound ==
  /\ \A fd \in Fd : IsOpen(fd) => HeaderOK(FileHeader(fd))
  /\ \A f \in File : disk[f][HeaderPage] # Absent => HeaderOK(disk[f][HeaderPage])

(***************************************************************************)
(* Write order: every page the header of a file counts exists in the file, *)
(* in the resident header and in the one on disk, so that no crash leaves  *)
(* an allocated page LoadPage cannot read.                                 *)
(***************************************************************************)
AllExist(h, f) == \A p \in 0 .. h.pages - 1 : disk[f][p] # Absent
CountedPagesExist ==
  /\ \A fd \in Fd : IsOpen(fd) => AllExist(FileHeader(fd), file[fd])
  /\ \A f \in File : disk[f][HeaderPage] # Absent => AllExist(disk[f][HeaderPage], f)

(***************************************************************************)
(* No lost update: a frame that is not dirty holds exactly what its page   *)
(* has on disk, so evicting it without a write loses nothing.  The only    *)
(* frames that may differ from the file open under their descriptor are    *)
(* those a file closed earlier under the same number has left behind.      *)
(***************************************************************************)
CleanFramesMatchDisk ==
  \A k \in Cached :
    IsOpen(k[1]) /\ ~frames[k].dirty /\ ~frames[k].left
      => frames[k].data = disk[file[k[1]]][k[2]]

(***************************************************************************)
(* A deferred disposal is never forgotten while the file is open: a page   *)
(* in disposed_pages_ is still allocated and some client still has a pin   *)
(* on it, whose return will dispose it.                                    *)
(***************************************************************************)
DisposalPending ==
  \A fd \in Fd : \A p \in disposed[fd] :
    /\ IsOpen(fd)
    /\ p \in FileHeader(fd).bitmap \ {HeaderPage}
    /\ held[<<fd, p>>] > 0

(***************************************************************************)
(* The cache never uses more frames than the pool has, and the LRU list    *)
(* orders exactly the cached frames: GetPurgeableFrame, which walks that   *)
(* list, overlooks no frame.                                               *)
(***************************************************************************)
PoolBounded ==
  /\ IsFiniteSet(Cached)
  /\ Cardinality(Cached) <= NumFrames
  /\ IsLruOrder(recency, Cached)
=============================================================================
