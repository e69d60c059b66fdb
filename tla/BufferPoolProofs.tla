-------------------------- MODULE BufferPoolProofs --------------------------
(***************************************************************************)
(* Safety of the buffer pool, proved for every number of files,            *)
(* descriptors, frames and pages; in the second half, that it implements   *)
(* the page store.                                                         *)
(***************************************************************************)
EXTENDS BufferPoolRefinement, FiniteSetTheorems, TLAPS

\* evicting keys from an order of use, and using a key, leave an order of the
\* keys that remain
LEMMA WithoutOrder ==
  ASSUME NEW order, NEW C, NEW S, IsLruOrder(order, C)
  PROVE  IsLruOrder(Without(order, S), C \ S)
BY SMT DEF IsLruOrder, Without

LEMMA TouchOrder ==
  ASSUME NEW order, NEW C, NEW k, IsLruOrder(order, C)
  PROVE  IsLruOrder(Touch(order, k, C), C \cup {k})
BY SMT DEF IsLruOrder, Without, Touch

\* OpenFile refuses a file that is in buffer_pools_
OneFdPerFile ==
  \A a, b \in Fd : IsOpen(a) /\ file[a] = file[b] => a = b

-----------------------------------------------------------------------------
(* The pool and its LRU order. *)

\* what evicting E and granting or refusing a frame for k does to the pool
LEMMA GrantedPool ==
  ASSUME PoolBounded, NEW k, NEW E, Granted(k, E)
  PROVE  LET C == (Cached \ E) \cup {k}
         IN  /\ IsFiniteSet(C)
             /\ Cardinality(C) <= NumFrames
             /\ IsLruOrder(GrantedOrder(k, E), C)
<1> DEFINE R == Cached \ E
<1>1. IsFiniteSet(R) /\ Cardinality(R) \in Nat
  BY FS_Subset, FS_CardinalityType DEF PoolBounded
<1>2. k \notin R /\ Cardinality(R) < NumFrames
  BY <1>1, NumFramesAssumption DEF Granted, Full
<1>3. IsFiniteSet(R \cup {k}) /\ Cardinality(R \cup {k}) = Cardinality(R) + 1
  BY <1>1, <1>2, FS_AddElement
<1>4. IsLruOrder(Touch(Without(recency, E), k, R), R \cup {k})
  BY WithoutOrder, TouchOrder DEF PoolBounded
<1> QED
  BY <1>1, <1>2, <1>3, <1>4, NumFramesAssumption DEF GrantedOrder

LEMMA SmallerPool ==
  ASSUME PoolBounded, NEW E
  PROVE  /\ IsFiniteSet(Cached \ E)
         /\ Cardinality(Cached \ E) <= NumFrames
         /\ IsLruOrder(Without(recency, E), Cached \ E)
<1>1. /\ IsFiniteSet(Cached \ E)
      /\ Cardinality(Cached \ E) \in Nat /\ Cardinality(Cached) \in Nat
      /\ Cardinality(Cached \ E) <= Cardinality(Cached)
  BY FS_Subset, FS_CardinalityType DEF PoolBounded
<1> QED
  BY <1>1, WithoutOrder, NumFramesAssumption DEF PoolBounded

\* the frame an allocation asks for is not freed by its own refused attempt
LEMMA RefusedKeepsKey ==
  ASSUME PoolBounded, NEW k, NEW E, Refused(k, E), k \in Cached
  PROVE  k \notin E
<1> SUFFICES ASSUME k \in E PROVE FALSE
  OBVIOUS
<1>1. E \subseteq Cached /\ Full(k, E)
  BY DEF Refused, Evicts, OldestFirst, Unpinned
<1>2. IsFiniteSet(Cached \ {k}) /\ Cardinality(Cached \ {k}) = Cardinality(Cached) - 1
  BY FS_RemoveElement DEF PoolBounded
<1>3. Cardinality(Cached \ E) <= Cardinality(Cached \ {k})
  BY <1>2, FS_Subset, Cached \ E \subseteq Cached \ {k}
<1>4. /\ Cardinality(Cached) \in Nat /\ Cardinality(Cached \ E) \in Nat
      /\ Cardinality(Cached \ {k}) \in Nat
  BY <1>2, SmallerPool, FS_CardinalityType DEF PoolBounded
<1> QED
  BY <1>1, <1>2, <1>3, <1>4, NumFramesAssumption DEF Full, PoolBounded

LEMMA RefusedPool ==
  ASSUME PoolBounded, NEW k, NEW E, Refused(k, E)
  PROVE  IsLruOrder(RefusedOrder(k, E), Cached \ E)
<1>1. CASE k \in Cached
  <2>1. (Cached \ E) \cup {k} = Cached \ E
    BY <1>1, RefusedKeepsKey
  <2> QED
    BY <1>1, <2>1, WithoutOrder, TouchOrder DEF PoolBounded, RefusedOrder
<1>2. CASE k \notin Cached
  BY <1>2, SmallerPool DEF RefusedOrder
<1> QED
  BY <1>1, <1>2

\* purging one page, or none when it is not cached
LEMMA PurgedPool ==
  ASSUME PoolBounded, NEW fd, NEW p, Purged(fd, p)
  PROVE  PoolBounded'
<1>1. Cached' = Cached \ {<<fd, p>>}
  BY DEF Purged, Remaining, Cached
<1> QED
  BY <1>1, SmallerPool DEF Purged, PoolBounded

LEMMA RestartedPool == Restarted => PoolBounded'
<1> SUFFICES ASSUME Restarted PROVE PoolBounded'
  OBVIOUS
<1>1. Cached' = {} /\ recency' = {}
  BY DEF Restarted, Cached
<1>2. IsLruOrder({}, {})
  BY DEF IsLruOrder
<1> QED
  BY <1>1, <1>2, FS_EmptySet, NumFramesAssumption DEF PoolBounded

LEMMA PoolBoundedStep ==
  ASSUME PoolBounded, [Next]_vars
  PROVE  PoolBounded'
<1> USE DEF PoolBounded
<1>1. CASE UNCHANGED vars
  BY <1>1 DEF vars, Cached
<1>2. ASSUME NEW f \in File, CreateFile(f) PROVE PoolBounded'
  BY <1>2 DEF CreateFile, Cached
<1>3. ASSUME NEW f \in File, NEW fd \in Fd, OpenFile(f, fd) PROVE PoolBounded'
  <2>1. PICK E : /\ Granted(HeaderFrame(fd), E)
                 /\ frames' = Installed(HeaderFrame(fd), E, NewFrame(disk[f][HeaderPage], 1))
                 /\ recency' = GrantedOrder(HeaderFrame(fd), E)
    BY <1>3 DEF OpenFile
  <2>2. Cached' = (Cached \ E) \cup {HeaderFrame(fd)}
    BY <2>1 DEF Installed, Cached
  <2> QED
    BY <2>1, <2>2, GrantedPool
<1>4. ASSUME NEW f \in File, NEW fd \in Fd, OpenFileFails(f, fd) PROVE PoolBounded'
  <2>1. PICK E : /\ Refused(HeaderFrame(fd), E)
                 /\ frames' = Remaining(E)
                 /\ recency' = RefusedOrder(HeaderFrame(fd), E)
    BY <1>4 DEF OpenFileFails
  <2>2. Cached' = Cached \ E
    BY <2>1 DEF Remaining, Cached
  <2> QED
    BY <2>1, <2>2, RefusedPool, SmallerPool
<1>5. ASSUME NEW fd \in Fd, FlushAllPages(fd) PROVE PoolBounded'
  BY <1>5 DEF FlushAllPages, Cached
<1>6. ASSUME NEW fd \in Fd, AllocatePageExtends(fd) PROVE PoolBounded'
  <2> DEFINE k == <<fd, FileHeader(fd).pages>>
  <2>1. PICK E : /\ Granted(k, E)
                 /\ Cached' = (Cached \ E) \cup {k}
                 /\ recency' = GrantedOrder(k, E)
    BY <1>6 DEF AllocatePageExtends, Installed, Cached
  <2> QED
    BY <2>1, GrantedPool
<1>7. ASSUME NEW fd \in Fd, AllocatePageExtendFails(fd) PROVE PoolBounded'
  <2> DEFINE k == <<fd, FileHeader(fd).pages>>
  <2>1. PICK E : /\ Refused(k, E)
                 /\ Cached' = Cached \ E
                 /\ recency' = RefusedOrder(k, E)
    BY <1>7 DEF AllocatePageExtendFails, Remaining, Cached
  <2> QED
    BY <2>1, RefusedPool, SmallerPool
<1>8. ASSUME NEW fd \in Fd, NEW p \in PageId, GetPageHit(fd, p) \/ AllocatePageReusesHit(fd, p)
      PROVE  PoolBounded'
  <2>1. /\ <<fd, p>> \in Cached
        /\ Cached' = Cached
        /\ recency' = Touch(recency, <<fd, p>>, Cached)
    BY <1>8 DEF GetPageHit, AllocatePageReusesHit, Cached
  <2> QED
    BY <2>1, TouchOrder, Cached \cup {<<fd, p>>} = Cached
<1>9. ASSUME NEW fd \in Fd, NEW p \in PageId, GetPageMiss(fd, p) \/ AllocatePageReusesMiss(fd, p)
      PROVE  PoolBounded'
  <2>1. PICK E : /\ Granted(<<fd, p>>, E)
                 /\ Cached' = (Cached \ E) \cup {<<fd, p>>}
                 /\ recency' = GrantedOrder(<<fd, p>>, E)
    BY <1>9 DEF GetPageMiss, AllocatePageReusesMiss, Installed, Cached
  <2> QED
    BY <2>1, GrantedPool
<1>10. ASSUME NEW fd \in Fd, NEW p \in PageId, GetPageFails(fd, p) \/ AllocatePageReusesFails(fd, p)
       PROVE  PoolBounded'
  <2>1. PICK E : Cached' = Cached \ E /\ recency' = Without(recency, E)
    BY <1>10 DEF GetPageFails, AllocatePageReusesFails, Remaining, Cached
  <2> QED
    BY <2>1, SmallerPool
<1>11. ASSUME NEW fd \in Fd, NEW p \in PageId, NEW v \in Value, WritePage(fd, p, v) \/ FormatPage(fd, p, v)
       PROVE  PoolBounded'
  BY <1>11 DEF WritePage, FormatPage, Cached
<1>12. ASSUME NEW fd \in Fd, NEW p \in PageId, DisposePage(fd, p) \/ UnpinPageDisposes(fd, p)
       PROVE  PoolBounded'
  BY <1>12, PurgedPool DEF DisposePage, UnpinPageDisposes
<1>13. ASSUME NEW fd \in Fd, NEW p \in PageId, DisposePageLater(fd, p) PROVE PoolBounded'
  <2>1. /\ <<fd, p>> \in Cached
        /\ Cached' = Cached
        /\ recency' = Touch(recency, <<fd, p>>, Cached)
    BY <1>13 DEF DisposePageLater, Cached
  <2> QED
    BY <2>1, TouchOrder, Cached \cup {<<fd, p>>} = Cached
<1>14. ASSUME NEW fd \in Fd, NEW p \in PageId, UnpinPage(fd, p) PROVE PoolBounded'
  BY <1>14 DEF UnpinPage, Cached
<1>15. ASSUME NEW fd \in Fd, CloseFile(fd) PROVE PoolBounded'
  <2>1. PICK S : Cached' = Cached \ S /\ recency' = Without(recency, S)
    BY <1>15 DEF CloseFile, LeftBehind, Cached
  <2> QED
    BY <2>1, SmallerPool
<1>16. CASE Shutdown \/ Crash
  BY <1>16, RestartedPool DEF Shutdown, Crash
<1>17. ASSUME NEW f \in File, RemoveFile(f) PROVE PoolBounded'
  BY <1>17 DEF RemoveFile, Cached
<1> QED
  BY <1>1, <1>2, <1>3, <1>4, <1>5, <1>6, <1>7, <1>8, <1>9, <1>10, <1>11, <1>12, <1>13, <1>14, <1>15, <1>16,
     <1>17
  DEF Next, OpNext

(***************************************************************************)
(* The cache never outgrows the pool and the LRU list orders exactly the   *)
(* cached frames, in every run of the buffer pool.                         *)
(***************************************************************************)
THEOREM PoolStaysBounded == Spec => []PoolBounded
<1>1. Init => PoolBounded
  <2> SUFFICES ASSUME Init PROVE PoolBounded
    OBVIOUS
  <2>1. Cached = {} /\ recency = {}
    BY DEF Init, Cached
  <2> QED
    BY <2>1, FS_EmptySet, NumFramesAssumption DEF PoolBounded, IsLruOrder
<1> QED
  BY <1>1, PoolBoundedStep, PTL DEF Spec

-----------------------------------------------------------------------------
(* The books of the pool: types, pins, headers and pending disposals hold  *)
(* each other up, so they are one inductive invariant.                     *)

Books ==
  /\ TypeOK
  /\ OneFdPerFile
  /\ PinAccounting
  /\ HeadersSound
  /\ CountedPagesExist
  /\ DisposalPending

\* a file system image in which every header is sound and its pages exist
DiskSound(D) ==
  /\ D \in [File -> [PageId -> Content \cup {Absent}]]
  /\ \A f \in File : D[f][HeaderPage] # Absent =>
       /\ HeaderOK(D[f][HeaderPage])
       /\ \A p \in 0 .. D[f][HeaderPage].pages - 1 : D[f][p] # Absent

\* no page of disk is missing in D
Keeps(D) == \A f \in File, p \in PageId : disk[f][p] # Absent => D[f][p] # Absent

LEMMA PageIds ==
  /\ HeaderPage \in PageId
  /\ MaxPages \in Nat
  /\ IsFiniteSet(PageId)
  /\ PageId \subseteq Nat
  /\ \A n \in 1 .. MaxPages : 0 .. n - 1 \subseteq PageId
BY MaxPagesAssumption, FS_Interval DEF PageId, HeaderPage

\* setting the bit of a page in a sound header, possibly growing the file
LEMMA SetBit ==
  ASSUME NEW h, HeaderOK(h),
         NEW p \in PageId, p \notin h.bitmap,
         NEW n \in 1 .. MaxPages, h.pages <= n, p < n
  PROVE  HeaderOK([pages |-> n, allocated |-> h.allocated + 1, bitmap |-> h.bitmap \cup {p}])
<1>1. IsFiniteSet(h.bitmap) /\ h.bitmap \in SUBSET PageId /\ h.pages \in 1 .. MaxPages
  BY PageIds, FS_Subset DEF HeaderOK, Header
<1>2. /\ Cardinality(h.bitmap \cup {p}) = Cardinality(h.bitmap) + 1
      /\ Cardinality(h.bitmap) \in Nat
  BY <1>1, FS_AddElement, FS_CardinalityType
<1>3. h.bitmap \cup {p} \subseteq 0 .. n - 1
  BY <1>1, PageIds DEF HeaderOK
<1> QED
  BY <1>1, <1>2, <1>3 DEF HeaderOK, Header

\* clearing the bit of a page other than the header page
LEMMA ClearBit ==
  ASSUME NEW h, HeaderOK(h), NEW p \in h.bitmap, p # HeaderPage
  PROVE  HeaderOK([pages |-> h.pages, allocated |-> h.allocated - 1, bitmap |-> h.bitmap \ {p}])
<1>1. IsFiniteSet(h.bitmap) /\ h.bitmap \in SUBSET PageId /\ h.pages \in 1 .. MaxPages
  BY PageIds, FS_Subset DEF HeaderOK, Header
<1>2. /\ IsFiniteSet(h.bitmap \ {p})
      /\ Cardinality(h.bitmap \ {p}) = Cardinality(h.bitmap) - 1
      /\ Cardinality(h.bitmap \ {p}) \in Nat
      /\ Cardinality(h.bitmap) \in Nat
  BY <1>1, FS_RemoveElement, FS_CardinalityType
<1> QED
  BY <1>1, <1>2 DEF HeaderOK, Header

\* the header of an open file is resident and sound
LEMMA ResidentHeader ==
  ASSUME Books, NEW fd \in Fd, IsOpen(fd)
  PROVE  /\ HeaderFrame(fd) \in Cached
         /\ HeaderFrame(fd) \in FrameId
         /\ frames[HeaderFrame(fd)] \in Frame
         /\ HeaderOK(FileHeader(fd))
         /\ FileHeader(fd) \in Header
         /\ file[fd] \in File
         /\ \A p \in 0 .. FileHeader(fd).pages - 1 : disk[file[fd]][p] # Absent
<1>1. HeaderFrame(fd) \in FrameId /\ HeaderFrame(fd)[1] = fd /\ HeaderFrame(fd)[2] = HeaderPage
  BY PageIds DEF HeaderFrame, FrameId
<1>2. HeaderFrame(fd) \in Cached
  <2>1. OwnPin(HeaderFrame(fd)) = 1
    BY <1>1 DEF OwnPin
  <2> QED
    BY <1>1, <2>1 DEF Books, PinAccounting
<1>3. file[fd] \in File
  BY DEF Books, TypeOK, IsOpen
<1>4. HeaderOK(FileHeader(fd)) /\ AllExist(FileHeader(fd), file[fd])
  BY DEF Books, HeadersSound, CountedPagesExist
<1> QED
  BY <1>1, <1>2, <1>3, <1>4 DEF Books, TypeOK, HeaderOK, AllExist

\* an unpinned frame belongs to no client and is no header of an open file
LEMMA UnpinnedFree ==
  ASSUME Books, NEW k \in Unpinned
  PROVE  /\ k \in Cached /\ k \in FrameId
         /\ held[k] = 0 /\ OwnPin(k) = 0
         /\ \A fd \in Fd : IsOpen(fd) => k # HeaderFrame(fd)
<1>1. k \in Cached /\ k \in FrameId /\ frames[k].pin = 0
  BY DEF Unpinned, Books, TypeOK
<1>2. frames[k].pin = held[k] + OwnPin(k) /\ held[k] \in Nat
  BY <1>1 DEF Books, TypeOK, PinAccounting
<1>3. OwnPin(k) \in {0, 1}
  BY DEF OwnPin
<1>4. held[k] = 0 /\ OwnPin(k) = 0
  BY <1>1, <1>2, <1>3
<1>5. ASSUME NEW fd \in Fd, IsOpen(fd) PROVE k # HeaderFrame(fd)
  BY <1>4, <1>5 DEF OwnPin, HeaderFrame
<1> QED
  BY <1>1, <1>4, <1>5

(***************************************************************************)
(* Writing frames back leaves a sound image, loses no page, and puts a     *)
(* written frame's data where the page is.                                 *)
(***************************************************************************)
LEMMA FlushedPage ==
  ASSUME Books, NEW S, S \subseteq Cached, NEW f \in File, NEW p \in PageId
  PROVE  \/ Flushed(S)[f][p] = disk[f][p]
         \/ \E k \in S : Backs(k, f, p) /\ Flushed(S)[f][p] = frames[k].data
<1>1. CASE \E k \in S : Backs(k, f, p)
  BY <1>1 DEF Flushed
<1>2. CASE ~ \E k \in S : Backs(k, f, p)
  BY <1>2 DEF Flushed
<1> QED
  BY <1>1, <1>2

LEMMA FlushedDisk ==
  ASSUME Books, NEW S, S \subseteq Cached
  PROVE  DiskSound(Flushed(S)) /\ Keeps(Flushed(S))
<1> DEFINE D == Flushed(S)
<1>1. ASSUME NEW k \in S
      PROVE  /\ k \in FrameId /\ k[1] \in Fd /\ k[2] \in PageId
             /\ frames[k].data \in Content /\ frames[k].data # Absent
  BY <1>1, AbsentAssumption DEF Books, TypeOK, Frame, FrameId
<1>2. ASSUME NEW f \in File, NEW p \in PageId
      PROVE  /\ D[f][p] \in Content \cup {Absent}
             /\ disk[f][p] # Absent => D[f][p] # Absent
  <2>1. \/ D[f][p] = disk[f][p]
        \/ \E k \in S : D[f][p] = frames[k].data
    BY <1>2, FlushedPage
  <2>2. disk[f][p] \in Content \cup {Absent}
    BY <1>2 DEF Books, TypeOK
  <2> HIDE DEF D
  <2> QED
    BY <1>1, <2>1, <2>2
<1>3. D \in [File -> [PageId -> Content \cup {Absent}]]
  BY <1>2 DEF Flushed
<1>4. Keeps(D)
  BY <1>2 DEF Keeps
<1>5. ASSUME NEW f \in File, D[f][HeaderPage] # Absent
      PROVE  /\ HeaderOK(D[f][HeaderPage])
             /\ \A p \in 0 .. D[f][HeaderPage].pages - 1 : disk[f][p] # Absent
  <2>1. CASE D[f][HeaderPage] = disk[f][HeaderPage]
    BY <1>5, <2>1 DEF Books, HeadersSound, CountedPagesExist, AllExist
  <2>2. CASE \E k \in S : Backs(k, f, HeaderPage) /\ D[f][HeaderPage] = frames[k].data
    <3>1. PICK k \in S : Backs(k, f, HeaderPage) /\ D[f][HeaderPage] = frames[k].data
      BY <2>2
    <3>2. k = HeaderFrame(k[1]) /\ k[1] \in Fd /\ IsOpen(k[1]) /\ file[k[1]] = f
      BY <1>1, <3>1, NoFileAssumption DEF Backs, HeaderFrame, IsOpen, FrameId
    <3> QED
      BY <3>1, <3>2, ResidentHeader DEF FileHeader
  <2> QED
    BY <2>1, <2>2, FlushedPage, PageIds
<1>6. ASSUME NEW f \in File, D[f][HeaderPage] # Absent,
             NEW p \in 0 .. D[f][HeaderPage].pages - 1
      PROVE  D[f][p] # Absent
  <2>1. p \in PageId
    BY <1>5, <1>6, PageIds DEF HeaderOK, Header
  <2> QED
    BY <1>2, <1>5, <1>6, <2>1
<1> QED
  BY <1>3, <1>4, <1>5, <1>6 DEF DiskSound

-----------------------------------------------------------------------------
(* Evictions keep the books. *)

\* the frames an eviction leaves are all that clients and pools have pins on
LEMMA EvictedFree ==
  ASSUME Books, NEW E, E \subseteq Unpinned
  PROVE  /\ E \subseteq Cached
         /\ \A j \in FrameId : j \notin Cached \ E => held[j] = 0 /\ OwnPin(j) = 0
         /\ \A fd \in Fd : IsOpen(fd) => HeaderFrame(fd) \in Cached \ E
         /\ DiskSound(Flushed(Dirty(E))) /\ Keeps(Flushed(Dirty(E)))
<1>1. E \subseteq Cached /\ Dirty(E) \subseteq Cached
  BY DEF Unpinned, Dirty
<1>2. ASSUME NEW j \in FrameId, j \notin Cached \ E PROVE held[j] = 0 /\ OwnPin(j) = 0
  <2>1. CASE j \in Unpinned
    BY <2>1, UnpinnedFree
  <2>2. CASE j \notin Cached
    BY <2>2 DEF Books, PinAccounting
  <2> QED
    BY <1>2, <2>1, <2>2
<1>3. ASSUME NEW fd \in Fd, IsOpen(fd) PROVE HeaderFrame(fd) \in Cached \ E
  BY <1>3, ResidentHeader, UnpinnedFree
<1> QED
  BY <1>1, <1>2, <1>3, FlushedDisk

LEMMA RecencyType ==
  ASSUME NEW order, order \subseteq FrameId \X FrameId
  PROVE  /\ \A S : Without(order, S) \subseteq FrameId \X FrameId
         /\ \A k \in FrameId, S \in SUBSET FrameId : Touch(order, k, S) \subseteq FrameId \X FrameId
BY DEF Without, Touch

\* a frame is granted for a page nobody has pins on
LEMMA GrantedFree ==
  ASSUME Books, NEW k \in FrameId, NEW E, Granted(k, E)
  PROVE  /\ E \subseteq Unpinned
         /\ k \notin Cached \ E
         /\ GrantedOrder(k, E) \subseteq FrameId \X FrameId
<1>1. E \subseteq Unpinned /\ k \notin Cached \ E
  BY DEF Granted, Evicts, OldestFirst, Full
<1> QED
  BY <1>1, RecencyType DEF GrantedOrder, Books, TypeOK

\* installing a frame, and changing the one of h (a header) besides
LEMMA InstalledFrames ==
  ASSUME Books, NEW k \in FrameId, NEW E, NEW d \in Content,
         frames' = Installed(k, E, NewFrame(d, 1))
  PROVE  /\ Cached' = (Cached \ E) \cup {k}
         /\ frames' \in [Cached' -> Frame]
         /\ frames'[k].pin = 1
         /\ frames'[k].data = d
         /\ \A j \in Cached \ E : j # k => frames'[j] = frames[j]
<1>1. NewFrame(d, 1) \in Frame /\ NewFrame(d, 1).pin = 1 /\ NewFrame(d, 1).data = d
  BY DEF NewFrame, Frame
<1>2. \A j \in (Cached \ E) \cup {k} : frames'[j] = IF j = k THEN NewFrame(d, 1) ELSE frames[j]
  BY DEF Installed
<1>3. ASSUME NEW j \in (Cached \ E) \cup {k} PROVE frames'[j] \in Frame
  BY <1>1, <1>2, <1>3 DEF Books, TypeOK
<1>4. Cached' = (Cached \ E) \cup {k} /\ frames' \in [Cached' -> Frame]
  BY <1>3 DEF Installed, Cached
<1> QED
  BY <1>1, <1>2, <1>4

InstallsAndMarks(k, E, d, h, m) ==
  frames' = [Installed(k, E, NewFrame(d, 1)) EXCEPT ![h] = m]

\* seen from outside: k is in the cache with one pin, h holds m
GrantsAndMarks(k, E, d, h, m) ==
  /\ Cached' = (Cached \ E) \cup {k}
  /\ frames' \in [Cached' -> Frame]
  /\ frames'[k].pin = 1
  /\ frames'[k].data = d
  /\ frames'[h] = m
  /\ \A j \in Cached \ E : j # k /\ j # h => frames'[j] = frames[j]

LEMMA InstalledFramesAndHeader ==
  ASSUME Books, NEW k \in FrameId, NEW E, NEW d \in Content,
         NEW h \in Cached \ E, h # k, NEW m \in Frame,
         InstallsAndMarks(k, E, d, h, m)
  PROVE  GrantsAndMarks(k, E, d, h, m)
<1>1. NewFrame(d, 1) \in Frame /\ NewFrame(d, 1).pin = 1 /\ NewFrame(d, 1).data = d
  BY DEF NewFrame, Frame
<1>2. \A j \in (Cached \ E) \cup {k} :
        frames'[j] = IF j = h THEN m ELSE IF j = k THEN NewFrame(d, 1) ELSE frames[j]
  BY DEF Installed, InstallsAndMarks
<1>3. ASSUME NEW j \in (Cached \ E) \cup {k} PROVE frames'[j] \in Frame
  BY <1>1, <1>2, <1>3 DEF Books, TypeOK
<1>4. Cached' = (Cached \ E) \cup {k} /\ frames' \in [Cached' -> Frame]
  BY <1>3 DEF Installed, InstallsAndMarks, Cached
<1> QED
  BY <1>1, <1>2, <1>4 DEF GrantsAndMarks

LEMMA HeadersFromDisk ==
  ASSUME DiskSound(disk)',
         \A fd \in Fd : IsOpen(fd)' => HeaderOK(FileHeader(fd))' /\ AllExist(FileHeader(fd), file[fd])'
  PROVE  HeadersSound' /\ CountedPagesExist'
BY DEF DiskSound, HeadersSound, CountedPagesExist, AllExist

\* a step that loses no page keeps the headers it does not change
LEMMA SameHeader ==
  ASSUME Books, NEW fd \in Fd, IsOpen(fd),
         file'[fd] = file[fd], FileHeader(fd)' = FileHeader(fd), Keeps(disk')
  PROVE  HeaderOK(FileHeader(fd))' /\ AllExist(FileHeader(fd), file[fd])'
<1>1. /\ HeaderOK(FileHeader(fd)) /\ FileHeader(fd) \in Header /\ file[fd] \in File
      /\ \A p \in 0 .. FileHeader(fd).pages - 1 : disk[file[fd]][p] # Absent
  BY ResidentHeader
<1>2. 0 .. FileHeader(fd).pages - 1 \subseteq PageId
  BY <1>1, PageIds DEF Header
<1> QED
  BY <1>1, <1>2 DEF Keeps, AllExist, HeaderOK

(***************************************************************************)
(* A frame is granted to a client: k is pinned once more, nothing else is  *)
(* pinned or unpinned, no bit is cleared.                                  *)
(***************************************************************************)
LEMMA GrantedBooks ==
  ASSUME Books, NEW fd \in Fd, NEW p \in PageId \ {HeaderPage}, NEW E,
         E \subseteq Unpinned, <<fd, p>> \notin Cached \ E,
         Cached' = (Cached \ E) \cup {<<fd, p>>},
         frames' \in [Cached' -> Frame],
         frames'[<<fd, p>>].pin = 1,
         \A j \in Cached \ E : frames'[j].pin = frames[j].pin,
         held' = [held EXCEPT ![<<fd, p>>] = @ + 1],
         recency' \subseteq FrameId \X FrameId,
         UNCHANGED <<file, disposed>>,
         DiskSound(disk)',
         \A g \in Fd : IsOpen(g) => /\ HeaderOK(FileHeader(g))'
                                    /\ AllExist(FileHeader(g), file[g])'
                                    /\ FileHeader(g).bitmap \subseteq FileHeader(g)'.bitmap
  PROVE  Books'
<1> DEFINE k == <<fd, p>>
<1>1. k \in FrameId /\ k[1] = fd /\ k[2] = p
  BY DEF FrameId
<1>2. Cached' = (Cached \ E) \cup {k}
  BY DEF Cached
<1>3. \A j \in FrameId : j \notin Cached \ E => held[j] = 0 /\ OwnPin(j) = 0
  BY EvictedFree
<1>4. /\ \A g \in Fd : IsOpen(g)' <=> IsOpen(g)
      /\ \A j : OwnPin(j)' = OwnPin(j)
  BY DEF IsOpen, OwnPin
<1>5. TypeOK'
  <2>1. held' \in [FrameId -> Nat]
    BY <1>1 DEF Books, TypeOK
  <2>2. Cached' \subseteq FrameId /\ frames' \in [Cached' -> Frame]
    BY <1>1, <1>2 DEF Books, TypeOK
  <2> QED
    BY <2>1, <2>2 DEF Books, TypeOK, DiskSound
<1>6. OneFdPerFile'
  BY DEF Books, OneFdPerFile, IsOpen
<1>7. PinAccounting'
  <2>1. \A j \in FrameId : held'[j] = IF j = k THEN held[j] + 1 ELSE held[j]
    BY DEF Books, TypeOK
  <2>2. held[k] = 0 /\ OwnPin(k) = 0
    BY <1>1, <1>3
  <2> QED
    BY <1>1, <1>2, <1>3, <1>4, <2>1, <2>2 DEF Books, PinAccounting
<1>8. HeadersSound' /\ CountedPagesExist'
  BY <1>4, HeadersFromDisk
<1>9. DisposalPending'
  <2> SUFFICES ASSUME NEW g \in Fd, NEW q \in disposed[g]
               PROVE  /\ IsOpen(g)'
                      /\ q \in FileHeader(g)'.bitmap \ {HeaderPage}
                      /\ held'[<<g, q>>] > 0
    BY DEF DisposalPending
  <2>1. <<g, q>> \in FrameId /\ held \in [FrameId -> Nat]
    BY DEF Books, TypeOK, FrameId
  <2> QED
    BY <1>1, <1>4, <2>1 DEF Books, DisposalPending
<1> QED
  BY <1>5, <1>6, <1>7, <1>8, <1>9 DEF Books

\* frames are evicted and none is granted: nothing is pinned or unpinned
LEMMA RefusedBooks ==
  ASSUME Books, NEW E, E \subseteq Unpinned,
         Cached' = Cached \ E,
         frames' \in [Cached' -> Frame],
         \A j \in Cached \ E : frames'[j].pin = frames[j].pin,
         recency' \subseteq FrameId \X FrameId,
         UNCHANGED <<file, disposed, held>>,
         DiskSound(disk)',
         \A g \in Fd : IsOpen(g) => /\ HeaderOK(FileHeader(g))'
                                    /\ AllExist(FileHeader(g), file[g])'
                                    /\ FileHeader(g).bitmap \subseteq FileHeader(g)'.bitmap
  PROVE  Books'
<1>1. Cached' = Cached \ E
  BY DEF Cached
<1>2. \A j \in FrameId : j \notin Cached \ E => held[j] = 0 /\ OwnPin(j) = 0
  BY EvictedFree
<1>3. /\ \A g \in Fd : IsOpen(g)' <=> IsOpen(g)
      /\ \A j : OwnPin(j)' = OwnPin(j)
  BY DEF IsOpen, OwnPin
<1>4. TypeOK'
  BY <1>1 DEF Books, TypeOK, DiskSound
<1>5. OneFdPerFile'
  BY DEF Books, OneFdPerFile, IsOpen
<1>6. PinAccounting'
  BY <1>1, <1>2, <1>3 DEF Books, PinAccounting
<1>7. HeadersSound' /\ CountedPagesExist'
  BY <1>3, HeadersFromDisk
<1>8. DisposalPending'
  BY <1>3 DEF Books, DisposalPending
<1> QED
  BY <1>4, <1>5, <1>6, <1>7, <1>8 DEF Books

(***************************************************************************)
(* The bit of page p is set in the header of fd, which then counts n       *)
(* pages.                                                                  *)
(***************************************************************************)
LEMMA MarkedHeader ==
  ASSUME Books, NEW fd \in Fd, IsOpen(fd),
         NEW p \in PageId, p \notin FileHeader(fd).bitmap,
         NEW n \in 1 .. MaxPages, FileHeader(fd).pages <= n, p < n,
         NEW m, m = Marked(fd, p, n)
  PROVE  /\ m \in Frame /\ m.dirty
         /\ m.pin = frames[HeaderFrame(fd)].pin
         /\ HeaderOK(m.data)
         /\ m.data.pages = n
         /\ m.data.bitmap = FileHeader(fd).bitmap \cup {p}
<1> DEFINE h == FileHeader(fd)
           new == [pages |-> n, allocated |-> h.allocated + 1, bitmap |-> h.bitmap \cup {p}]
<1>1. frames[HeaderFrame(fd)] \in Frame /\ HeaderOK(h)
  BY ResidentHeader
<1>2. HeaderOK(new) /\ new \in Content
  BY <1>1, SetBit DEF HeaderOK, Content
<1>3. m = [frames[HeaderFrame(fd)] EXCEPT !.dirty = TRUE, !.data = new]
  BY <1>1 DEF Marked, FileHeader, Frame
<1> HIDE DEF h
<1>4. m \in Frame /\ m.dirty /\ m.pin = frames[HeaderFrame(fd)].pin /\ m.data = new
  BY <1>1, <1>2, <1>3 DEF Frame
<1> QED
  BY <1>2, <1>4 DEF h

LEMMA ClearedHeader ==
  ASSUME Books, NEW fd \in Fd, IsOpen(fd),
         NEW p \in FileHeader(fd).bitmap, p # HeaderPage,
         NEW m, m = Cleared(fd, p)
  PROVE  /\ m \in Frame /\ m.dirty
         /\ m.pin = frames[HeaderFrame(fd)].pin
         /\ HeaderOK(m.data)
         /\ m.data.pages = FileHeader(fd).pages
         /\ m.data.bitmap = FileHeader(fd).bitmap \ {p}
<1> DEFINE h == FileHeader(fd)
           new == [pages |-> h.pages, allocated |-> h.allocated - 1, bitmap |-> h.bitmap \ {p}]
<1>1. frames[HeaderFrame(fd)] \in Frame /\ HeaderOK(h)
  BY ResidentHeader
<1>2. HeaderOK(new) /\ new \in Content
  BY <1>1, ClearBit DEF HeaderOK, Content
<1>3. m = [frames[HeaderFrame(fd)] EXCEPT !.dirty = TRUE, !.data = new]
  BY <1>1 DEF Cleared, FileHeader, Frame
<1> HIDE DEF h
<1>4. m \in Frame /\ m.dirty /\ m.pin = frames[HeaderFrame(fd)].pin /\ m.data = new
  BY <1>1, <1>2, <1>3 DEF Frame
<1> QED
  BY <1>2, <1>4 DEF h

\* the header of fd changes to a sound one whose pages exist, the others stay
LEMMA ChangedHeader ==
  ASSUME Books, NEW fd \in Fd, IsOpen(fd), NEW m,
         file' = file, Keeps(disk'),
         FileHeader(fd)' = m, HeaderOK(m),
         \A p \in 0 .. m.pages - 1 : disk'[file[fd]][p] # Absent,
         \A g \in Fd : IsOpen(g) /\ g # fd => FileHeader(g)' = FileHeader(g)
  PROVE  \A g \in Fd : IsOpen(g) => HeaderOK(FileHeader(g))' /\ AllExist(FileHeader(g), file[g])'
<1> TAKE g \in Fd
<1> HAVE IsOpen(g)
<1>1. CASE g = fd
  BY <1>1 DEF AllExist, HeaderOK
<1>2. CASE g # fd
  BY <1>2, SameHeader
<1> QED
  BY <1>1, <1>2

LEMMA SoundDisk == Books => DiskSound(disk)
BY DEF Books, TypeOK, HeadersSound, CountedPagesExist, AllExist, DiskSound

\* a client page is written
Written(D, f, p, d) == [D EXCEPT ![f][p] = d]

LEMMA WrittenDisk ==
  ASSUME NEW D, DiskSound(D), NEW f \in File, NEW p \in PageId \ {HeaderPage}, NEW d \in Content,
         NEW W, W = Written(D, f, p, d)
  PROVE  /\ DiskSound(W)
         /\ \A g \in File, q \in PageId : W[g][q] = IF g = f /\ q = p THEN d ELSE D[g][q]
<1>1. \A g \in File, q \in PageId : W[g][q] = IF g = f /\ q = p THEN d ELSE D[g][q]
  BY DEF DiskSound, Written
<1>2. W \in [File -> [PageId -> Content \cup {Absent}]]
  BY DEF DiskSound, Written
<1>3. \A g \in File : W[g][HeaderPage] = D[g][HeaderPage]
  BY <1>1, PageIds
<1>4. ASSUME NEW g \in File, W[g][HeaderPage] # Absent
      PROVE  /\ HeaderOK(W[g][HeaderPage])
             /\ \A q \in 0 .. W[g][HeaderPage].pages - 1 : W[g][q] # Absent
  <2>1. HeaderOK(D[g][HeaderPage]) /\ \A q \in 0 .. D[g][HeaderPage].pages - 1 : D[g][q] # Absent
    BY <1>3, <1>4 DEF DiskSound
  <2>2. 0 .. D[g][HeaderPage].pages - 1 \subseteq PageId
    BY <2>1, PageIds DEF HeaderOK, Header
  <2> QED
    BY <1>1, <1>3, <2>1, <2>2, AbsentAssumption
<1> QED
  BY <1>1, <1>2, <1>4 DEF DiskSound

-----------------------------------------------------------------------------
(* Every operation keeps the books. *)

\* what an allocation that is granted or refused does to types
LEMMA RefusedOrderType ==
  ASSUME Books, NEW k \in FrameId, NEW E
  PROVE  RefusedOrder(k, E) \subseteq FrameId \X FrameId
BY RecencyType DEF RefusedOrder, Books, TypeOK

LEMMA RefusedEvicts ==
  ASSUME NEW k, NEW E, Refused(k, E) \/ Granted(k, E)
  PROVE  E \subseteq Unpinned
BY DEF Refused, Granted, Evicts, OldestFirst

LEMMA RemainingFrames ==
  ASSUME Books, NEW E, frames' = Remaining(E)
  PROVE  /\ Cached' = Cached \ E
         /\ frames' \in [Cached' -> Frame]
         /\ \A j \in Cached \ E : frames'[j] = frames[j]
<1>1. Cached' = Cached \ E
  BY DEF Remaining, Cached
<1> QED
  BY <1>1 DEF Remaining, Books, TypeOK

RemainsAndMarks(E, h, m) == frames' = [Remaining(E) EXCEPT ![h] = m]

LEMMA RemainingFramesAndHeader ==
  ASSUME Books, NEW E, NEW h \in Cached \ E, NEW m \in Frame, RemainsAndMarks(E, h, m)
  PROVE  /\ Cached' = Cached \ E
         /\ frames' \in [Cached' -> Frame]
         /\ frames'[h] = m
         /\ \A j \in Cached \ E : j # h => frames'[j] = frames[j]
<1>1. Cached' = Cached \ E
  BY DEF RemainsAndMarks, Remaining, Cached
<1>2. \A j \in Cached \ E : frames'[j] = IF j = h THEN m ELSE frames[j]
  BY DEF RemainsAndMarks, Remaining
<1>3. frames' \in [Cached' -> Frame]
  <2>1. ASSUME NEW j \in Cached \ E PROVE frames'[j] \in Frame
    BY <1>2, <2>1 DEF Books, TypeOK
  <2> QED
    BY <1>1, <2>1 DEF RemainsAndMarks, Remaining
<1> QED
  BY <1>1, <1>2, <1>3

\* evictions leave the headers of the open files as they are
LEMMA EvictedHeaders ==
  ASSUME Books, NEW E, E \subseteq Unpinned,
         \A j \in Cached \ E : frames'[j] = frames[j],
         file' = file, disk' = Flushed(Dirty(E))
  PROVE  \A g \in Fd : IsOpen(g) => /\ HeaderOK(FileHeader(g))'
                                    /\ AllExist(FileHeader(g), file[g])'
                                    /\ FileHeader(g).bitmap \subseteq FileHeader(g)'.bitmap
<1> TAKE g \in Fd
<1> HAVE IsOpen(g)
<1>1. HeaderFrame(g) \in Cached \ E /\ Keeps(disk')
  BY EvictedFree
<1>2. FileHeader(g)' = FileHeader(g)
  BY <1>1 DEF FileHeader, HeaderFrame
<1> QED
  BY <1>1, <1>2, SameHeader

LEMMA GetPageMissBooks ==
  ASSUME Books, NEW fd \in Fd, NEW p \in PageId \ {HeaderPage}, GetPageMiss(fd, p)
  PROVE  Books'
<1> DEFINE k == <<fd, p>>
<1>1. PICK E, d : /\ d = disk[file[fd]][p]
                  /\ Granted(k, E)
                  /\ disk' = Flushed(Dirty(E))
                  /\ frames' = Installed(k, E, NewFrame(d, 1))
                  /\ recency' = GrantedOrder(k, E)
  BY DEF GetPageMiss
<1>2. /\ IsOpen(fd) /\ k \in FrameId
      /\ disk[file[fd]][p] # Absent
      /\ held' = [held EXCEPT ![k] = @ + 1]
      /\ UNCHANGED <<file, disposed>>
  BY DEF GetPageMiss, FrameId
<1>3. d \in Content
  BY <1>1, <1>2, ResidentHeader DEF Books, TypeOK
<1>4. /\ E \subseteq Unpinned
      /\ k \notin Cached \ E
      /\ recency' \subseteq FrameId \X FrameId
      /\ DiskSound(disk')
  BY <1>1, <1>2, GrantedFree, EvictedFree
<1>5. /\ Cached' = (Cached \ E) \cup {k}
      /\ frames' \in [Cached' -> Frame]
      /\ frames'[k].pin = 1
      /\ \A j \in Cached \ E : j # k => frames'[j] = frames[j]
  BY <1>1, <1>2, <1>3, InstalledFrames
<1>6. \A g \in Fd : IsOpen(g) => /\ HeaderOK(FileHeader(g))'
                                 /\ AllExist(FileHeader(g), file[g])'
                                 /\ FileHeader(g).bitmap \subseteq FileHeader(g)'.bitmap
  BY <1>1, <1>2, <1>4, <1>5, EvictedHeaders
<1> QED
  BY <1>2, <1>4, <1>5, <1>6, GrantedBooks

LEMMA GetPageFailsBooks ==
  ASSUME Books, NEW fd \in Fd, NEW p \in PageId, GetPageFails(fd, p)
  PROVE  Books'
<1>1. PICK E : /\ Refused(<<fd, p>>, E) \/ Granted(<<fd, p>>, E)
               /\ disk' = Flushed(Dirty(E))
               /\ frames' = Remaining(E)
               /\ recency' = Without(recency, E)
  BY DEF GetPageFails
<1>2. E \subseteq Unpinned /\ DiskSound(disk') /\ UNCHANGED <<file, disposed, held>>
  BY <1>1, RefusedEvicts, EvictedFree DEF GetPageFails
<1>3. recency' \subseteq FrameId \X FrameId
  BY <1>1, RecencyType DEF Books, TypeOK
<1>4. /\ Cached' = Cached \ E
      /\ frames' \in [Cached' -> Frame]
      /\ \A j \in Cached \ E : frames'[j] = frames[j]
  BY <1>1, RemainingFrames
<1> QED
  BY <1>1, <1>2, <1>3, <1>4, EvictedHeaders, RefusedBooks

LEMMA OpenFileFailsBooks ==
  ASSUME Books, NEW f \in File, NEW fd \in Fd, OpenFileFails(f, fd)
  PROVE  Books'
<1>1. PICK E : /\ Refused(HeaderFrame(fd), E)
               /\ disk' = Flushed(Dirty(E))
               /\ frames' = Remaining(E)
               /\ recency' = RefusedOrder(HeaderFrame(fd), E)
  BY DEF OpenFileFails
<1>2. E \subseteq Unpinned /\ DiskSound(disk') /\ UNCHANGED <<file, disposed, held>>
  BY <1>1, RefusedEvicts, EvictedFree DEF OpenFileFails
<1>3. recency' \subseteq FrameId \X FrameId
  BY <1>1, RefusedOrderType, PageIds DEF HeaderFrame, FrameId
<1>4. /\ Cached' = Cached \ E
      /\ frames' \in [Cached' -> Frame]
      /\ \A j \in Cached \ E : frames'[j] = frames[j]
  BY <1>1, RemainingFrames
<1> QED
  BY <1>1, <1>2, <1>3, <1>4, EvictedHeaders, RefusedBooks

LEMMA AllocatePageExtendFailsBooks ==
  ASSUME Books, NEW fd \in Fd, AllocatePageExtendFails(fd)
  PROVE  Books'
<1> DEFINE k == <<fd, FileHeader(fd).pages>>
<1>1. PICK E : /\ Refused(k, E)
               /\ disk' = Flushed(Dirty(E))
               /\ frames' = Remaining(E)
               /\ recency' = RefusedOrder(k, E)
  BY DEF AllocatePageExtendFails
<1>2. E \subseteq Unpinned /\ DiskSound(disk') /\ UNCHANGED <<file, disposed, held>>
  BY <1>1, RefusedEvicts, EvictedFree DEF AllocatePageExtendFails
<1>3. k \in FrameId
  BY ResidentHeader, MaxPagesAssumption DEF AllocatePageExtendFails, Extendable, Header, FrameId, PageId
<1>4. recency' \subseteq FrameId \X FrameId
  BY <1>1, <1>3, RefusedOrderType
<1>5. /\ Cached' = Cached \ E
      /\ frames' \in [Cached' -> Frame]
      /\ \A j \in Cached \ E : frames'[j] = frames[j]
  BY <1>1, RemainingFrames
<1> QED
  BY <1>1, <1>2, <1>4, <1>5, EvictedHeaders, RefusedBooks

(***************************************************************************)
(* What GrantedBooks and RefusedBooks ask of the headers, when the bit of  *)
(* page p is set in the header of fd.                                      *)
(***************************************************************************)
LEMMA GrowingHeaders ==
  ASSUME Books, NEW fd \in Fd, IsOpen(fd), NEW m,
         file' = file, Keeps(disk'),
         FileHeader(fd)' = m, HeaderOK(m),
         \A p \in 0 .. m.pages - 1 : disk'[file[fd]][p] # Absent,
         FileHeader(fd).bitmap \subseteq m.bitmap,
         \A g \in Fd : IsOpen(g) /\ g # fd => FileHeader(g)' = FileHeader(g)
  PROVE  \A g \in Fd : IsOpen(g) => /\ HeaderOK(FileHeader(g))'
                                    /\ AllExist(FileHeader(g), file[g])'
                                    /\ FileHeader(g).bitmap \subseteq FileHeader(g)'.bitmap
<1>1. \A g \in Fd : IsOpen(g) => HeaderOK(FileHeader(g))' /\ AllExist(FileHeader(g), file[g])'
  BY ChangedHeader
<1>2. ASSUME NEW g \in Fd, IsOpen(g) PROVE FileHeader(g).bitmap \subseteq FileHeader(g)'.bitmap
  <2>1. CASE g = fd
    BY <2>1
  <2>2. CASE g # fd
    BY <1>2, <2>2
  <2> QED
    BY <2>1, <2>2
<1> QED
  BY <1>1, <1>2

LEMMA PresentPages ==
  ASSUME Books, NEW fd \in Fd, IsOpen(fd), Keeps(disk')
  PROVE  \A q \in 0 .. FileHeader(fd).pages - 1 : disk'[file[fd]][q] # Absent
<1> TAKE q \in 0 .. FileHeader(fd).pages - 1
<1>1. file[fd] \in File /\ disk[file[fd]][q] # Absent /\ FileHeader(fd).pages \in 1 .. MaxPages
  BY ResidentHeader DEF Header
<1>2. q \in PageId
  BY <1>1, PageIds
<1> QED
  BY <1>1, <1>2 DEF Keeps

LEMMA ReusableBit ==
  ASSUME Books, NEW fd \in Fd, IsOpen(fd), NEW p \in PageId, Reusable(fd, p)
  PROVE  /\ p \notin FileHeader(fd).bitmap
         /\ FileHeader(fd).pages \in 1 .. MaxPages
         /\ p < FileHeader(fd).pages
         /\ disk[file[fd]][p] \in Content
<1>1. /\ FileHeader(fd) \in Header /\ file[fd] \in File
      /\ \A q \in 0 .. FileHeader(fd).pages - 1 : disk[file[fd]][q] # Absent
  BY ResidentHeader
<1> QED
  BY <1>1 DEF Reusable, Header, Books, TypeOK

LEMMA AllocatePageReusesMissBooks ==
  ASSUME Books, NEW fd \in Fd, NEW p \in PageId \ {HeaderPage}, AllocatePageReusesMiss(fd, p)
  PROVE  Books'
<1> DEFINE k == <<fd, p>>
           h == HeaderFrame(fd)
<1>1. PICK E, d, m : /\ d = disk[file[fd]][p]
                     /\ m = Marked(fd, p, FileHeader(fd).pages)
                     /\ Granted(k, E)
                     /\ disk' = Flushed(Dirty(E))
                     /\ frames' = [Installed(k, E, NewFrame(d, 1)) EXCEPT ![h] = m]
                     /\ recency' = GrantedOrder(k, E)
  BY DEF AllocatePageReusesMiss
<1>2. /\ IsOpen(fd) /\ k \in FrameId /\ Reusable(fd, p)
      /\ held' = [held EXCEPT ![k] = @ + 1]
      /\ UNCHANGED <<file, disposed>>
  BY DEF AllocatePageReusesMiss, FrameId
<1>3. /\ p \notin FileHeader(fd).bitmap
      /\ FileHeader(fd).pages \in 1 .. MaxPages
      /\ p < FileHeader(fd).pages
      /\ d \in Content
  BY <1>1, <1>2, ReusableBit
<1>4. /\ E \subseteq Unpinned
      /\ k \notin Cached \ E
      /\ recency' \subseteq FrameId \X FrameId
      /\ DiskSound(disk') /\ Keeps(disk')
      /\ \A g \in Fd : IsOpen(g) => HeaderFrame(g) \in Cached \ E
  BY <1>1, <1>2, GrantedFree, EvictedFree
<1>5. /\ m \in Frame
      /\ m.pin = frames[h].pin
      /\ HeaderOK(m.data)
      /\ m.data.pages = FileHeader(fd).pages
      /\ m.data.bitmap = FileHeader(fd).bitmap \cup {p}
  BY <1>1, <1>2, <1>3, MarkedHeader
<1>6. h \in Cached \ E /\ h # k
  BY <1>2, <1>4 DEF HeaderFrame
<1>7. /\ Cached' = (Cached \ E) \cup {k}
      /\ frames' \in [Cached' -> Frame]
      /\ frames'[k].pin = 1
      /\ frames'[h] = m
      /\ \A j \in Cached \ E : j # k /\ j # h => frames'[j] = frames[j]
  <2>1. InstallsAndMarks(k, E, d, h, m)
    BY <1>1 DEF InstallsAndMarks
  <2> HIDE DEF k, h
  <2>2. GrantsAndMarks(k, E, d, h, m)
    BY <1>2, <1>3, <1>5, <1>6, <2>1, InstalledFramesAndHeader
  <2> QED
    BY <2>2 DEF GrantsAndMarks
<1>8. \A j \in Cached \ E : frames'[j].pin = frames[j].pin
  BY <1>4, <1>5, <1>7
<1>9. \A g \in Fd : IsOpen(g) => /\ HeaderOK(FileHeader(g))'
                                 /\ AllExist(FileHeader(g), file[g])'
                                 /\ FileHeader(g).bitmap \subseteq FileHeader(g)'.bitmap
  <2>1. FileHeader(fd)' = m.data
    BY <1>7 DEF FileHeader, HeaderFrame
  <2>2. ASSUME NEW g \in Fd, IsOpen(g), g # fd PROVE FileHeader(g)' = FileHeader(g)
    BY <1>4, <1>7, <2>2 DEF FileHeader, HeaderFrame
  <2>3. \A q \in 0 .. m.data.pages - 1 : disk'[file[fd]][q] # Absent
    BY <1>2, <1>4, <1>5, PresentPages
  <2>4. FileHeader(fd).bitmap \subseteq m.data.bitmap
    BY <1>5
  <2> HIDE DEF k, h
  <2> QED
    BY <1>2, <1>4, <1>5, <2>1, <2>2, <2>3, <2>4, GrowingHeaders
<1> QED
  BY <1>2, <1>4, <1>7, <1>8, <1>9, GrantedBooks

LEMMA AllocatePageExtendsBooks ==
  ASSUME Books, NEW fd \in Fd, AllocatePageExtends(fd)
  PROVE  Books'
<1> DEFINE h == HeaderFrame(fd)
<1>1. PICK E, p, m : /\ p = FileHeader(fd).pages
                     /\ m = Marked(fd, p, p + 1)
                     /\ Granted(<<fd, p>>, E)
                     /\ disk' = [Flushed(Dirty(E)) EXCEPT ![file[fd]][p] = Zero]
                     /\ frames' = [Installed(<<fd, p>>, E, NewFrame(Zero, 1)) EXCEPT ![h] = m]
                     /\ recency' = GrantedOrder(<<fd, p>>, E)
                     /\ held' = [held EXCEPT ![<<fd, p>>] = @ + 1]
  BY DEF AllocatePageExtends
<1> DEFINE k == <<fd, p>>
<1>2. /\ IsOpen(fd) /\ Extendable(fd)
      /\ UNCHANGED <<file, disposed>>
  BY DEF AllocatePageExtends
<1>3. /\ file[fd] \in File
      /\ FileHeader(fd) \in Header
      /\ HeaderOK(FileHeader(fd))
      /\ \A q \in 0 .. FileHeader(fd).pages - 1 : disk[file[fd]][q] # Absent
  BY <1>2, ResidentHeader
<1>4. /\ p \in PageId \ {HeaderPage}
      /\ p + 1 \in 1 .. MaxPages
      /\ p \notin FileHeader(fd).bitmap
      /\ k \in FrameId
  BY <1>1, <1>2, <1>3, MaxPagesAssumption DEF Extendable, HeaderOK, Header, PageId, HeaderPage, FrameId
<1>5. Zero \in Content /\ Zero # Absent
  BY AbsentAssumption DEF Content, Data
<1>6. /\ E \subseteq Unpinned
      /\ k \notin Cached \ E
      /\ recency' \subseteq FrameId \X FrameId
      /\ DiskSound(Flushed(Dirty(E))) /\ Keeps(Flushed(Dirty(E)))
      /\ \A g \in Fd : IsOpen(g) => HeaderFrame(g) \in Cached \ E
  BY <1>1, <1>4, GrantedFree, EvictedFree
<1>7. /\ DiskSound(disk')
      /\ \A g \in File, q \in PageId :
           disk'[g][q] = IF g = file[fd] /\ q = p THEN Zero ELSE Flushed(Dirty(E))[g][q]
  <2>1. disk' = Written(Flushed(Dirty(E)), file[fd], p, Zero)
    BY <1>1 DEF Written
  <2> QED
    BY <1>3, <1>4, <1>5, <1>6, <2>1, WrittenDisk
<1>8. Keeps(disk')
  BY <1>5, <1>6, <1>7 DEF Keeps
<1>9. /\ m \in Frame
      /\ m.pin = frames[h].pin
      /\ HeaderOK(m.data)
      /\ m.data.pages = p + 1
      /\ m.data.bitmap = FileHeader(fd).bitmap \cup {p}
  <2>1. FileHeader(fd).pages <= p + 1 /\ p < p + 1
    BY <1>1, <1>3 DEF Header
  <2> QED
    BY <1>1, <1>2, <1>4, <2>1, MarkedHeader
<1>10. h \in Cached \ E /\ h # k
  BY <1>2, <1>4, <1>6 DEF HeaderFrame
<1>11. /\ Cached' = (Cached \ E) \cup {k}
       /\ frames' \in [Cached' -> Frame]
       /\ frames'[k].pin = 1
       /\ frames'[h] = m
       /\ \A j \in Cached \ E : j # k /\ j # h => frames'[j] = frames[j]
  <2>1. InstallsAndMarks(k, E, Zero, h, m)
    BY <1>1 DEF InstallsAndMarks
  <2> HIDE DEF k, h
  <2>2. GrantsAndMarks(k, E, Zero, h, m)
    BY <1>4, <1>5, <1>9, <1>10, <2>1, InstalledFramesAndHeader
  <2> QED
    BY <2>2 DEF GrantsAndMarks
<1>12. \A j \in Cached \ E : frames'[j].pin = frames[j].pin
  BY <1>6, <1>9, <1>11
<1>13. \A g \in Fd : IsOpen(g) => /\ HeaderOK(FileHeader(g))'
                                  /\ AllExist(FileHeader(g), file[g])'
                                  /\ FileHeader(g).bitmap \subseteq FileHeader(g)'.bitmap
  <2>1. FileHeader(fd)' = m.data
    BY <1>11 DEF FileHeader, HeaderFrame
  <2>2. ASSUME NEW g \in Fd, IsOpen(g), g # fd PROVE FileHeader(g)' = FileHeader(g)
    BY <1>6, <1>11, <2>2 DEF FileHeader, HeaderFrame
  <2>3. ASSUME NEW q \in 0 .. m.data.pages - 1 PROVE disk'[file[fd]][q] # Absent
    <3>1. q \in PageId /\ (q = p \/ q \in 0 .. FileHeader(fd).pages - 1)
      BY <1>1, <1>4, <1>9, <2>3, PageIds
    <3> QED
      BY <1>3, <1>5, <1>7, <1>8, <3>1 DEF Keeps
  <2>4. FileHeader(fd).bitmap \subseteq m.data.bitmap
    BY <1>9
  <2> HIDE DEF k, h
  <2> QED
    BY <1>2, <1>8, <1>9, <2>1, <2>2, <2>3, <2>4, GrowingHeaders
<1> QED
  BY <1>1, <1>2, <1>4, <1>6, <1>7, <1>11, <1>12, <1>13, GrantedBooks

LEMMA AllocatePageReusesFailsBooks ==
  ASSUME Books, NEW fd \in Fd, NEW p \in PageId, AllocatePageReusesFails(fd, p)
  PROVE  Books'
<1> DEFINE h == HeaderFrame(fd)
<1>1. PICK E, m : /\ m = Marked(fd, p, FileHeader(fd).pages)
                  /\ Refused(<<fd, p>>, E)
                  /\ disk' = Flushed(Dirty(E))
                  /\ frames' = [Remaining(E) EXCEPT ![h] = m]
                  /\ recency' = Without(recency, E)
  BY DEF AllocatePageReusesFails
<1>2. IsOpen(fd) /\ Reusable(fd, p) /\ UNCHANGED <<file, disposed, held>>
  BY DEF AllocatePageReusesFails
<1>3. /\ E \subseteq Unpinned
      /\ DiskSound(disk') /\ Keeps(disk')
      /\ \A g \in Fd : IsOpen(g) => HeaderFrame(g) \in Cached \ E
  BY <1>1, RefusedEvicts, EvictedFree
<1>4. /\ p \notin FileHeader(fd).bitmap
      /\ FileHeader(fd).pages \in 1 .. MaxPages
      /\ p < FileHeader(fd).pages
  BY <1>2, ReusableBit
<1>5. /\ m \in Frame
      /\ m.pin = frames[h].pin
      /\ HeaderOK(m.data)
      /\ m.data.pages = FileHeader(fd).pages
      /\ m.data.bitmap = FileHeader(fd).bitmap \cup {p}
  BY <1>1, <1>2, <1>4, MarkedHeader
<1>6. recency' \subseteq FrameId \X FrameId
  BY <1>1, RecencyType DEF Books, TypeOK
<1>7. /\ Cached' = Cached \ E
      /\ frames' \in [Cached' -> Frame]
      /\ frames'[h] = m
      /\ \A j \in Cached \ E : j # h => frames'[j] = frames[j]
  <2>1. RemainsAndMarks(E, h, m) /\ h \in Cached \ E
    BY <1>1, <1>2, <1>3 DEF RemainsAndMarks
  <2> HIDE DEF h
  <2> QED
    BY <1>5, <2>1, RemainingFramesAndHeader
<1>8. \A j \in Cached \ E : frames'[j].pin = frames[j].pin
  BY <1>5, <1>7
<1>9. \A g \in Fd : IsOpen(g) => /\ HeaderOK(FileHeader(g))'
                                 /\ AllExist(FileHeader(g), file[g])'
                                 /\ FileHeader(g).bitmap \subseteq FileHeader(g)'.bitmap
  <2>1. FileHeader(fd)' = m.data
    BY <1>7 DEF FileHeader, HeaderFrame
  <2>2. ASSUME NEW g \in Fd, IsOpen(g), g # fd PROVE FileHeader(g)' = FileHeader(g)
    BY <1>3, <1>7, <2>2 DEF FileHeader, HeaderFrame
  <2>3. \A q \in 0 .. m.data.pages - 1 : disk'[file[fd]][q] # Absent
    BY <1>2, <1>3, <1>5, PresentPages
  <2>4. FileHeader(fd).bitmap \subseteq m.data.bitmap
    BY <1>5
  <2> HIDE DEF h
  <2> QED
    BY <1>2, <1>3, <1>5, <2>1, <2>2, <2>3, <2>4, GrowingHeaders
<1> QED
  BY <1>2, <1>3, <1>6, <1>7, <1>8, <1>9, RefusedBooks

(***************************************************************************)
(* A step that changes no frame's place in the cache: clients take or      *)
(* return pins, mark pages for disposal, and write.                        *)
(***************************************************************************)
LEMMA InPlaceBooks ==
  ASSUME Books,
         frames' \in [Cached -> Frame],
         held' \in [FrameId -> Nat],
         \A j \in Cached : frames'[j].pin = held'[j] + OwnPin(j),
         \A j \in FrameId \ Cached : held'[j] = held[j],
         recency' \subseteq FrameId \X FrameId,
         disposed' \in [Fd -> SUBSET PageId],
         file' = file,
         DiskSound(disk)',
         \A g \in Fd : IsOpen(g) => HeaderOK(FileHeader(g))' /\ AllExist(FileHeader(g), file[g])',
         \A g \in Fd : \A q \in disposed'[g] :
           /\ IsOpen(g)
           /\ q \in FileHeader(g)'.bitmap \ {HeaderPage}
           /\ held'[<<g, q>>] > 0
  PROVE  Books'
<1>1. Cached' = Cached
  BY DEF Cached
<1>2. /\ \A g \in Fd : IsOpen(g)' <=> IsOpen(g)
      /\ \A j : OwnPin(j)' = OwnPin(j)
  BY DEF IsOpen, OwnPin
<1>3. TypeOK'
  BY <1>1 DEF Books, TypeOK, DiskSound
<1>4. OneFdPerFile'
  BY DEF Books, OneFdPerFile, IsOpen
<1>5. PinAccounting'
  BY <1>1, <1>2 DEF Books, PinAccounting
<1>6. HeadersSound' /\ CountedPagesExist'
  BY <1>2, HeadersFromDisk
<1>7. DisposalPending'
  BY <1>2 DEF DisposalPending
<1> QED
  BY <1>3, <1>4, <1>5, <1>6, <1>7 DEF Books

\* pins of the cached frames, spelled out
LEMMA CachedPins ==
  ASSUME Books, NEW j \in Cached
  PROVE  /\ j \in FrameId /\ frames[j] \in Frame
         /\ frames[j].pin = held[j] + OwnPin(j)
         /\ held[j] \in Nat /\ OwnPin(j) \in {0, 1} /\ frames[j].pin \in Nat
<1>1. j \in FrameId /\ frames[j] \in Frame /\ held[j] \in Nat
  BY DEF Books, TypeOK
<1> QED
  BY <1>1 DEF Books, PinAccounting, Frame, OwnPin

LEMMA HeldCached ==
  ASSUME Books, NEW j \in FrameId, held[j] > 0
  PROVE  j \in Cached
BY DEF Books, PinAccounting

\* pending disposals of a step that takes no pin away and clears no bit
LEMMA DisposalsKept ==
  ASSUME Books, disposed' = disposed, held' \in [FrameId -> Nat],
         \A j \in FrameId : held'[j] >= held[j],
         \A g \in Fd : IsOpen(g) => FileHeader(g).bitmap \subseteq FileHeader(g)'.bitmap
  PROVE  \A g \in Fd : \A q \in disposed'[g] :
           /\ IsOpen(g)
           /\ q \in FileHeader(g)'.bitmap \ {HeaderPage}
           /\ held'[<<g, q>>] > 0
<1> TAKE g \in Fd
<1> TAKE q \in disposed'[g]
<1>1. <<g, q>> \in FrameId /\ held[<<g, q>>] \in Nat
  BY DEF Books, TypeOK, FrameId
<1>2. held'[<<g, q>>] >= held[<<g, q>>] /\ held[<<g, q>>] > 0
  BY <1>1 DEF Books, DisposalPending
<1>3. held'[<<g, q>>] > 0
  <2>1. held'[<<g, q>>] \in Nat
    BY <1>1
  <2> QED
    BY <1>1, <1>2, <2>1
<1> QED
  BY <1>3 DEF Books, DisposalPending

LEMMA GetPageHitBooks ==
  ASSUME Books, NEW fd \in Fd, NEW p \in PageId, GetPageHit(fd, p)
  PROVE  Books'
<1> DEFINE k == <<fd, p>>
<1>1. /\ k \in FrameId /\ IsOpen(fd) /\ k \in Cached
      /\ frames' = [frames EXCEPT ![k].pin = @ + 1]
      /\ recency' = Touch(recency, k, Cached)
      /\ held' = [held EXCEPT ![k] = @ + 1]
      /\ UNCHANGED <<file, disposed, disk>>
  BY DEF GetPageHit, FrameId
<1> HIDE DEF k
<1>2. held' \in [FrameId -> Nat] /\ \A j \in FrameId : held'[j] = IF j = k THEN held[j] + 1 ELSE held[j]
  BY <1>1 DEF Books, TypeOK
<1>3. /\ \A j \in Cached : /\ frames'[j].pin = IF j = k THEN frames[j].pin + 1 ELSE frames[j].pin
                           /\ frames'[j].data = frames[j].data
      /\ frames' \in [Cached -> Frame]
  BY <1>1, CachedPins DEF Books, TypeOK, Frame
<1>4. \A j \in Cached : frames'[j].pin = held'[j] + OwnPin(j)
  BY <1>1, <1>2, <1>3, CachedPins
<1>5. recency' \subseteq FrameId \X FrameId
  BY <1>1, RecencyType DEF Books, TypeOK
<1>6. \A g \in Fd : IsOpen(g) => /\ FileHeader(g)' = FileHeader(g)
                                 /\ HeaderOK(FileHeader(g))' /\ AllExist(FileHeader(g), file[g])'
  <2> TAKE g \in Fd
  <2> HAVE IsOpen(g)
  <2>1. FileHeader(g)' = FileHeader(g)
    BY <1>3, ResidentHeader DEF FileHeader, HeaderFrame
  <2> QED
    BY <1>1, <2>1, SameHeader DEF Keeps
<1>7. \A g \in Fd : \A q \in disposed'[g] :
        /\ IsOpen(g)
        /\ q \in FileHeader(g)'.bitmap \ {HeaderPage}
        /\ held'[<<g, q>>] > 0
  <2>1. \A j \in FrameId : held'[j] >= held[j]
    BY <1>2 DEF Books, TypeOK
  <2> QED
    BY <1>1, <1>2, <1>6, <2>1, DisposalsKept
<1>8. DiskSound(disk)' /\ disposed' \in [Fd -> SUBSET PageId]
  BY <1>1, SoundDisk DEF Books, TypeOK, DiskSound
<1> QED
  BY <1>1, <1>2, <1>3, <1>4, <1>5, <1>6, <1>7, <1>8, InPlaceBooks

LEMMA AllocatePageReusesHitBooks ==
  ASSUME Books, NEW fd \in Fd, NEW p \in PageId, AllocatePageReusesHit(fd, p)
  PROVE  Books'
<1> DEFINE k == <<fd, p>>
           h == HeaderFrame(fd)
<1>1. PICK m : m = Marked(fd, p, FileHeader(fd).pages)
  OBVIOUS
<1>2. /\ k \in FrameId /\ IsOpen(fd) /\ k \in Cached /\ Reusable(fd, p)
      /\ frames' = [frames EXCEPT ![h] = m, ![k].pin = @ + 1]
      /\ recency' = Touch(recency, k, Cached)
      /\ held' = [held EXCEPT ![k] = @ + 1]
      /\ UNCHANGED <<file, disposed, disk>>
  BY <1>1 DEF AllocatePageReusesHit, FrameId
<1>3. /\ p \notin FileHeader(fd).bitmap
      /\ FileHeader(fd).pages \in 1 .. MaxPages
      /\ p < FileHeader(fd).pages
  BY <1>2, ReusableBit
<1>4. /\ m \in Frame
      /\ m.pin = frames[h].pin
      /\ HeaderOK(m.data)
      /\ m.data.pages = FileHeader(fd).pages
      /\ m.data.bitmap = FileHeader(fd).bitmap \cup {p}
  BY <1>1, <1>2, <1>3, MarkedHeader
<1>5. h # k /\ h \in Cached
  BY <1>2, <1>3, ResidentHeader DEF HeaderOK, HeaderFrame
<1>6. \A g \in Fd : g # fd => HeaderFrame(g) # h /\ HeaderFrame(g) # k
  BY DEF HeaderFrame
<1> HIDE DEF k, h
<1>7. held' \in [FrameId -> Nat] /\ \A j \in FrameId : held'[j] = IF j = k THEN held[j] + 1 ELSE held[j]
  BY <1>2 DEF Books, TypeOK
<1>8. /\ \A j \in Cached : frames'[j].pin = IF j = k THEN frames[j].pin + 1 ELSE frames[j].pin
      /\ frames'[h] = m
      /\ \A j \in Cached : j # k /\ j # h => frames'[j] = frames[j]
      /\ frames' \in [Cached -> Frame]
  <2>1. frames \in [Cached -> Frame] /\ frames[k] \in Frame
    BY <1>2 DEF Books, TypeOK
  <2>2. PICK b : b = [frames[k] EXCEPT !.pin = @ + 1]
    OBVIOUS
  <2>3. b \in Frame /\ b.pin = frames[k].pin + 1
    BY <2>1, <2>2 DEF Frame
  <2>4. \A j \in Cached : frames'[j] = IF j = k THEN b ELSE IF j = h THEN m ELSE frames[j]
    BY <1>2, <1>5, <2>1, <2>2
  <2>5. frames' \in [Cached -> Frame]
    BY <1>2, <1>4, <2>1, <2>3, <2>4
  <2> QED
    BY <1>4, <1>5, <2>3, <2>4, <2>5
<1>9. \A j \in Cached : frames'[j].pin = held'[j] + OwnPin(j)
  BY <1>2, <1>7, <1>8, CachedPins
<1>10. recency' \subseteq FrameId \X FrameId
  BY <1>2, RecencyType DEF Books, TypeOK
<1>11. Keeps(disk')
  BY <1>2 DEF Keeps
<1>12. \A g \in Fd : IsOpen(g) => /\ HeaderOK(FileHeader(g))'
                                  /\ AllExist(FileHeader(g), file[g])'
                                  /\ FileHeader(g).bitmap \subseteq FileHeader(g)'.bitmap
  <2>1. FileHeader(fd)' = m.data
    BY <1>8 DEF FileHeader, HeaderFrame, h
  <2>2. ASSUME NEW g \in Fd, IsOpen(g), g # fd PROVE FileHeader(g)' = FileHeader(g)
    <3>1. HeaderFrame(g)' = HeaderFrame(g) /\ HeaderFrame(g) \in Cached
      BY <2>2, ResidentHeader DEF HeaderFrame
    <3> QED
      BY <1>6, <1>8, <2>2, <3>1 DEF FileHeader
  <2>3. \A q \in 0 .. m.data.pages - 1 : disk'[file[fd]][q] # Absent
    BY <1>2, <1>4, <1>11, PresentPages
  <2>4. FileHeader(fd).bitmap \subseteq m.data.bitmap
    BY <1>4
  <2> QED
    BY <1>2, <1>4, <1>11, <2>1, <2>2, <2>3, <2>4, GrowingHeaders
<1>13. \A g \in Fd : \A q \in disposed'[g] :
        /\ IsOpen(g)
        /\ q \in FileHeader(g)'.bitmap \ {HeaderPage}
        /\ held'[<<g, q>>] > 0
  <2>1. \A j \in FrameId : held'[j] >= held[j]
    BY <1>7 DEF Books, TypeOK
  <2> QED
    BY <1>2, <1>7, <1>12, <2>1, DisposalsKept
<1>14. DiskSound(disk)' /\ disposed' \in [Fd -> SUBSET PageId]
  BY <1>2, SoundDisk DEF Books, TypeOK, DiskSound
<1> QED
  BY <1>2, <1>7, <1>8, <1>9, <1>10, <1>12, <1>13, <1>14, InPlaceBooks

\* a frame is rewritten in place: the facts InPlaceBooks asks for
LEMMA RewrittenFrame ==
  ASSUME Books, NEW k \in Cached, NEW b \in Frame, frames' = [frames EXCEPT ![k] = b]
  PROVE  /\ frames' \in [Cached -> Frame]
         /\ \A j \in Cached : frames'[j] = IF j = k THEN b ELSE frames[j]
BY DEF Books, TypeOK

LEMMA SameHeaders ==
  ASSUME Books, file' = file, Keeps(disk'),
         \A g \in Fd : IsOpen(g) => frames'[HeaderFrame(g)].data = frames[HeaderFrame(g)].data
  PROVE  \A g \in Fd : IsOpen(g) => /\ HeaderOK(FileHeader(g))'
                                    /\ AllExist(FileHeader(g), file[g])'
                                    /\ FileHeader(g).bitmap \subseteq FileHeader(g)'.bitmap
<1> TAKE g \in Fd
<1> HAVE IsOpen(g)
<1>1. FileHeader(g)' = FileHeader(g)
  BY DEF FileHeader, HeaderFrame
<1> QED
  BY <1>1, SameHeader

LEMMA WritePageBooks ==
  ASSUME Books, NEW fd \in Fd, NEW p \in PageId \ {HeaderPage}, NEW v \in Value,
         WritePage(fd, p, v) \/ FormatPage(fd, p, v)
  PROVE  Books'
<1> DEFINE k == <<fd, p>>
<1>1. /\ IsOpen(fd) /\ k \in FrameId /\ held[k] > 0 /\ k \in Cached
      /\ UNCHANGED <<file, recency, disposed, held>>
  BY HeldCached DEF WritePage, FormatPage, FrameId
<1>2. v \in Content /\ frames[k] \in Frame /\ file[fd] \in File
  BY <1>1, CachedPins, ResidentHeader DEF Content, Data
<1>3. PICK b : /\ b = [frames[k] EXCEPT !.data = v, !.dirty = TRUE]
                  \/ b = Synced([frames[k] EXCEPT !.data = v])
               /\ frames' = [frames EXCEPT ![k] = b]
  BY DEF WritePage, FormatPage
<1>4. b \in Frame /\ b.pin = frames[k].pin
  BY <1>2, <1>3 DEF Frame, Synced
<1>5. DiskSound(disk)' /\ Keeps(disk')
  <2>1. CASE WritePage(fd, p, v)
    BY <2>1, SoundDisk DEF WritePage, Keeps, DiskSound
  <2>2. CASE FormatPage(fd, p, v)
    <3>1. disk' = Written(disk, file[fd], p, v) /\ DiskSound(disk)
      BY <2>2, SoundDisk DEF FormatPage, Written
    <3>2. DiskSound(disk') /\ \A g \in File, q \in PageId :
            disk'[g][q] = IF g = file[fd] /\ q = p THEN v ELSE disk[g][q]
      BY <1>2, <3>1, WrittenDisk
    <3> QED
      BY <1>2, <3>2, AbsentAssumption DEF Keeps, DiskSound
  <2> QED
    BY <2>1, <2>2
<1>6. \A g \in Fd : HeaderFrame(g) # k
  BY DEF HeaderFrame
<1> HIDE DEF k
<1>7. /\ frames' \in [Cached -> Frame]
      /\ \A j \in Cached : frames'[j] = IF j = k THEN b ELSE frames[j]
  BY <1>1, <1>3, <1>4, RewrittenFrame
<1>8. \A j \in Cached : frames'[j].pin = held'[j] + OwnPin(j)
  BY <1>1, <1>4, <1>7, CachedPins
<1>9. \A g \in Fd : IsOpen(g) => /\ HeaderOK(FileHeader(g))'
                                 /\ AllExist(FileHeader(g), file[g])'
                                 /\ FileHeader(g).bitmap \subseteq FileHeader(g)'.bitmap
  BY <1>1, <1>5, <1>6, <1>7, ResidentHeader, SameHeaders
<1>10. /\ held' \in [FrameId -> Nat] /\ disposed' \in [Fd -> SUBSET PageId]
       /\ recency' \subseteq FrameId \X FrameId
       /\ \A j \in FrameId : held'[j] >= held[j]
  BY <1>1 DEF Books, TypeOK
<1>11. \A g \in Fd : \A q \in disposed'[g] :
         /\ IsOpen(g)
         /\ q \in FileHeader(g)'.bitmap \ {HeaderPage}
         /\ held'[<<g, q>>] > 0
  BY <1>1, <1>9, <1>10, DisposalsKept
<1> QED
  BY <1>1, <1>5, <1>7, <1>8, <1>9, <1>10, <1>11, InPlaceBooks

LEMMA FlushAllPagesBooks ==
  ASSUME Books, NEW fd \in Fd, FlushAllPages(fd)
  PROVE  Books'
<1>1. PICK S : /\ S \subseteq Cached
               /\ disk' = Flushed(S)
               /\ frames' = [k \in Cached |->
                    IF k \in S THEN Synced(frames[k]) ELSE frames[k]]
               /\ UNCHANGED <<file, recency, disposed, held>>
  BY DEF FlushAllPages
<1>2. DiskSound(disk)' /\ Keeps(disk')
  BY <1>1, FlushedDisk DEF DiskSound
<1>3. ASSUME NEW j \in Cached
      PROVE  frames'[j] \in Frame /\ frames'[j].pin = frames[j].pin /\ frames'[j].data = frames[j].data
  <2>1. frames[j] \in Frame
    BY CachedPins
  <2> QED
    BY <1>1, <2>1 DEF Frame, Synced
<1>4. frames' \in [Cached -> Frame]
  BY <1>1, <1>3
<1>5. \A j \in Cached : frames'[j].pin = held'[j] + OwnPin(j)
  BY <1>1, <1>3, CachedPins
<1>6. \A g \in Fd : IsOpen(g) => /\ HeaderOK(FileHeader(g))'
                                 /\ AllExist(FileHeader(g), file[g])'
                                 /\ FileHeader(g).bitmap \subseteq FileHeader(g)'.bitmap
  BY <1>1, <1>2, <1>3, ResidentHeader, SameHeaders
<1>7. /\ held' \in [FrameId -> Nat] /\ disposed' \in [Fd -> SUBSET PageId]
      /\ recency' \subseteq FrameId \X FrameId
      /\ \A j \in FrameId : held'[j] >= held[j]
  BY <1>1 DEF Books, TypeOK
<1>8. \A g \in Fd : \A q \in disposed'[g] :
        /\ IsOpen(g)
        /\ q \in FileHeader(g)'.bitmap \ {HeaderPage}
        /\ held'[<<g, q>>] > 0
  BY <1>1, <1>6, <1>7, DisposalsKept
<1> QED
  BY <1>1, <1>2, <1>4, <1>5, <1>6, <1>7, <1>8, InPlaceBooks

LEMMA DisposePageLaterBooks ==
  ASSUME Books, NEW fd \in Fd, NEW p \in PageId \ {HeaderPage},
         p \in FileHeader(fd).bitmap, DisposePageLater(fd, p)
  PROVE  Books'
<1> DEFINE k == <<fd, p>>
<1>1. /\ k \in FrameId /\ k[1] = fd /\ k[2] = p
      /\ IsOpen(fd) /\ k \in Cached /\ frames[k].pin > 0
      /\ recency' = Touch(recency, k, Cached)
      /\ disposed' = [disposed EXCEPT ![fd] = @ \cup {p}]
      /\ UNCHANGED <<file, frames, disk, held>>
  BY DEF DisposePageLater, FrameId
<1>2. held[k] > 0
  BY <1>1, CachedPins DEF OwnPin
<1>3. /\ DiskSound(disk)' /\ Keeps(disk')
      /\ held' \in [FrameId -> Nat]
      /\ disposed' \in [Fd -> SUBSET PageId]
      /\ frames' \in [Cached -> Frame]
      /\ recency' \subseteq FrameId \X FrameId
  BY <1>1, SoundDisk, RecencyType DEF Books, TypeOK, Keeps, DiskSound
<1>4. \A j \in Cached : frames'[j].pin = held'[j] + OwnPin(j)
  BY <1>1, CachedPins
<1>5. \A g \in Fd : IsOpen(g) => HeaderOK(FileHeader(g))' /\ AllExist(FileHeader(g), file[g])'
  BY <1>1, <1>3, SameHeaders
<1>6. ASSUME NEW g \in Fd, NEW q \in disposed'[g]
      PROVE  /\ IsOpen(g)
             /\ q \in FileHeader(g)'.bitmap \ {HeaderPage}
             /\ held'[<<g, q>>] > 0
  <2>1. FileHeader(g)' = FileHeader(g)
    BY <1>1 DEF FileHeader, HeaderFrame
  <2>2. q \in disposed[g] \/ (g = fd /\ q = p)
    BY <1>1, <1>6 DEF Books, TypeOK
  <2> QED
    BY <1>1, <1>2, <2>1, <2>2 DEF Books, DisposalPending
<1> QED
  BY <1>1, <1>3, <1>4, <1>5, <1>6, InPlaceBooks

LEMMA UnpinPageBooks ==
  ASSUME Books, NEW fd \in Fd, NEW p \in PageId \ {HeaderPage}, UnpinPage(fd, p)
  PROVE  Books'
<1> DEFINE k == <<fd, p>>
<1>1. /\ k \in FrameId /\ k[1] = fd /\ k[2] = p
      /\ IsOpen(fd) /\ held[k] > 0 /\ k \in Cached
      /\ frames[k].pin > 1 \/ p \notin disposed[fd]
      /\ held' = [held EXCEPT ![k] = @ - 1]
      /\ UNCHANGED <<file, recency, disposed, disk>>
  BY HeldCached DEF UnpinPage, FrameId
<1>2. frames[k] \in Frame /\ frames[k].pin = held[k] /\ held[k] \in Nat
  BY <1>1, CachedPins DEF OwnPin
<1>3. PICK b : b = [frames[k] EXCEPT !.pin = @ - 1] /\ frames' = [frames EXCEPT ![k] = b]
  BY DEF UnpinPage
<1>4. b \in Frame /\ b.pin = frames[k].pin - 1
  BY <1>1, <1>2, <1>3 DEF Frame
<1>5. \A g \in Fd : HeaderFrame(g) # k
  BY DEF HeaderFrame
<1>6. \A g \in Fd, q \in PageId : <<g, q>> = k => g = fd /\ q = p
  OBVIOUS
<1> HIDE DEF k
<1>7. /\ held' \in [FrameId -> Nat]
      /\ \A j \in FrameId : held'[j] = IF j = k THEN held[j] - 1 ELSE held[j]
  BY <1>1, <1>2 DEF Books, TypeOK
<1>8. /\ frames' \in [Cached -> Frame]
      /\ \A j \in Cached : frames'[j] = IF j = k THEN b ELSE frames[j]
  BY <1>1, <1>3, <1>4, RewrittenFrame
<1>9. \A j \in Cached : frames'[j].pin = held'[j] + OwnPin(j)
  BY <1>1, <1>2, <1>4, <1>7, <1>8, CachedPins
<1>10. /\ DiskSound(disk)' /\ Keeps(disk')
       /\ disposed' \in [Fd -> SUBSET PageId]
       /\ recency' \subseteq FrameId \X FrameId
  BY <1>1, SoundDisk DEF Books, TypeOK, Keeps, DiskSound
<1>11. \A g \in Fd : IsOpen(g) => /\ FileHeader(g)' = FileHeader(g)
                                  /\ HeaderOK(FileHeader(g))' /\ AllExist(FileHeader(g), file[g])'
  <2> TAKE g \in Fd
  <2> HAVE IsOpen(g)
  <2>1. FileHeader(g)' = FileHeader(g)
    BY <1>5, <1>8, ResidentHeader DEF FileHeader, HeaderFrame
  <2> QED
    BY <1>1, <1>10, <2>1, SameHeader
<1>12. ASSUME NEW g \in Fd, NEW q \in disposed'[g]
       PROVE  /\ IsOpen(g)
              /\ q \in FileHeader(g)'.bitmap \ {HeaderPage}
              /\ held'[<<g, q>>] > 0
  <2>1. /\ q \in disposed[g] /\ q \in PageId /\ <<g, q>> \in FrameId
        /\ IsOpen(g) /\ q \in FileHeader(g).bitmap \ {HeaderPage}
        /\ held[<<g, q>>] > 0
    BY <1>1, <1>12 DEF Books, TypeOK, DisposalPending, FrameId
  <2>2. held'[<<g, q>>] > 0
    <3>1. CASE <<g, q>> = k
      BY <1>1, <1>2, <1>6, <1>7, <2>1, <3>1
    <3>2. CASE <<g, q>> # k
      BY <1>7, <2>1, <3>2
    <3> QED
      BY <3>1, <3>2
  <2> QED
    BY <1>11, <2>1, <2>2
<1> QED
  BY <1>1, <1>7, <1>8, <1>9, <1>10, <1>11, <1>12, InPlaceBooks

(***************************************************************************)
(* A page leaves the cache and the bitmap; nobody has a pin on it any      *)
(* more and no disposal of it is pending.                                  *)
(***************************************************************************)
LEMMA PurgedBooks ==
  ASSUME Books, NEW fd \in Fd, IsOpen(fd),
         NEW p \in FileHeader(fd).bitmap, p # HeaderPage, Purged(fd, p),
         held' \in [FrameId -> Nat], held'[<<fd, p>>] = 0,
         \A j \in FrameId : j # <<fd, p>> => held'[j] = held[j],
         disposed' = [disposed EXCEPT ![fd] = @ \ {p}],
         file' = file
  PROVE  Books'
<1> DEFINE k == <<fd, p>>
           h == HeaderFrame(fd)
<1>1. PICK m : m = Cleared(fd, p)
  OBVIOUS
<1>2. /\ disk' = Flushed(Dirty({k} \cap Cached))
      /\ frames' = [Remaining({k}) EXCEPT ![h] = m]
      /\ recency' = Without(recency, {k})
  BY <1>1 DEF Purged
<1>3. p \in PageId /\ k \in FrameId /\ k[1] = fd /\ k[2] = p /\ OwnPin(k) = 0
  BY ResidentHeader, PageIds DEF HeaderOK, Header, FrameId, OwnPin
<1>4. /\ m \in Frame
      /\ m.pin = frames[h].pin
      /\ HeaderOK(m.data)
      /\ m.data.pages = FileHeader(fd).pages
      /\ m.data.bitmap = FileHeader(fd).bitmap \ {p}
  BY <1>1, ClearedHeader
<1>5. DiskSound(disk)' /\ Keeps(disk')
  <2>1. Dirty({k} \cap Cached) \subseteq Cached
    BY DEF Dirty
  <2> QED
    BY <1>2, <2>1, FlushedDisk DEF DiskSound
<1>6. \A g \in Fd : IsOpen(g) => HeaderFrame(g) \in Cached \ {k}
  BY <1>3, ResidentHeader DEF HeaderFrame
<1>7. \A g \in Fd : g # fd => HeaderFrame(g) # h
  BY DEF HeaderFrame
<1>8. \A g \in Fd, q \in PageId : <<g, q>> = k => g = fd /\ q = p
  OBVIOUS
<1>9. held'[k] = 0 /\ \A j \in FrameId : j # k => held'[j] = held[j]
  OBVIOUS
<1>10. /\ Cached' = Cached \ {k}
       /\ frames' \in [Cached' -> Frame]
       /\ frames'[h] = m
       /\ \A j \in Cached \ {k} : j # h => frames'[j] = frames[j]
  <2>1. RemainsAndMarks({k}, h, m) /\ h \in Cached \ {k}
    BY <1>2, <1>6 DEF RemainsAndMarks
  <2> HIDE DEF h, k
  <2> QED
    BY <1>4, <2>1, RemainingFramesAndHeader
<1>11. /\ \A g \in Fd : IsOpen(g)' <=> IsOpen(g)
       /\ \A j : OwnPin(j)' = OwnPin(j)
  BY DEF IsOpen, OwnPin
<1>12. FileHeader(fd)' = m.data
  BY <1>10 DEF FileHeader, HeaderFrame
<1>13. ASSUME NEW g \in Fd, IsOpen(g), g # fd PROVE FileHeader(g)' = FileHeader(g)
  <2>1. HeaderFrame(g)' = HeaderFrame(g)
    BY DEF HeaderFrame
  <2> QED
    BY <1>6, <1>7, <1>10, <1>13, <2>1 DEF FileHeader
<1> HIDE DEF k, h
<1>14. TypeOK'
  <2>1. recency' \subseteq FrameId \X FrameId
    BY <1>2, RecencyType DEF Books, TypeOK
  <2> QED
    BY <1>5, <1>10, <2>1 DEF Books, TypeOK, DiskSound
<1>15. OneFdPerFile'
  BY DEF Books, OneFdPerFile, IsOpen
<1>16. PinAccounting'
  <2>1. \A j \in Cached \ {k} : frames'[j].pin = frames[j].pin
    BY <1>4, <1>10
  <2> QED
    BY <1>3, <1>9, <1>10, <1>11, <2>1 DEF Books, PinAccounting
<1>17. HeadersSound' /\ CountedPagesExist'
  <2>1. \A q \in 0 .. m.data.pages - 1 : disk'[file[fd]][q] # Absent
    BY <1>4, <1>5, PresentPages
  <2>2. \A g \in Fd : IsOpen(g) => HeaderOK(FileHeader(g))' /\ AllExist(FileHeader(g), file[g])'
    BY <1>4, <1>5, <1>12, <1>13, <2>1, ChangedHeader
  <2> QED
    BY <1>5, <1>11, <2>2, HeadersFromDisk
<1>18. DisposalPending'
  <2> SUFFICES ASSUME NEW g \in Fd, NEW q \in disposed'[g]
               PROVE  /\ IsOpen(g)'
                      /\ q \in FileHeader(g)'.bitmap \ {HeaderPage}
                      /\ held'[<<g, q>>] > 0
    BY DEF DisposalPending
  <2>1. q \in disposed[g] /\ (g = fd => q # p)
    BY DEF Books, TypeOK
  <2>2. /\ q \in PageId /\ <<g, q>> \in FrameId /\ <<g, q>> # k
        /\ IsOpen(g) /\ q \in FileHeader(g).bitmap \ {HeaderPage}
        /\ held[<<g, q>>] > 0
    BY <1>8, <2>1 DEF Books, TypeOK, DisposalPending, FrameId
  <2>3. q \in FileHeader(g)'.bitmap
    BY <1>4, <1>12, <1>13, <2>1, <2>2
  <2> QED
    BY <1>9, <1>11, <2>2, <2>3
<1> QED
  BY <1>14, <1>15, <1>16, <1>17, <1>18 DEF Books

LEMMA DisposePageBooks ==
  ASSUME Books, NEW fd \in Fd, NEW p \in PageId \ {HeaderPage},
         p \in FileHeader(fd).bitmap, DisposePage(fd, p)
  PROVE  Books'
<1>1. /\ IsOpen(fd) /\ Purged(fd, p) /\ UNCHANGED <<file, disposed, held>>
      /\ <<fd, p>> \in Cached => frames[<<fd, p>>].pin = 0
      /\ <<fd, p>> \in FrameId /\ <<fd, p>>[2] = p
  BY DEF DisposePage, FrameId
<1>2. held[<<fd, p>>] = 0
  BY <1>1, CachedPins DEF Books, PinAccounting, OwnPin
<1>3. p \notin disposed[fd]
  BY <1>2 DEF Books, DisposalPending
<1>4. held' \in [FrameId -> Nat] /\ disposed' = [disposed EXCEPT ![fd] = @ \ {p}]
  BY <1>1, <1>3 DEF Books, TypeOK
<1> QED
  BY <1>1, <1>2, <1>4, PurgedBooks

LEMMA UnpinPageDisposesBooks ==
  ASSUME Books, NEW fd \in Fd, NEW p \in PageId \ {HeaderPage}, UnpinPageDisposes(fd, p)
  PROVE  Books'
<1>1. /\ IsOpen(fd) /\ Purged(fd, p) /\ file' = file
      /\ held[<<fd, p>>] > 0 /\ frames[<<fd, p>>].pin = 1 /\ p \in disposed[fd]
      /\ disposed' = [disposed EXCEPT ![fd] = @ \ {p}]
      /\ held' = [held EXCEPT ![<<fd, p>>] = @ - 1]
      /\ <<fd, p>> \in FrameId /\ <<fd, p>>[2] = p /\ <<fd, p>> \in Cached
  BY HeldCached DEF UnpinPageDisposes, FrameId
<1>2. held[<<fd, p>>] = 1
  BY <1>1, CachedPins DEF OwnPin
<1>3. p \in FileHeader(fd).bitmap
  BY <1>1 DEF Books, DisposalPending
<1>4. /\ held' \in [FrameId -> Nat]
      /\ held'[<<fd, p>>] = 0
      /\ \A j \in FrameId : j # <<fd, p>> => held'[j] = held[j]
  BY <1>1, <1>2 DEF Books, TypeOK
<1> QED
  BY <1>1, <1>3, <1>4, PurgedBooks

LEMMA CreateFileBooks ==
  ASSUME Books, NEW f \in File, CreateFile(f)
  PROVE  Books'
<1>1. /\ \A p \in PageId : disk[f][p] = Absent
      /\ disk' = [disk EXCEPT ![f][HeaderPage] = EmptyHeader]
      /\ UNCHANGED <<file, frames, recency, disposed, held>>
  BY DEF CreateFile
<1>2. HeaderOK(EmptyHeader) /\ EmptyHeader.pages = 1
  <2>1. Cardinality({HeaderPage}) = 1
    BY FS_Singleton
  <2>2. 1 \in 1 .. MaxPages /\ {HeaderPage} \in SUBSET PageId /\ HeaderPage \in 0 .. 1 - 1
    BY PageIds, MaxPagesAssumption DEF HeaderPage
  <2> QED
    BY <2>1, <2>2 DEF HeaderOK, EmptyHeader, Header
<1>3. EmptyHeader \in Content /\ EmptyHeader # Absent
  BY <1>2, AbsentAssumption DEF HeaderOK, Content
<1>4. \A g \in File, q \in PageId :
        disk'[g][q] = IF g = f /\ q = HeaderPage THEN EmptyHeader ELSE disk[g][q]
  BY <1>1, PageIds DEF Books, TypeOK
<1>5. Keeps(disk')
  BY <1>3, <1>4 DEF Keeps
<1>6. DiskSound(disk')
  <2>1. disk' \in [File -> [PageId -> Content \cup {Absent}]]
    BY <1>1, <1>3 DEF Books, TypeOK
  <2>2. ASSUME NEW g \in File, disk'[g][HeaderPage] # Absent
        PROVE  /\ HeaderOK(disk'[g][HeaderPage])
               /\ \A p \in 0 .. disk'[g][HeaderPage].pages - 1 : disk'[g][p] # Absent
    <3>1. CASE g = f
      <4>1. disk'[g][HeaderPage] = EmptyHeader /\ 0 .. EmptyHeader.pages - 1 = {HeaderPage}
        BY <1>2, <1>4, <3>1, PageIds DEF HeaderPage
      <4> QED
        BY <1>2, <1>3, <4>1
    <3>2. CASE g # f
      <4>1. disk'[g][HeaderPage] = disk[g][HeaderPage]
        BY <1>4, <3>2, PageIds
      <4>2. HeaderOK(disk[g][HeaderPage])
            /\ \A p \in 0 .. disk[g][HeaderPage].pages - 1 : disk[g][p] # Absent
        BY <2>2, <4>1, SoundDisk DEF DiskSound
      <4>3. 0 .. disk[g][HeaderPage].pages - 1 \subseteq PageId
        BY <4>2, PageIds DEF HeaderOK, Header
      <4> QED
        BY <1>5, <4>1, <4>2, <4>3 DEF Keeps
    <3> QED
      BY <3>1, <3>2
  <2> QED
    BY <2>1, <2>2 DEF DiskSound
<1>7. \A g \in Fd : IsOpen(g) => /\ HeaderOK(FileHeader(g))'
                                 /\ AllExist(FileHeader(g), file[g])'
                                 /\ FileHeader(g).bitmap \subseteq FileHeader(g)'.bitmap
  BY <1>1, <1>5, SameHeaders
<1>8. /\ frames' \in [Cached -> Frame] /\ held' \in [FrameId -> Nat]
      /\ disposed' \in [Fd -> SUBSET PageId]
      /\ recency' \subseteq FrameId \X FrameId
      /\ \A j \in FrameId : held'[j] >= held[j]
  BY <1>1 DEF Books, TypeOK
<1>9. \A g \in Fd : \A q \in disposed'[g] :
        /\ IsOpen(g)
        /\ q \in FileHeader(g)'.bitmap \ {HeaderPage}
        /\ held'[<<g, q>>] > 0
  BY <1>1, <1>7, <1>8, DisposalsKept
<1>10. \A j \in Cached : frames'[j].pin = held'[j] + OwnPin(j)
  BY <1>1, CachedPins
<1>11. DiskSound(disk)'
  BY <1>6 DEF DiskSound
<1> QED
  BY <1>1, <1>7, <1>8, <1>9, <1>10, <1>11, InPlaceBooks

LEMMA OpenFileBooks ==
  ASSUME Books, NEW f \in File, NEW fd \in Fd, OpenFile(f, fd)
  PROVE  Books'
<1> DEFINE k == HeaderFrame(fd)
<1>1. PICK E, d : /\ d = disk[f][HeaderPage]
                  /\ Granted(k, E)
                  /\ disk' = Flushed(Dirty(E))
                  /\ frames' = Installed(k, E, NewFrame(d, 1))
                  /\ recency' = GrantedOrder(k, E)
  BY DEF OpenFile
<1>2. /\ Opens(f, fd) /\ ~IsOpen(fd)
      /\ \A g \in Fd : file[g] # f
      /\ file' = [file EXCEPT ![fd] = f]
      /\ UNCHANGED <<disposed, held>>
      /\ k \in FrameId /\ k[1] = fd /\ k[2] = HeaderPage
  BY PageIds DEF OpenFile, Opens, HeaderFrame, FrameId
<1>3. /\ d \in Content /\ HeaderOK(d)
      /\ \A p \in 0 .. d.pages - 1 : p \in PageId /\ disk[f][p] # Absent
  <2>1. d # Absent
    BY <1>1, <1>2 DEF Opens
  <2>2. HeaderOK(d) /\ \A p \in 0 .. d.pages - 1 : disk[f][p] # Absent
    BY <1>1, <2>1, SoundDisk DEF DiskSound
  <2> QED
    BY <2>2, PageIds DEF HeaderOK, Header, Content
<1>4. /\ E \subseteq Unpinned
      /\ k \notin Cached \ E
      /\ recency' \subseteq FrameId \X FrameId
      /\ DiskSound(disk') /\ Keeps(disk')
      /\ \A g \in Fd : IsOpen(g) => HeaderFrame(g) \in Cached \ E
      /\ \A j \in FrameId : j \notin Cached \ E => held[j] = 0 /\ OwnPin(j) = 0
  BY <1>1, <1>2, GrantedFree, EvictedFree
<1>5. /\ Cached' = (Cached \ E) \cup {k}
      /\ frames' \in [Cached' -> Frame]
      /\ frames'[k].pin = 1
      /\ \A j \in Cached \ E : j # k => frames'[j] = frames[j]
  BY <1>1, <1>2, <1>3, InstalledFrames
<1>6. frames'[k].data = d
  BY <1>1 DEF Installed, NewFrame
<1>7. /\ \A g \in Fd : file'[g] = IF g = fd THEN f ELSE file[g]
      /\ \A g \in Fd : IsOpen(g)' <=> g = fd \/ IsOpen(g)
  BY <1>2, NoFileAssumption DEF Books, TypeOK, IsOpen
<1>8. \A j \in FrameId : OwnPin(j)' = IF j = k THEN 1 ELSE OwnPin(j)
  <2> TAKE j \in FrameId
  <2>1. j[1] \in Fd /\ (j = k <=> j[1] = fd /\ j[2] = HeaderPage)
    BY DEF FrameId, HeaderFrame
  <2> QED
    BY <1>7, <2>1 DEF OwnPin
<1>9. TypeOK'
  <2>1. file' \in [Fd -> File \cup {NoFile}]
    BY <1>2 DEF Books, TypeOK
  <2>2. Cached' \subseteq FrameId
    BY <1>2, <1>5 DEF Books, TypeOK
  <2> QED
    BY <1>2, <1>4, <1>5, <2>1, <2>2 DEF Books, TypeOK, DiskSound
<1>10. OneFdPerFile'
  BY <1>2, <1>7 DEF Books, OneFdPerFile
<1>11. PinAccounting'
  <2> HIDE DEF k
  <2>1. held[k] = 0
    BY <1>2, <1>4
  <2> QED
    BY <1>2, <1>4, <1>5, <1>8, <2>1 DEF Books, PinAccounting
<1>12. HeadersSound' /\ CountedPagesExist'
  <2> SUFFICES ASSUME NEW g \in Fd, IsOpen(g)'
               PROVE  HeaderOK(FileHeader(g))' /\ AllExist(FileHeader(g), file[g])'
    BY <1>4, HeadersFromDisk DEF DiskSound
  <2>1. CASE g = fd
    <3>1. FileHeader(g)' = d /\ file'[g] = f
      BY <1>6, <1>7, <2>1 DEF FileHeader, HeaderFrame
    <3> QED
      BY <1>3, <1>4, <3>1 DEF Keeps, AllExist, HeaderOK
  <2>2. CASE g # fd
    <3>1. IsOpen(g) /\ file'[g] = file[g] /\ HeaderFrame(g) \in Cached \ E /\ HeaderFrame(g) # k
      BY <1>4, <1>7, <2>2 DEF HeaderFrame
    <3>2. FileHeader(g)' = FileHeader(g)
      BY <1>5, <3>1 DEF FileHeader, HeaderFrame
    <3> QED
      BY <1>4, <3>1, <3>2, SameHeader
  <2> QED
    BY <2>1, <2>2
<1>13. DisposalPending'
  <2> SUFFICES ASSUME NEW g \in Fd, NEW q \in disposed[g]
               PROVE  /\ IsOpen(g)'
                      /\ q \in FileHeader(g)'.bitmap \ {HeaderPage}
                      /\ held'[<<g, q>>] > 0
    BY <1>2 DEF DisposalPending
  <2>1. IsOpen(g) /\ q \in FileHeader(g).bitmap \ {HeaderPage} /\ held[<<g, q>>] > 0
    BY DEF Books, DisposalPending
  <2>2. HeaderFrame(g) \in Cached \ E /\ HeaderFrame(g) # k
    BY <1>2, <1>4, <2>1 DEF HeaderFrame
  <2>3. FileHeader(g)' = FileHeader(g)
    BY <1>5, <2>2 DEF FileHeader, HeaderFrame
  <2> QED
    BY <1>2, <1>7, <2>1, <2>3
<1> QED
  BY <1>9, <1>10, <1>11, <1>12, <1>13 DEF Books

\* closing changes nothing but the marks of the frames it leaves
LEMMA LeftFrames ==
  ASSUME Books, NEW fd \in Fd, frames' = LeftBehind(fd)
  PROVE  /\ Cached' = Cached \ {HeaderFrame(fd)}
         /\ frames' \in [Cached' -> Frame]
         /\ \A j \in Cached \ {HeaderFrame(fd)} :
              /\ frames'[j].pin = frames[j].pin /\ frames'[j].data = frames[j].data
              /\ frames'[j].dirty = frames[j].dirty
              /\ frames'[j].left <=> frames[j].left \/ j[1] = fd
<1>1. Cached' = Cached \ {HeaderFrame(fd)}
  BY DEF LeftBehind, Cached
<1>2. ASSUME NEW j \in Cached \ {HeaderFrame(fd)}
      PROVE  /\ frames'[j] \in Frame
             /\ frames'[j].pin = frames[j].pin /\ frames'[j].data = frames[j].data
             /\ frames'[j].dirty = frames[j].dirty
             /\ frames'[j].left <=> frames[j].left \/ j[1] = fd
  <2>1. frames[j] \in Frame
    BY CachedPins
  <2>2. frames'[j] = [frames[j] EXCEPT !.left = @ \/ j[1] = fd]
    BY DEF LeftBehind
  <2> QED
    BY <2>1, <2>2 DEF Frame
<1> QED
  BY <1>1, <1>2 DEF LeftBehind

LEMMA CloseFileBooks ==
  ASSUME Books, NEW fd \in Fd, CloseFile(fd)
  PROVE  Books'
<1> DEFINE k == HeaderFrame(fd)
<1>1. /\ IsOpen(fd) /\ frames[k].pin = 1
      /\ disk' = Flushed(Dirty({k}))
      /\ frames' = LeftBehind(fd)
      /\ recency' = Without(recency, {k})
      /\ disposed' = [disposed EXCEPT ![fd] = {}]
      /\ file' = [file EXCEPT ![fd] = NoFile]
      /\ held' = held
      /\ k \in FrameId /\ k[1] = fd /\ k[2] = HeaderPage
  BY PageIds DEF CloseFile, HeaderFrame, FrameId
<1>2. k \in Cached /\ held[k] = 0
  BY <1>1, ResidentHeader, CachedPins DEF OwnPin
<1>3. DiskSound(disk') /\ Keeps(disk')
  <2>1. Dirty({k}) \subseteq Cached
    BY <1>2 DEF Dirty
  <2> QED
    BY <1>1, <2>1, FlushedDisk
<1>4. /\ Cached' = Cached \ {k}
      /\ frames' \in [Cached' -> Frame]
      /\ \A j \in Cached \ {k} : frames'[j].pin = frames[j].pin /\ frames'[j].data = frames[j].data
  BY <1>1, LeftFrames
<1>5. /\ \A g \in Fd : file'[g] = IF g = fd THEN NoFile ELSE file[g]
      /\ \A g \in Fd : IsOpen(g)' <=> g # fd /\ IsOpen(g)
  BY <1>1 DEF Books, TypeOK, IsOpen
<1>6. \A j \in FrameId : OwnPin(j)' = IF j = k THEN 0 ELSE OwnPin(j)
  <2> TAKE j \in FrameId
  <2>1. j[1] \in Fd /\ (j = k <=> j[1] = fd /\ j[2] = HeaderPage)
    BY DEF FrameId, HeaderFrame
  <2> QED
    BY <1>5, <2>1 DEF OwnPin
<1>7. ASSUME NEW g \in Fd, IsOpen(g)'
      PROVE  IsOpen(g) /\ g # fd /\ file'[g] = file[g] /\ FileHeader(g)' = FileHeader(g)
  <2>1. IsOpen(g) /\ g # fd /\ file'[g] = file[g]
    BY <1>5, <1>7
  <2>2. HeaderFrame(g) \in Cached \ {k}
    BY <2>1, ResidentHeader DEF HeaderFrame
  <2> QED
    BY <1>4, <2>1, <2>2 DEF FileHeader, HeaderFrame
<1>8. TypeOK'
  <2>1. recency' \subseteq FrameId \X FrameId
    BY <1>1, RecencyType DEF Books, TypeOK
  <2>2. file' \in [Fd -> File \cup {NoFile}] /\ disposed' \in [Fd -> SUBSET PageId]
    BY <1>1 DEF Books, TypeOK
  <2> QED
    BY <1>1, <1>3, <1>4, <2>1, <2>2 DEF Books, TypeOK, DiskSound
<1>9. OneFdPerFile'
  <2> SUFFICES ASSUME NEW a \in Fd, NEW b \in Fd, IsOpen(a)', file'[a] = file'[b]
               PROVE  a = b
    BY DEF OneFdPerFile
  <2>1. IsOpen(b)'
    BY DEF IsOpen
  <2> QED
    BY <1>7, <2>1 DEF Books, OneFdPerFile
<1>10. PinAccounting'
  <2> HIDE DEF k
  <2> QED
    BY <1>1, <1>2, <1>4, <1>6 DEF Books, PinAccounting
<1>11. HeadersSound' /\ CountedPagesExist'
  <2>1. \A g \in Fd : IsOpen(g)' => HeaderOK(FileHeader(g))' /\ AllExist(FileHeader(g), file[g])'
    BY <1>3, <1>7, SameHeader
  <2> QED
    BY <1>3, <2>1, HeadersFromDisk DEF DiskSound
<1>12. DisposalPending'
  <2> SUFFICES ASSUME NEW g \in Fd, NEW q \in disposed'[g]
               PROVE  /\ IsOpen(g)'
                      /\ q \in FileHeader(g)'.bitmap \ {HeaderPage}
                      /\ held'[<<g, q>>] > 0
    BY DEF DisposalPending
  <2>1. g # fd /\ q \in disposed[g]
    BY <1>1 DEF Books, TypeOK
  <2>2. IsOpen(g) /\ q \in FileHeader(g).bitmap \ {HeaderPage} /\ held[<<g, q>>] > 0
    BY <2>1 DEF Books, DisposalPending
  <2> QED
    BY <1>1, <1>5, <1>7, <2>1, <2>2
<1> QED
  BY <1>8, <1>9, <1>10, <1>11, <1>12 DEF Books

\* no open file is deleted
LEMMA RemoveFileBooks ==
  ASSUME Books, NEW f \in File, RemoveFile(f)
  PROVE  Books'
<1>1. /\ \A g \in Fd : file[g] # f
      /\ disk' = [disk EXCEPT ![f] = [p \in PageId |-> Absent]]
      /\ UNCHANGED <<file, frames, recency, disposed, held>> /\ Cached' = Cached
  BY DEF RemoveFile, Cached
<1>2. /\ \A g \in File \ {f} : disk'[g] = disk[g]
      /\ disk'[f][HeaderPage] = Absent
  BY <1>1, PageIds DEF Books, TypeOK
<1>3. TypeOK'
  BY <1>1 DEF Books, TypeOK
<1>4. OneFdPerFile' /\ PinAccounting' /\ DisposalPending'
  BY <1>1 DEF Books, OneFdPerFile, PinAccounting, DisposalPending, IsOpen, OwnPin, FileHeader
<1>5. ASSUME NEW g \in Fd, IsOpen(g)
      PROVE  /\ file'[g] = file[g] /\ disk'[file[g]] = disk[file[g]]
             /\ FileHeader(g)' = FileHeader(g)
  BY <1>1, <1>2, <1>5, ResidentHeader DEF FileHeader
<1>6. HeadersSound'
  BY <1>1, <1>2, <1>5 DEF Books, HeadersSound, IsOpen
<1>7. CountedPagesExist'
  BY <1>1, <1>2, <1>5 DEF Books, CountedPagesExist, AllExist, IsOpen
<1> QED
  BY <1>3, <1>4, <1>6, <1>7 DEF Books

LEMMA RestartedBooks ==
  ASSUME DiskSound(disk)', Restarted
  PROVE  Books'
<1>1. /\ Cached' = {} /\ frames' \in [Cached' -> Frame] /\ recency' = {}
      /\ file' = [fd \in Fd |-> NoFile]
      /\ disposed' = [fd \in Fd |-> {}]
      /\ held' = [k \in FrameId |-> 0]
  BY DEF Restarted, Cached
<1>2. \A fd \in Fd : ~IsOpen(fd)'
  BY <1>1 DEF IsOpen
<1>3. \A k \in FrameId : OwnPin(k)' = 0
  BY <1>2 DEF OwnPin, FrameId
<1>4. TypeOK'
  BY <1>1 DEF TypeOK, DiskSound
<1>5. OneFdPerFile' /\ PinAccounting' /\ DisposalPending'
  BY <1>1, <1>2, <1>3 DEF OneFdPerFile, PinAccounting, DisposalPending
<1>6. HeadersSound' /\ CountedPagesExist'
  BY <1>2, HeadersFromDisk
<1> QED
  BY <1>4, <1>5, <1>6 DEF Books

LEMMA RestartBooks ==
  ASSUME Books, Shutdown \/ Crash
  PROVE  Books'
<1>1. DiskSound(disk)'
  <2>1. CASE Shutdown
    BY <2>1, FlushedDisk, {k \in Cached : IsOpen(k[1])} \subseteq Cached DEF Shutdown, DiskSound
  <2>2. CASE Crash
    BY <2>2, SoundDisk DEF Crash, DiskSound
  <2> QED
    BY <2>1, <2>2
<1> QED
  BY <1>1, RestartedBooks DEF Shutdown, Crash

LEMMA BooksInit == Init => Books
<1> SUFFICES ASSUME Init PROVE Books
  OBVIOUS
<1>1. /\ Cached = {} /\ frames \in [Cached -> Frame]
      /\ \A fd \in Fd : ~IsOpen(fd)
      /\ \A f \in File : disk[f][HeaderPage] = Absent
  BY PageIds DEF Init, Cached, IsOpen
<1>2. \A k \in FrameId : OwnPin(k) = 0
  BY <1>1 DEF OwnPin, FrameId
<1>3. TypeOK
  BY <1>1 DEF Init, TypeOK
<1> QED
  BY <1>1, <1>2, <1>3
  DEF Init, Books, OneFdPerFile, PinAccounting, HeadersSound, CountedPagesExist, DisposalPending

LEMMA BooksStep ==
  ASSUME Books, [Next]_vars
  PROVE  Books'
<1>1. CASE UNCHANGED vars
  BY <1>1 DEF vars, Books, TypeOK, Cached, OneFdPerFile, IsOpen, PinAccounting, OwnPin,
              HeadersSound, FileHeader, CountedPagesExist, AllExist, DisposalPending
<1>2. ASSUME NEW f \in File, CreateFile(f) PROVE Books'
  BY <1>2, CreateFileBooks
<1>3. ASSUME NEW f \in File, NEW fd \in Fd, OpenFile(f, fd) \/ OpenFileFails(f, fd) PROVE Books'
  BY <1>3, OpenFileBooks, OpenFileFailsBooks
<1>4. ASSUME NEW fd \in Fd,
             \/ FlushAllPages(fd) \/ CloseFile(fd)
             \/ AllocatePageExtends(fd) \/ AllocatePageExtendFails(fd)
      PROVE  Books'
  BY <1>4, FlushAllPagesBooks, CloseFileBooks, AllocatePageExtendsBooks, AllocatePageExtendFailsBooks
<1>5. ASSUME NEW fd \in Fd, NEW p \in PageId \ {HeaderPage},
             GetPageHit(fd, p) \/ GetPageMiss(fd, p) \/ GetPageFails(fd, p)
      PROVE  Books'
  BY <1>5, GetPageHitBooks, GetPageMissBooks, GetPageFailsBooks
<1>6. ASSUME NEW fd \in Fd, NEW p \in PageId \ {HeaderPage},
             \/ AllocatePageReusesHit(fd, p)
             \/ AllocatePageReusesMiss(fd, p)
             \/ AllocatePageReusesFails(fd, p)
      PROVE  Books'
  BY <1>6, AllocatePageReusesHitBooks, AllocatePageReusesMissBooks, AllocatePageReusesFailsBooks
<1>7. ASSUME NEW fd \in Fd, NEW p \in PageId \ {HeaderPage}, NEW v \in Value,
             WritePage(fd, p, v) \/ FormatPage(fd, p, v)
      PROVE  Books'
  BY <1>7, WritePageBooks
<1>8. ASSUME NEW fd \in Fd, NEW p \in PageId \ {HeaderPage}, p \in FileHeader(fd).bitmap,
             DisposePage(fd, p) \/ DisposePageLater(fd, p)
      PROVE  Books'
  BY <1>8, DisposePageBooks, DisposePageLaterBooks
<1>9. ASSUME NEW fd \in Fd, NEW p \in PageId \ {HeaderPage},
             UnpinPage(fd, p) \/ UnpinPageDisposes(fd, p)
      PROVE  Books'
  BY <1>9, UnpinPageBooks, UnpinPageDisposesBooks
<1>10. CASE Shutdown \/ Crash
  BY <1>10, RestartBooks
<1>11. ASSUME NEW f \in File, RemoveFile(f) PROVE Books'
  BY <1>11, RemoveFileBooks
<1> QED
  BY <1>1, <1>2, <1>3, <1>4, <1>5, <1>6, <1>7, <1>8, <1>9, <1>10, <1>11 DEF Next, OpNext

THEOREM BooksBalance == Spec => []Books
BY BooksInit, BooksStep, PTL DEF Spec

-----------------------------------------------------------------------------
(* No lost update.  A clean frame agrees with the disk unless an earlier   *)
(* file of its descriptor left it, and every frame such a file leaves is   *)
(* marked as left.                                                         *)

\* a frame whose descriptor is closed is one a file left
StraysMarked == \A k \in Cached : ~IsOpen(k[1]) => frames[k].left

\* a written page reads back; the pages of the other frames stay
LEMMA FlushedOwnPage ==
  ASSUME Books, NEW S, S \subseteq Cached, NEW j \in FrameId, IsOpen(j[1])
  PROVE  Flushed(S)[file[j[1]]][j[2]] = IF j \in S THEN frames[j].data ELSE disk[file[j[1]]][j[2]]
<1>1. j[1] \in Fd /\ j[2] \in PageId /\ file[j[1]] \in File
  BY ResidentHeader DEF FrameId
<1>2. ASSUME NEW i \in S, Backs(i, file[j[1]], j[2]) PROVE i = j
  <2>1. i \in FrameId /\ i[1] \in Fd /\ IsOpen(i[1])
    BY <1>2 DEF Books, TypeOK, FrameId, Backs, IsOpen
  <2>2. i[1] = j[1] /\ i[2] = j[2]
    BY <1>1, <1>2, <2>1 DEF Books, OneFdPerFile, Backs
  <2> QED
    BY <2>1, <2>2 DEF FrameId
<1>3. CASE j \in S
  <2>1. Backs(j, file[j[1]], j[2])
    BY DEF Backs
  <2> QED
    BY <1>1, <1>2, <1>3, <2>1 DEF Flushed
<1>4. CASE j \notin S
  BY <1>1, <1>2, <1>4 DEF Flushed
<1> QED
  BY <1>3, <1>4

LEMMA FlushedClean ==
  ASSUME Books, CleanFramesMatchDisk, NEW S, S \subseteq Cached,
         NEW j \in Cached, IsOpen(j[1]), ~frames[j].dirty, ~frames[j].left
  PROVE  Flushed(S)[file[j[1]]][j[2]] = frames[j].data
<1>1. j \in FrameId /\ frames[j].data = disk[file[j[1]]][j[2]]
  BY DEF Books, TypeOK, CleanFramesMatchDisk
<1> QED
  BY <1>1, FlushedOwnPage

\* evictions and write-backs, while at most k and h get new contents
LEMMA CleanAfterFlush ==
  ASSUME Books, CleanFramesMatchDisk, NEW S, S \subseteq Cached,
         disk' = Flushed(S), file' = file,
         NEW k, NEW h,
         \A j \in Cached' : j # k /\ j # h =>
           /\ j \in Cached /\ frames'[j].data = frames[j].data
           /\ frames'[j].dirty = frames[j].dirty /\ frames'[j].left = frames[j].left,
         h \in Cached' /\ IsOpen(h[1]) /\ h # k => frames'[h].dirty,
         k \in Cached' /\ IsOpen(k[1]) => frames'[k].dirty \/ frames'[k].data = disk'[file[k[1]]][k[2]]
  PROVE  CleanFramesMatchDisk'
<1> SUFFICES ASSUME NEW j \in Cached', IsOpen(j[1])', ~frames'[j].dirty, ~frames'[j].left
             PROVE  frames'[j].data = disk'[file'[j[1]]][j[2]]
  BY DEF CleanFramesMatchDisk
<1>1. IsOpen(j[1])
  BY DEF IsOpen
<1>2. CASE j = k
  BY <1>1, <1>2
<1>3. CASE j # k
  <2>1. j # h
    BY <1>1, <1>3
  <2>2. /\ j \in Cached /\ frames'[j].data = frames[j].data
        /\ ~frames[j].dirty /\ ~frames[j].left
    BY <1>3, <2>1
  <2> QED
    BY <1>1, <2>2, FlushedClean
<1> QED
  BY <1>2, <1>3

LEMMA CreateFileClean ==
  ASSUME Books, CleanFramesMatchDisk, NEW f \in File, CreateFile(f)
  PROVE  CleanFramesMatchDisk'
<1>1. /\ \A p \in PageId : disk[f][p] = Absent
      /\ disk' = [disk EXCEPT ![f][HeaderPage] = EmptyHeader]
      /\ UNCHANGED <<file, frames>> /\ Cached' = Cached
  BY DEF CreateFile, Cached
<1> SUFFICES ASSUME NEW j \in Cached, IsOpen(j[1]), ~frames[j].dirty, ~frames[j].left
             PROVE  frames[j].data = disk'[file[j[1]]][j[2]]
  BY <1>1 DEF CleanFramesMatchDisk, IsOpen
<1>2. j[1] \in Fd /\ j[2] \in PageId
  BY DEF Books, TypeOK, FrameId
<1>3. file[j[1]] \in File /\ disk[file[j[1]]][HeaderPage] # Absent
  <2>1. /\ FileHeader(j[1]) \in Header
        /\ \A p \in 0 .. FileHeader(j[1]).pages - 1 : disk[file[j[1]]][p] # Absent
    BY <1>2, ResidentHeader
  <2>2. HeaderPage \in 0 .. FileHeader(j[1]).pages - 1
    BY <2>1 DEF Header, HeaderPage
  <2> QED
    BY <1>2, <2>1, <2>2, ResidentHeader
<1>4. file[j[1]] # f
  BY <1>1, <1>3, PageIds
<1>5. disk'[file[j[1]]] = disk[file[j[1]]]
  BY <1>1, <1>3, <1>4 DEF Books, TypeOK
<1> QED
  BY <1>5 DEF CleanFramesMatchDisk

LEMMA OpenFileClean ==
  ASSUME Books, CleanFramesMatchDisk, StraysMarked,
         NEW f \in File, NEW fd \in Fd, OpenFile(f, fd)
  PROVE  CleanFramesMatchDisk'
<1> DEFINE k == HeaderFrame(fd)
<1>1. PICK E, d : /\ d = disk[f][HeaderPage]
                  /\ Granted(k, E)
                  /\ disk' = Flushed(Dirty(E))
                  /\ frames' = Installed(k, E, NewFrame(d, 1))
  BY DEF OpenFile
<1>2. /\ ~IsOpen(fd) /\ disk[f][HeaderPage] # Absent
      /\ \A g \in Fd : file[g] # f
      /\ \A j \in Cached : j[1] = fd => frames[j].left
      /\ file' = [file EXCEPT ![fd] = f]
      /\ k \in FrameId /\ k[1] = fd /\ k[2] = HeaderPage
  BY PageIds DEF OpenFile, Opens, HeaderFrame, FrameId, StraysMarked
<1>3. d \in Content /\ Dirty(E) \subseteq Cached
  <2>1. E \subseteq Unpinned
    BY <1>1, <1>2, GrantedFree
  <2>2. Dirty(E) \subseteq Cached
    BY <2>1 DEF Dirty, Unpinned
  <2> QED
    BY <1>1, <1>2, <2>2, PageIds DEF Books, TypeOK
<1>4. /\ Cached' = (Cached \ E) \cup {k}
      /\ frames'[k].data = d
      /\ \A j \in Cached \ E : j # k => frames'[j] = frames[j]
  BY <1>1, <1>2, <1>3, InstalledFrames
<1>5. disk'[f][HeaderPage] = d
  <2>1. ASSUME NEW i \in Dirty(E), Backs(i, f, HeaderPage) PROVE FALSE
    BY <1>2, <1>3, <2>1 DEF Backs, Books, TypeOK, FrameId
  <2>2. disk'[f][HeaderPage] = disk[f][HeaderPage]
    BY <1>1, <1>3, <2>1, FlushedPage, PageIds
  <2> QED
    BY <1>1, <2>2
<1> SUFFICES ASSUME NEW j \in Cached', IsOpen(j[1])', ~frames'[j].dirty, ~frames'[j].left
             PROVE  frames'[j].data = disk'[file'[j[1]]][j[2]]
  BY DEF CleanFramesMatchDisk
<1>6. CASE j = k
  BY <1>2, <1>4, <1>5, <1>6 DEF Books, TypeOK
<1>7. CASE j # k
  <2>1. j \in Cached /\ frames'[j] = frames[j] /\ j[1] # fd /\ j[1] \in Fd
    BY <1>2, <1>4, <1>7 DEF Books, TypeOK, FrameId
  <2>2. file'[j[1]] = file[j[1]] /\ IsOpen(j[1])
    BY <1>2, <2>1 DEF Books, TypeOK, IsOpen
  <2> QED
    BY <1>1, <1>3, <2>1, <2>2, FlushedClean
<1> QED
  BY <1>6, <1>7

\* refused allocations, failed loads: frames are evicted, no more
LEMMA EvictedClean ==
  ASSUME Books, CleanFramesMatchDisk, NEW E, E \subseteq Unpinned,
         disk' = Flushed(Dirty(E)), frames' = Remaining(E), file' = file
  PROVE  CleanFramesMatchDisk'
<1>1. /\ Cached' = Cached \ E
      /\ \A j \in Cached \ E : frames'[j] = frames[j]
  BY RemainingFrames
<1>2. Dirty(E) \subseteq Cached
  BY DEF Dirty, Unpinned
<1> SUFFICES ASSUME NEW j \in Cached', IsOpen(j[1])', ~frames'[j].dirty, ~frames'[j].left
             PROVE  frames'[j].data = disk'[file'[j[1]]][j[2]]
  BY DEF CleanFramesMatchDisk
<1>3. j \in Cached /\ frames'[j] = frames[j] /\ IsOpen(j[1])
  BY <1>1 DEF IsOpen
<1> QED
  BY <1>2, <1>3, FlushedClean

LEMMA FailureClean ==
  ASSUME Books, CleanFramesMatchDisk, NEW fd \in Fd, NEW p \in PageId, NEW f \in File,
         OpenFileFails(f, fd) \/ GetPageFails(fd, p) \/ AllocatePageExtendFails(fd)
  PROVE  CleanFramesMatchDisk'
<1>1. file' = file
  BY DEF OpenFileFails, GetPageFails, AllocatePageExtendFails
<1>2. PICK k, E : /\ Refused(k, E) \/ Granted(k, E)
                  /\ disk' = Flushed(Dirty(E))
                  /\ frames' = Remaining(E)
  BY DEF OpenFileFails, GetPageFails, AllocatePageExtendFails
<1>3. E \subseteq Unpinned
  BY <1>2, RefusedEvicts
<1> QED
  BY <1>1, <1>2, <1>3, EvictedClean

LEMMA GetPageMissClean ==
  ASSUME Books, CleanFramesMatchDisk, NEW fd \in Fd, NEW p \in PageId, GetPageMiss(fd, p)
  PROVE  CleanFramesMatchDisk'
<1> DEFINE k == <<fd, p>>
<1>1. PICK E, d : /\ d = disk[file[fd]][p]
                  /\ Granted(k, E)
                  /\ disk' = Flushed(Dirty(E))
                  /\ frames' = Installed(k, E, NewFrame(d, 1))
  BY DEF GetPageMiss
<1>2. /\ IsOpen(fd) /\ k \in FrameId /\ k \notin Cached /\ k[1] = fd /\ k[2] = p
      /\ disk[file[fd]][p] # Absent
      /\ file' = file
  BY DEF GetPageMiss, FrameId
<1>3. d \in Content
  BY <1>1, <1>2, ResidentHeader DEF Books, TypeOK
<1>4. Dirty(E) \subseteq Cached /\ k \notin Dirty(E)
  <2>1. E \subseteq Unpinned
    BY <1>1, <1>2, GrantedFree
  <2> QED
    BY <1>2, <2>1 DEF Dirty, Unpinned
<1>5. /\ Cached' = (Cached \ E) \cup {k}
      /\ frames'[k].data = d
      /\ \A j \in Cached \ E : j # k => frames'[j] = frames[j]
  BY <1>1, <1>2, <1>3, InstalledFrames
<1>6. frames'[k].data = disk'[file[k[1]]][k[2]]
  BY <1>1, <1>2, <1>4, <1>5, FlushedOwnPage
<1> HIDE DEF k
<1> QED
  BY <1>1, <1>2, <1>4, <1>5, <1>6, CleanAfterFlush

LEMMA AllocatePageReusesMissClean ==
  ASSUME Books, CleanFramesMatchDisk, NEW fd \in Fd, NEW p \in PageId \ {HeaderPage},
         AllocatePageReusesMiss(fd, p)
  PROVE  CleanFramesMatchDisk'
<1> DEFINE k == <<fd, p>>
           h == HeaderFrame(fd)
<1>1. PICK E, d, m : /\ d = disk[file[fd]][p]
                     /\ m = Marked(fd, p, FileHeader(fd).pages)
                     /\ Granted(k, E)
                     /\ disk' = Flushed(Dirty(E))
                     /\ frames' = [Installed(k, E, NewFrame(d, 1)) EXCEPT ![h] = m]
  BY DEF AllocatePageReusesMiss
<1>2. /\ IsOpen(fd) /\ Reusable(fd, p) /\ file' = file
      /\ k \in FrameId /\ k \notin Cached /\ k[1] = fd /\ k[2] = p
  BY DEF AllocatePageReusesMiss, FrameId
<1>3. /\ p \notin FileHeader(fd).bitmap
      /\ FileHeader(fd).pages \in 1 .. MaxPages
      /\ p < FileHeader(fd).pages
      /\ d \in Content
  BY <1>1, <1>2, ReusableBit
<1>4. /\ Dirty(E) \subseteq Cached /\ k \notin Dirty(E)
      /\ h \in Cached \ E /\ h # k
  <2>1. E \subseteq Unpinned
    BY <1>1, <1>2, GrantedFree
  <2> QED
    BY <1>2, <2>1, EvictedFree DEF Dirty, Unpinned, HeaderFrame
<1>5. m \in Frame /\ m.dirty
  BY <1>1, <1>2, <1>3, MarkedHeader
<1>6. /\ Cached' = (Cached \ E) \cup {k}
      /\ frames'[k].data = d
      /\ frames'[h] = m
      /\ \A j \in Cached \ E : j # k /\ j # h => frames'[j] = frames[j]
  <2>1. InstallsAndMarks(k, E, d, h, m)
    BY <1>1 DEF InstallsAndMarks
  <2> HIDE DEF k, h
  <2>2. GrantsAndMarks(k, E, d, h, m)
    BY <1>2, <1>3, <1>4, <1>5, <2>1, InstalledFramesAndHeader
  <2> QED
    BY <2>2 DEF GrantsAndMarks
<1>7. frames'[k].data = disk'[file[k[1]]][k[2]]
  BY <1>1, <1>2, <1>4, <1>6, FlushedOwnPage
<1> HIDE DEF k, h
<1> QED
  BY <1>1, <1>2, <1>4, <1>5, <1>6, <1>7, CleanAfterFlush

\* the frames after an eviction, or a purge, and a change of the header
LEMMA RemainsClean ==
  ASSUME Books, CleanFramesMatchDisk, NEW E, NEW S, S \subseteq Cached, disk' = Flushed(S),
         NEW h \in Cached \ E, NEW m \in Frame, m.dirty, RemainsAndMarks(E, h, m), file' = file
  PROVE  CleanFramesMatchDisk'
<1>1. /\ Cached' = Cached \ E
      /\ frames'[h] = m
      /\ \A j \in Cached \ E : j # h => frames'[j] = frames[j]
  BY RemainingFramesAndHeader
<1> SUFFICES ASSUME NEW j \in Cached', IsOpen(j[1])', ~frames'[j].dirty, ~frames'[j].left
             PROVE  frames'[j].data = disk'[file'[j[1]]][j[2]]
  BY DEF CleanFramesMatchDisk
<1>2. j \in Cached /\ frames'[j] = frames[j] /\ IsOpen(j[1])
  BY <1>1 DEF IsOpen
<1> QED
  BY <1>2, FlushedClean

LEMMA AllocatePageReusesFailsClean ==
  ASSUME Books, CleanFramesMatchDisk, NEW fd \in Fd, NEW p \in PageId, AllocatePageReusesFails(fd, p)
  PROVE  CleanFramesMatchDisk'
<1> DEFINE h == HeaderFrame(fd)
<1>1. PICK E, m : /\ m = Marked(fd, p, FileHeader(fd).pages)
                  /\ Refused(<<fd, p>>, E)
                  /\ disk' = Flushed(Dirty(E))
                  /\ frames' = [Remaining(E) EXCEPT ![h] = m]
  BY DEF AllocatePageReusesFails
<1>2. IsOpen(fd) /\ Reusable(fd, p) /\ file' = file
  BY DEF AllocatePageReusesFails
<1>3. /\ p \notin FileHeader(fd).bitmap
      /\ FileHeader(fd).pages \in 1 .. MaxPages
      /\ p < FileHeader(fd).pages
  BY <1>2, ReusableBit
<1>4. m \in Frame /\ m.dirty
  BY <1>1, <1>2, <1>3, MarkedHeader
<1>5. Dirty(E) \subseteq Cached /\ h \in Cached \ E
  <2>1. E \subseteq Unpinned
    BY <1>1, RefusedEvicts
  <2> QED
    BY <1>2, <2>1, EvictedFree DEF Dirty, Unpinned
<1>6. RemainsAndMarks(E, h, m)
  BY <1>1 DEF RemainsAndMarks
<1> HIDE DEF h
<1> QED
  BY <1>1, <1>2, <1>4, <1>5, <1>6, RemainsClean

LEMMA PurgedClean ==
  ASSUME Books, CleanFramesMatchDisk, NEW fd \in Fd, IsOpen(fd),
         NEW p \in FileHeader(fd).bitmap, p # HeaderPage, Purged(fd, p), file' = file
  PROVE  CleanFramesMatchDisk'
<1> DEFINE k == <<fd, p>>
           h == HeaderFrame(fd)
<1>1. PICK m : m = Cleared(fd, p)
  OBVIOUS
<1>2. /\ disk' = Flushed(Dirty({k} \cap Cached))
      /\ RemainsAndMarks({k}, h, m)
  BY <1>1 DEF Purged, RemainsAndMarks
<1>3. m \in Frame /\ m.dirty
  BY <1>1, ClearedHeader
<1>4. Dirty({k} \cap Cached) \subseteq Cached /\ h \in Cached \ {k}
  BY ResidentHeader DEF Dirty, HeaderFrame
<1> HIDE DEF h, k
<1> QED
  BY <1>2, <1>3, <1>4, RemainsClean

LEMMA AllocatePageExtendsClean ==
  ASSUME Books, CleanFramesMatchDisk, NEW fd \in Fd, AllocatePageExtends(fd)
  PROVE  CleanFramesMatchDisk'
<1> DEFINE h == HeaderFrame(fd)
<1>1. PICK E, p, m : /\ p = FileHeader(fd).pages
                     /\ m = Marked(fd, p, p + 1)
                     /\ Granted(<<fd, p>>, E)
                     /\ disk' = [Flushed(Dirty(E)) EXCEPT ![file[fd]][p] = Zero]
                     /\ frames' = [Installed(<<fd, p>>, E, NewFrame(Zero, 1)) EXCEPT ![h] = m]
                     /\ recency' = GrantedOrder(<<fd, p>>, E)
                     /\ held' = [held EXCEPT ![<<fd, p>>] = @ + 1]
  BY DEF AllocatePageExtends
<1> DEFINE k == <<fd, p>>
<1>2. IsOpen(fd) /\ Extendable(fd) /\ file' = file
  BY DEF AllocatePageExtends
<1>3. file[fd] \in File /\ FileHeader(fd) \in Header /\ HeaderOK(FileHeader(fd))
  BY <1>2, ResidentHeader
<1>4. /\ p \in PageId \ {HeaderPage}
      /\ p + 1 \in 1 .. MaxPages
      /\ p \notin FileHeader(fd).bitmap
      /\ FileHeader(fd).pages <= p + 1 /\ p < p + 1
      /\ k \in FrameId /\ k[1] = fd /\ k[2] = p
  BY <1>1, <1>2, <1>3, MaxPagesAssumption DEF Extendable, HeaderOK, Header, PageId, HeaderPage, FrameId
<1>5. Zero \in Content
  BY DEF Content, Data
<1>6. /\ Dirty(E) \subseteq Cached /\ DiskSound(Flushed(Dirty(E)))
      /\ h \in Cached \ E /\ h # k
  <2>1. E \subseteq Unpinned
    BY <1>1, <1>4, GrantedFree
  <2> QED
    BY <1>2, <1>4, <2>1, EvictedFree DEF Dirty, Unpinned, HeaderFrame
<1>7. \A g \in File, q \in PageId :
        disk'[g][q] = IF g = file[fd] /\ q = p THEN Zero ELSE Flushed(Dirty(E))[g][q]
  <2>1. disk' = Written(Flushed(Dirty(E)), file[fd], p, Zero)
    BY <1>1 DEF Written
  <2> QED
    BY <1>3, <1>4, <1>5, <1>6, <2>1, WrittenDisk
<1>8. m \in Frame /\ m.dirty
  BY <1>1, <1>2, <1>4, MarkedHeader
<1>9. /\ Cached' = (Cached \ E) \cup {k}
      /\ frames'[k].data = Zero
      /\ frames'[h] = m
      /\ \A j \in Cached \ E : j # k /\ j # h => frames'[j] = frames[j]
  <2>1. InstallsAndMarks(k, E, Zero, h, m)
    BY <1>1 DEF InstallsAndMarks
  <2> HIDE DEF k, h
  <2>2. GrantsAndMarks(k, E, Zero, h, m)
    BY <1>4, <1>5, <1>6, <1>8, <2>1, InstalledFramesAndHeader
  <2> QED
    BY <2>2 DEF GrantsAndMarks
<1> SUFFICES ASSUME NEW j \in Cached', IsOpen(j[1])', ~frames'[j].dirty, ~frames'[j].left
             PROVE  frames'[j].data = disk'[file'[j[1]]][j[2]]
  BY DEF CleanFramesMatchDisk
<1>10. IsOpen(j[1]) /\ file' = file
  BY <1>2 DEF IsOpen
<1>11. CASE j = k
  BY <1>3, <1>4, <1>7, <1>9, <1>10, <1>11
<1>12. CASE j # k
  <2>1. j \in Cached /\ frames'[j] = frames[j]
    BY <1>8, <1>9, <1>12
  <2>2. j \in FrameId /\ j[1] \in Fd /\ j[2] \in PageId /\ file[j[1]] \in File
    BY <1>10, <2>1, ResidentHeader DEF Books, TypeOK, FrameId
  <2>3. ~(file[j[1]] = file[fd] /\ j[2] = p)
    BY <1>10, <1>12, <2>2 DEF Books, OneFdPerFile, FrameId
  <2>4. disk'[file[j[1]]][j[2]] = Flushed(Dirty(E))[file[j[1]]][j[2]]
    BY <1>7, <2>2, <2>3
  <2> QED
    BY <1>6, <1>10, <2>1, <2>4, FlushedClean
<1> QED
  BY <1>11, <1>12

LEMMA FlushAllPagesClean ==
  ASSUME Books, CleanFramesMatchDisk, NEW fd \in Fd, FlushAllPages(fd)
  PROVE  CleanFramesMatchDisk'
<1> DEFINE S == {k \in Cached : k[1] = fd}
<1>1. /\ S \subseteq Cached
      /\ disk' = Flushed(S)
      /\ frames' = [k \in Cached |->
           IF k \in S THEN Synced(frames[k]) ELSE frames[k]]
      /\ UNCHANGED file
  BY DEF FlushAllPages
<1> HIDE DEF S
<1> SUFFICES ASSUME NEW j \in Cached', IsOpen(j[1])', ~frames'[j].dirty, ~frames'[j].left
             PROVE  frames'[j].data = disk'[file'[j[1]]][j[2]]
  BY DEF CleanFramesMatchDisk
<1>2. /\ j \in Cached /\ j \in FrameId /\ IsOpen(j[1])
      /\ frames[j] \in Frame
  BY <1>1, CachedPins DEF Cached, IsOpen
<1>3. frames'[j].data = frames[j].data
  BY <1>1, <1>2 DEF Frame, Synced
<1>4. CASE j \in S
  BY <1>1, <1>2, <1>3, <1>4, FlushedOwnPage
<1>5. CASE j \notin S
  <2>1. ~frames[j].dirty /\ ~frames[j].left
    BY <1>1, <1>2, <1>5
  <2> QED
    BY <1>1, <1>2, <1>3, <2>1, FlushedClean
<1> QED
  BY <1>4, <1>5

LEMMA PinnedClean ==
  ASSUME Books, CleanFramesMatchDisk, NEW fd \in Fd, NEW p \in PageId,
         GetPageHit(fd, p) \/ UnpinPage(fd, p) \/ DisposePageLater(fd, p)
  PROVE  CleanFramesMatchDisk'
<1>1. UNCHANGED <<file, disk>>
  BY DEF GetPageHit, UnpinPage, DisposePageLater
<1>2. Cached' = Cached /\ \A j \in Cached :
        /\ frames'[j].data = frames[j].data
        /\ frames'[j].dirty = frames[j].dirty /\ frames'[j].left = frames[j].left
  <2>1. \A j \in Cached : frames[j] \in Frame
    BY CachedPins
  <2> QED
    BY <2>1 DEF GetPageHit, UnpinPage, DisposePageLater, Cached, Frame
<1> QED
  BY <1>1, <1>2 DEF CleanFramesMatchDisk, IsOpen

LEMMA AllocatePageReusesHitClean ==
  ASSUME Books, CleanFramesMatchDisk, NEW fd \in Fd, NEW p \in PageId, AllocatePageReusesHit(fd, p)
  PROVE  CleanFramesMatchDisk'
<1> DEFINE k == <<fd, p>>
           h == HeaderFrame(fd)
<1>1. PICK m : m = Marked(fd, p, FileHeader(fd).pages)
  OBVIOUS
<1>2. /\ k \in FrameId /\ IsOpen(fd) /\ k \in Cached /\ Reusable(fd, p)
      /\ frames' = [frames EXCEPT ![h] = m, ![k].pin = @ + 1]
      /\ UNCHANGED <<file, disk>>
  BY <1>1 DEF AllocatePageReusesHit, FrameId
<1>3. /\ p \notin FileHeader(fd).bitmap
      /\ FileHeader(fd).pages \in 1 .. MaxPages
      /\ p < FileHeader(fd).pages
  BY <1>2, ReusableBit
<1>4. m \in Frame /\ m.dirty
  BY <1>1, <1>2, <1>3, MarkedHeader
<1>5. h # k /\ h \in Cached
  BY <1>2, <1>3, ResidentHeader DEF HeaderOK, HeaderFrame
<1> HIDE DEF k, h
<1>6. /\ Cached' = Cached
      /\ frames'[h] = m
      /\ \A j \in Cached : j # h =>
           /\ frames'[j].data = frames[j].data /\ frames'[j].dirty = frames[j].dirty
           /\ frames'[j].left = frames[j].left
  <2>1. \A j \in Cached : frames[j] \in Frame
    BY CachedPins
  <2> QED
    BY <1>2, <1>5, <2>1 DEF Cached, Frame
<1> QED
  BY <1>2, <1>4, <1>6 DEF CleanFramesMatchDisk, IsOpen

LEMMA WritePageClean ==
  ASSUME Books, CleanFramesMatchDisk, NEW fd \in Fd, NEW p \in PageId, NEW v \in Value, WritePage(fd, p, v)
  PROVE  CleanFramesMatchDisk'
<1> DEFINE k == <<fd, p>>
<1>1. /\ k \in FrameId /\ k \in Cached
      /\ frames' = [frames EXCEPT ![k].data = v, ![k].dirty = TRUE]
      /\ UNCHANGED <<file, disk>>
  BY HeldCached DEF WritePage, FrameId
<1> HIDE DEF k
<1>2. /\ Cached' = Cached
      /\ frames'[k].dirty
      /\ \A j \in Cached : j # k => frames'[j] = frames[j]
  <2>1. frames[k] \in Frame
    BY <1>1, CachedPins
  <2> QED
    BY <1>1, <2>1 DEF Cached, Frame
<1> QED
  BY <1>1, <1>2 DEF CleanFramesMatchDisk, IsOpen

LEMMA FormatPageClean ==
  ASSUME Books, CleanFramesMatchDisk, NEW fd \in Fd, NEW p \in PageId \ {HeaderPage},
         NEW v \in Value, FormatPage(fd, p, v)
  PROVE  CleanFramesMatchDisk'
<1> DEFINE k == <<fd, p>>
<1>1. /\ k \in FrameId /\ k \in Cached /\ IsOpen(fd) /\ k[1] = fd /\ k[2] = p
      /\ frames' = [frames EXCEPT ![k] = Synced([@ EXCEPT !.data = v])]
      /\ disk' = Written(disk, file[fd], p, v)
      /\ file' = file
  BY HeldCached DEF FormatPage, FrameId, Written
<1>2. v \in Content /\ file[fd] \in File /\ DiskSound(disk)
  BY <1>1, ResidentHeader, SoundDisk DEF Content, Data
<1>3. \A g \in File, q \in PageId :
        disk'[g][q] = IF g = file[fd] /\ q = p THEN v ELSE disk[g][q]
  BY <1>1, <1>2, WrittenDisk
<1>4. /\ Cached' = Cached
      /\ frames'[k].data = v
      /\ \A j \in Cached : j # k => frames'[j] = frames[j]
  <2> HIDE DEF k
  <2>1. frames[k] \in Frame
    BY <1>1, CachedPins
  <2> QED
    BY <1>1, <2>1 DEF Cached, Frame, Synced
<1> SUFFICES ASSUME NEW j \in Cached, IsOpen(j[1]), ~frames'[j].dirty, ~frames'[j].left
             PROVE  frames'[j].data = disk'[file[j[1]]][j[2]]
  BY <1>1, <1>4 DEF CleanFramesMatchDisk, IsOpen
<1>5. j \in FrameId /\ j[1] \in Fd /\ j[2] \in PageId /\ file[j[1]] \in File
  BY ResidentHeader DEF Books, TypeOK, FrameId
<1>6. CASE j = k
  BY <1>1, <1>2, <1>3, <1>4, <1>6
<1>7. CASE j # k
  <2>1. ~(file[j[1]] = file[fd] /\ j[2] = p)
    BY <1>1, <1>5, <1>7 DEF Books, OneFdPerFile, FrameId
  <2>2. disk'[file[j[1]]][j[2]] = disk[file[j[1]]][j[2]]
    BY <1>3, <1>5, <2>1
  <2> QED
    BY <1>4, <1>7, <2>2 DEF CleanFramesMatchDisk
<1> QED
  BY <1>6, <1>7

LEMMA DisposedClean ==
  ASSUME Books, CleanFramesMatchDisk, NEW fd \in Fd, NEW p \in PageId \ {HeaderPage},
         \/ p \in FileHeader(fd).bitmap /\ DisposePage(fd, p)
         \/ UnpinPageDisposes(fd, p)
  PROVE  CleanFramesMatchDisk'
<1>1. IsOpen(fd) /\ Purged(fd, p) /\ file' = file
  BY DEF DisposePage, UnpinPageDisposes
<1>2. p \in FileHeader(fd).bitmap
  BY DEF UnpinPageDisposes, Books, DisposalPending
<1> QED
  BY <1>1, <1>2, PurgedClean

LEMMA CloseFileClean ==
  ASSUME Books, CleanFramesMatchDisk, NEW fd \in Fd, CloseFile(fd)
  PROVE  CleanFramesMatchDisk'
<1> DEFINE k == HeaderFrame(fd)
<1>1. /\ IsOpen(fd)
      /\ disk' = Flushed(Dirty({k}))
      /\ frames' = LeftBehind(fd)
      /\ file' = [file EXCEPT ![fd] = NoFile]
  BY DEF CloseFile
<1>2. Dirty({k}) \subseteq Cached
  BY <1>1, ResidentHeader DEF Dirty
<1>3. /\ Cached' = Cached \ {k}
      /\ \A j \in Cached \ {k} :
           /\ frames'[j].data = frames[j].data /\ frames'[j].dirty = frames[j].dirty
           /\ frames[j].left => frames'[j].left
  BY <1>1, LeftFrames
<1> SUFFICES ASSUME NEW j \in Cached', IsOpen(j[1])', ~frames'[j].dirty, ~frames'[j].left
             PROVE  frames'[j].data = disk'[file'[j[1]]][j[2]]
  BY DEF CleanFramesMatchDisk
<1>4. /\ j \in Cached /\ j[1] \in Fd
      /\ frames'[j].data = frames[j].data /\ ~frames[j].dirty /\ ~frames[j].left
  BY <1>3 DEF Books, TypeOK, FrameId
<1>5. file'[j[1]] = file[j[1]] /\ IsOpen(j[1])
  BY <1>1, <1>4 DEF Books, TypeOK, IsOpen
<1> QED
  BY <1>1, <1>2, <1>4, <1>5, FlushedClean

LEMMA RemoveFileClean ==
  ASSUME Books, CleanFramesMatchDisk, NEW f \in File, RemoveFile(f)
  PROVE  CleanFramesMatchDisk'
<1>1. /\ \A g \in Fd : file[g] # f
      /\ disk' = [disk EXCEPT ![f] = [p \in PageId |-> Absent]]
      /\ UNCHANGED <<file, frames>> /\ Cached' = Cached
  BY DEF RemoveFile, Cached
<1> SUFFICES ASSUME NEW j \in Cached, IsOpen(j[1]), ~frames[j].dirty, ~frames[j].left
             PROVE  frames[j].data = disk'[file[j[1]]][j[2]]
  BY <1>1 DEF CleanFramesMatchDisk, IsOpen
<1>2. file[j[1]] \in File /\ file[j[1]] # f
  BY <1>1, ResidentHeader DEF Books, TypeOK, FrameId
<1> QED
  BY <1>1, <1>2 DEF CleanFramesMatchDisk, Books, TypeOK

(***************************************************************************)
(* Calls but for CloseFile neither take the mark off a frame that stays,   *)
(* unless they flush it, nor put one on a frame.                           *)
(***************************************************************************)
MarksKept ==
  /\ \A fd \in Fd : IsOpen(fd) => IsOpen(fd)'
  /\ \A j \in Cached' :
       \/ j \in Cached /\ frames'[j].left = frames[j].left
       \/ IsOpen(j[1])' /\ ~frames'[j].left

\* a frame granted to an open file, or some frames evicted, the header besides
Rewrites(k, E, d, h, m) ==
  \/ frames' = Remaining(E)
  \/ frames' = [Remaining(E) EXCEPT ![h] = m]
  \/ frames' = Installed(k, E, NewFrame(d, 1))
  \/ frames' = [Installed(k, E, NewFrame(d, 1)) EXCEPT ![h] = m]

LEMMA RewrittenMarks ==
  ASSUME file' = file, NEW k, IsOpen(k[1]), NEW E, NEW d,
         NEW h \in Cached, NEW m, m.left = frames[h].left, Rewrites(k, E, d, h, m)
  PROVE  MarksKept
<1>1. ASSUME NEW j \in Cached'
      PROVE  \/ j \in Cached /\ frames'[j].left = frames[j].left
             \/ IsOpen(j[1]) /\ ~frames'[j].left
  <2>1. CASE frames' = Remaining(E)
    BY <2>1 DEF Remaining, Cached
  <2>2. CASE frames' = [Remaining(E) EXCEPT ![h] = m]
    BY <2>2 DEF Remaining, Cached
  <2>3. CASE frames' = Installed(k, E, NewFrame(d, 1))
    BY <2>3 DEF Installed, NewFrame, Cached
  <2>4. CASE frames' = [Installed(k, E, NewFrame(d, 1)) EXCEPT ![h] = m]
    BY <2>4 DEF Installed, NewFrame, Cached
  <2> QED
    BY <2>1, <2>2, <2>3, <2>4 DEF Rewrites
<1> QED
  BY <1>1 DEF MarksKept, IsOpen

\* frames rewritten where they are
LEMMA InPlaceMarks ==
  ASSUME file' = file, Cached' = Cached,
         \A j \in Cached : frames'[j].left = frames[j].left \/ (IsOpen(j[1]) /\ ~frames'[j].left)
  PROVE  MarksKept
BY DEF MarksKept, IsOpen

LEMMA OpenFileMarks ==
  ASSUME Books, NEW f \in File, NEW fd \in Fd, OpenFile(f, fd)
  PROVE  MarksKept
<1>1. PICK E, d : frames' = Installed(HeaderFrame(fd), E, NewFrame(d, 1))
  BY DEF OpenFile
<1>2. /\ file' = [file EXCEPT ![fd] = f] /\ ~IsOpen(fd)
      /\ \A g \in Fd : IsOpen(g) => IsOpen(g)'
      /\ IsOpen(fd)'
  BY NoFileAssumption DEF OpenFile, Opens, Books, TypeOK, IsOpen
<1>3. HeaderFrame(fd)[1] = fd
  BY DEF HeaderFrame
<1> QED
  BY <1>1, <1>2, <1>3 DEF MarksKept, Installed, NewFrame, Cached

LEMMA OperationMarks ==
  ASSUME Books,
         \/ [OpNext]_vars /\ ~Shutdown
         \/ \E fd \in Fd, p \in PageId \ {HeaderPage} :
              GetPageHit(fd, p) \/ GetPageMiss(fd, p) \/ GetPageFails(fd, p)
  PROVE  MarksKept
<1>1. CASE UNCHANGED vars
  BY <1>1 DEF vars, MarksKept, IsOpen, Cached
<1>2. ASSUME NEW f \in File, CreateFile(f) PROVE MarksKept
  BY <1>2 DEF CreateFile, MarksKept, IsOpen, Cached
<1>3. ASSUME NEW fd \in Fd, IsOpen(fd)
      PROVE  /\ HeaderFrame(fd) \in Cached
             /\ \A p, n : Marked(fd, p, n).left = frames[HeaderFrame(fd)].left
             /\ \A p : Cleared(fd, p).left = frames[HeaderFrame(fd)].left
  <2>1. HeaderFrame(fd) \in Cached /\ frames[HeaderFrame(fd)] \in Frame
    BY <1>3, ResidentHeader, CachedPins
  <2> QED
    BY <2>1 DEF Marked, Cleared, Frame
<1>4. ASSUME NEW f \in File, NEW fd \in Fd, OpenFileFails(f, fd) PROVE MarksKept
  <2>1. PICK E : frames' = Remaining(E) /\ file' = file
    BY <1>4 DEF OpenFileFails
  <2> QED
    BY <2>1 DEF Remaining, MarksKept, IsOpen, Cached
<1>5. ASSUME NEW fd \in Fd, FlushAllPages(fd) PROVE MarksKept
  <2>1. /\ IsOpen(fd) /\ file' = file
        /\ frames' = [k \in Cached |->
             IF k \in {i \in Cached : i[1] = fd} THEN Synced(frames[k]) ELSE frames[k]]
    BY <1>5 DEF FlushAllPages
  <2>2. \A j \in Cached : frames[j] \in Frame
    BY CachedPins
  <2>3. ASSUME NEW j \in Cached
        PROVE  frames'[j].left = frames[j].left \/ (IsOpen(j[1]) /\ ~frames'[j].left)
    <3>1. CASE j[1] = fd
      <4>1. frames'[j] = Synced(frames[j])
        BY <2>1, <3>1
      <4> QED
        BY <2>1, <2>2, <3>1, <4>1 DEF Synced, Frame
    <3>2. CASE j[1] # fd
      BY <2>1, <3>2
    <3> QED
      BY <3>1, <3>2
  <2>4. Cached' = Cached
    BY <2>1 DEF Cached
  <2> QED
    BY <2>1, <2>3, <2>4, InPlaceMarks
<1>6. ASSUME NEW fd \in Fd, AllocatePageExtends(fd) \/ AllocatePageExtendFails(fd) PROVE MarksKept
  <2>1. IsOpen(fd) /\ file' = file
    BY <1>6 DEF AllocatePageExtends, AllocatePageExtendFails
  <2> DEFINE p == FileHeader(fd).pages
  <2>2. PICK E : Rewrites(<<fd, p>>, E, Zero, HeaderFrame(fd), Marked(fd, p, p + 1))
    BY <1>6 DEF AllocatePageExtends, AllocatePageExtendFails, Rewrites
  <2>3. IsOpen(<<fd, p>>[1])
    BY <2>1
  <2> HIDE DEF p
  <2> QED
    BY <1>3, <2>1, <2>2, <2>3, RewrittenMarks
<1>7. ASSUME NEW fd \in Fd, NEW p \in PageId \ {HeaderPage},
             \/ GetPageMiss(fd, p) \/ GetPageFails(fd, p)
             \/ AllocatePageReusesMiss(fd, p) \/ AllocatePageReusesFails(fd, p)
      PROVE  MarksKept
  <2>1. IsOpen(fd) /\ file' = file
    BY <1>7 DEF GetPageMiss, GetPageFails, AllocatePageReusesMiss, AllocatePageReusesFails
  <2>2. PICK E, d, n : Rewrites(<<fd, p>>, E, d, HeaderFrame(fd), Marked(fd, p, n))
    BY <1>7 DEF GetPageMiss, GetPageFails, AllocatePageReusesMiss, AllocatePageReusesFails, Rewrites
  <2>3. IsOpen(<<fd, p>>[1])
    BY <2>1
  <2> QED
    BY <1>3, <2>1, <2>2, <2>3, RewrittenMarks
<1>8. ASSUME NEW fd \in Fd, NEW p \in PageId \ {HeaderPage},
             DisposePage(fd, p) \/ UnpinPageDisposes(fd, p)
      PROVE  MarksKept
  <2>1. IsOpen(fd) /\ file' = file
    BY <1>8 DEF DisposePage, UnpinPageDisposes
  <2>2. PICK E : Rewrites(<<fd, p>>, E, Zero, HeaderFrame(fd), Cleared(fd, p))
    BY <1>8 DEF DisposePage, UnpinPageDisposes, Purged, Rewrites
  <2>3. IsOpen(<<fd, p>>[1])
    BY <2>1
  <2> QED
    BY <1>3, <2>1, <2>2, <2>3, RewrittenMarks
<1>9. ASSUME NEW fd \in Fd, NEW p \in PageId \ {HeaderPage},
             \/ GetPageHit(fd, p) \/ UnpinPage(fd, p) \/ DisposePageLater(fd, p)
             \/ AllocatePageReusesHit(fd, p)
             \/ \E v \in Value : WritePage(fd, p, v) \/ FormatPage(fd, p, v)
      PROVE  MarksKept
  <2> DEFINE k == <<fd, p>>
  <2>1. IsOpen(fd) /\ file' = file /\ k[1] = fd /\ k # HeaderFrame(fd)
    BY <1>9 DEF GetPageHit, UnpinPage, DisposePageLater, AllocatePageReusesHit, WritePage, FormatPage,
                HeaderFrame
  <2>2. PICK n, v : \/ frames' = frames
                    \/ frames' = [frames EXCEPT ![k].pin = @ + 1]
                    \/ frames' = [frames EXCEPT ![k].pin = @ - 1]
                    \/ frames' = [frames EXCEPT ![k].data = v, ![k].dirty = TRUE]
                    \/ frames' = [frames EXCEPT ![k] = Synced([@ EXCEPT !.data = v])]
                    \/ frames' = [frames EXCEPT ![HeaderFrame(fd)] = Marked(fd, p, n),
                                                ![k].pin = @ + 1]
    BY <1>9 DEF GetPageHit, UnpinPage, DisposePageLater, AllocatePageReusesHit, WritePage, FormatPage
  <2>3. Cached' = Cached
    BY <2>2 DEF Cached
  <2> HIDE DEF k
  <2>4. ASSUME NEW j \in Cached
        PROVE  frames'[j].left = frames[j].left \/ (IsOpen(j[1]) /\ ~frames'[j].left)
    <3>1. /\ frames \in [Cached -> Frame]
          /\ Marked(fd, p, n).left = frames[HeaderFrame(fd)].left
      BY <1>3, <2>1 DEF Books, TypeOK
    <3>2. CASE j = k
      <4>1. CASE \/ frames' = frames
                 \/ frames' = [frames EXCEPT ![k].pin = @ + 1]
                 \/ frames' = [frames EXCEPT ![k].pin = @ - 1]
                 \/ frames' = [frames EXCEPT ![k].data = v, ![k].dirty = TRUE]
        BY <3>1, <3>2, <4>1 DEF Frame
      <4>2. CASE frames' = [frames EXCEPT ![k] = Synced([@ EXCEPT !.data = v])]
        BY <2>1, <3>1, <3>2, <4>2 DEF Frame, Synced
      <4>3. CASE frames' = [frames EXCEPT ![HeaderFrame(fd)] = Marked(fd, p, n), ![k].pin = @ + 1]
        BY <2>1, <3>1, <3>2, <4>3 DEF Frame
      <4> QED
        BY <2>2, <4>1, <4>2, <4>3
    <3>3. CASE j # k
      BY <2>2, <3>1, <3>3
    <3> QED
      BY <3>2, <3>3
  <2> QED
    BY <2>1, <2>3, <2>4, InPlaceMarks
<1> QED
  BY <1>1, <1>2, <1>4, <1>5, <1>6, <1>7, <1>8, <1>9, OpenFileMarks DEF OpNext

\* the frames CloseFile leaves are marked, whatever happens to them next
LEMMA StraysStep ==
  ASSUME Books, StraysMarked, [Next]_vars
  PROVE  StraysMarked'
<1>1. \A k \in Cached : k[1] \in Fd
  BY DEF Books, TypeOK, FrameId
<1>2. ASSUME NEW fd \in Fd, CloseFile(fd) PROVE StraysMarked'
  <2>1. /\ frames' = LeftBehind(fd)
        /\ \A g \in Fd : g # fd => IsOpen(g)' = IsOpen(g)
    BY <1>2 DEF CloseFile, Books, TypeOK, IsOpen
  <2> QED
    BY <1>1, <2>1, LeftFrames DEF StraysMarked
<1>3. ASSUME NEW f \in File, RemoveFile(f) PROVE StraysMarked'
  BY <1>3 DEF RemoveFile, StraysMarked, IsOpen, Cached
<1>4. CASE Shutdown \/ Crash
  BY <1>4 DEF Shutdown, Crash, Restarted, StraysMarked, Cached
<1>5. ASSUME MarksKept PROVE StraysMarked'
  BY <1>1, <1>5 DEF MarksKept, StraysMarked
<1>6. CASE [OpNext]_vars /\ ~Shutdown
  BY <1>5, <1>6, OperationMarks
<1>7. ASSUME NEW fd \in Fd, NEW p \in PageId \ {HeaderPage},
             GetPageHit(fd, p) \/ GetPageMiss(fd, p) \/ GetPageFails(fd, p)
      PROVE  StraysMarked'
  BY <1>5, <1>7, OperationMarks
<1> QED
  BY <1>2, <1>3, <1>4, <1>6, <1>7 DEF Next

LEMMA CleanStep ==
  ASSUME Books, CleanFramesMatchDisk, StraysMarked, [Next]_vars
  PROVE  CleanFramesMatchDisk'
<1>1. CASE UNCHANGED vars
  BY <1>1 DEF vars, Cached, CleanFramesMatchDisk, IsOpen
<1>2. ASSUME NEW f \in File, CreateFile(f) PROVE CleanFramesMatchDisk'
  BY <1>2, CreateFileClean
<1>10. ASSUME NEW f \in File, RemoveFile(f) PROVE CleanFramesMatchDisk'
  BY <1>10, RemoveFileClean
<1>3. ASSUME NEW f \in File, NEW fd \in Fd, OpenFile(f, fd) \/ OpenFileFails(f, fd)
      PROVE  CleanFramesMatchDisk'
  BY <1>3, OpenFileClean, FailureClean, PageIds
<1>4. ASSUME NEW fd \in Fd,
             \/ FlushAllPages(fd) \/ CloseFile(fd)
             \/ AllocatePageExtends(fd) \/ AllocatePageExtendFails(fd)
      PROVE  CleanFramesMatchDisk'
  <2>1. CASE AllocatePageExtendFails(fd)
    <3>1. file[fd] \in File
      BY <2>1, ResidentHeader DEF AllocatePageExtendFails
    <3> QED
      BY <2>1, <3>1, FailureClean, PageIds
  <2> QED
    BY <1>4, <2>1, FlushAllPagesClean, CloseFileClean, AllocatePageExtendsClean
<1>5. ASSUME NEW fd \in Fd, NEW p \in PageId,
             GetPageHit(fd, p) \/ GetPageMiss(fd, p) \/ GetPageFails(fd, p)
      PROVE  CleanFramesMatchDisk'
  <2>1. CASE GetPageFails(fd, p)
    <3>1. file[fd] \in File
      BY <2>1, ResidentHeader DEF GetPageFails
    <3> QED
      BY <2>1, <3>1, FailureClean
  <2> QED
    BY <1>5, <2>1, PinnedClean, GetPageMissClean
<1>6. ASSUME NEW fd \in Fd, NEW p \in PageId \ {HeaderPage},
             \/ AllocatePageReusesHit(fd, p)
             \/ AllocatePageReusesMiss(fd, p)
             \/ AllocatePageReusesFails(fd, p)
      PROVE  CleanFramesMatchDisk'
  BY <1>6, AllocatePageReusesHitClean, AllocatePageReusesMissClean, AllocatePageReusesFailsClean
<1>7. ASSUME NEW fd \in Fd, NEW p \in PageId \ {HeaderPage}, NEW v \in Value,
             WritePage(fd, p, v) \/ FormatPage(fd, p, v)
      PROVE  CleanFramesMatchDisk'
  BY <1>7, WritePageClean, FormatPageClean
<1>8. ASSUME NEW fd \in Fd, NEW p \in PageId \ {HeaderPage},
             \/ p \in FileHeader(fd).bitmap /\ DisposePage(fd, p)
             \/ DisposePageLater(fd, p)
             \/ UnpinPage(fd, p)
             \/ UnpinPageDisposes(fd, p)
      PROVE  CleanFramesMatchDisk'
  BY <1>8, DisposedClean, PinnedClean
<1>9. CASE Shutdown \/ Crash
  <2>1. Cached' = {}
    BY <1>9 DEF Shutdown, Crash, Restarted, Cached
  <2> QED
    BY <2>1 DEF CleanFramesMatchDisk
<1> QED
  BY <1>1, <1>2, <1>3, <1>4, <1>5, <1>6, <1>7, <1>8, <1>9, <1>10 DEF Next, OpNext

-----------------------------------------------------------------------------
(* The theorems. *)

(***************************************************************************)
(* Every variable keeps its type: in particular no pin count goes below    *)
(* zero, which UnpinPage relies on its callers for, and                    *)
(* allocated_pages_num never does.                                         *)
(***************************************************************************)
THEOREM TypesHold == Spec => []TypeOK
  BY BooksBalance, PTL DEF Books

(***************************************************************************)
(* Pin counts and pins taken agree in every reachable state: an unpinned   *)
(* frame, which AllocateFrame may evict, is one that nobody uses.          *)
(***************************************************************************)
THEOREM PinsConserved == Spec => []PinAccounting
  BY BooksBalance, PTL DEF Books

(***************************************************************************)
(* The allocation map adds up in every header, resident or on disk, at     *)
(* every moment a crash can happen.                                        *)
(***************************************************************************)
THEOREM HeadersStaySound == Spec => []HeadersSound
  BY BooksBalance, PTL DEF Books

(***************************************************************************)
(* Write order: no header, resident or on disk, counts a page that its     *)
(* file does not have yet.                                                 *)
(***************************************************************************)
THEOREM CountedPagesStay == Spec => []CountedPagesExist
  BY BooksBalance, PTL DEF Books

(***************************************************************************)
(* A page waiting in disposed_pages_ keeps its bit and a holder until the  *)
(* holder returns it: DisposePage never runs twice for one request.        *)
(***************************************************************************)
THEOREM DisposalsStayPending == Spec => []DisposalPending
  BY BooksBalance, PTL DEF Books

(***************************************************************************)
(* No lost update, whatever descriptors open() returns: a frame may differ *)
(* from its page on disk only when it is dirty or when an earlier file of  *)
(* the same descriptor left it in the cache.                               *)
(***************************************************************************)
THEOREM NoLostUpdate == Spec => []CleanFramesMatchDisk
<1>1. Init => CleanFramesMatchDisk /\ StraysMarked
  BY DEF Init, CleanFramesMatchDisk, StraysMarked, Cached
<1>2. /\ Books /\ CleanFramesMatchDisk /\ StraysMarked /\ [Next]_vars
      => CleanFramesMatchDisk' /\ StraysMarked'
  BY CleanStep, StraysStep
<1> QED
  BY <1>1, <1>2, BooksBalance, PTL DEF Spec

-----------------------------------------------------------------------------
(***************************************************************************)
(* The buffer pool implements the page store: every operation of OpNext is *)
(* a step of PageStore on the contents as clients see them, or none.       *)
(***************************************************************************)
\* no file was closed: every frame belongs to an open file, and a clean one
\* agrees with it
NothingLeft == \A k \in Cached : IsOpen(k[1]) /\ ~frames[k].left
FramesMatch == CleanFramesMatchDisk /\ NothingLeft

\* the bits of a header, and of the header of a file that does not exist
Bits(h) == IF h = Absent THEN {} ELSE h.bitmap \ {HeaderPage}

(***************************************************************************)
(* What clients see of an open file, frame by frame, of a closed one, page *)
(* by page, and of either, by its header.                                  *)
(***************************************************************************)
Shown ==
  /\ \A fd \in Fd : IsOpen(fd) =>
       /\ file[fd] \in File /\ OpenOn(file[fd]) /\ FdOf(file[fd]) = fd
       /\ \A p \in PageId :
            Current(file[fd], p) = IF <<fd, p>> \in Cached THEN frames[<<fd, p>>].data
                                                           ELSE disk[file[fd]][p]
       /\ Current(file[fd], HeaderPage) = FileHeader(fd)
       /\ AllocatedPages(file[fd]) = FileHeader(fd).bitmap \ {HeaderPage}
  /\ \A f \in File : ~OpenOn(f) => \A p \in PageId : Current(f, p) = disk[f][p]
  /\ \A f \in File :
       /\ AllocatedPages(f) = Bits(Current(f, HeaderPage))
       /\ AllocatedPages(f) \subseteq ClientPage

LEMMA BooksShown == Books => Shown
<1> SUFFICES ASSUME Books PROVE Shown
  OBVIOUS
<1>1. ASSUME NEW fd \in Fd, IsOpen(fd)
      PROVE  /\ file[fd] \in File /\ OpenOn(file[fd]) /\ FdOf(file[fd]) = fd
             /\ \A p \in PageId :
                  Current(file[fd], p) = IF <<fd, p>> \in Cached THEN frames[<<fd, p>>].data
                                                                 ELSE disk[file[fd]][p]
             /\ Current(file[fd], HeaderPage) = FileHeader(fd)
             /\ AllocatedPages(file[fd]) = FileHeader(fd).bitmap \ {HeaderPage}
  <2>1. file[fd] \in File /\ HeaderFrame(fd) \in Cached
    BY <1>1, ResidentHeader
  <2>2. OpenOn(file[fd]) /\ FdOf(file[fd]) = fd
    <3>1. \A g \in Fd : file[g] = file[fd] => g = fd
      BY <1>1 DEF Books, OneFdPerFile
    <3> QED
      BY <3>1 DEF OpenOn, FdOf
  <2>3. Current(file[fd], HeaderPage) = FileHeader(fd)
    BY <2>1, <2>2 DEF Current, FileHeader, HeaderFrame
  <2>4. disk[file[fd]][HeaderPage] # Absent
    <3>1. /\ FileHeader(fd) \in Header
          /\ \A p \in 0 .. FileHeader(fd).pages - 1 : disk[file[fd]][p] # Absent
      BY <1>1, ResidentHeader
    <3> QED
      BY <3>1, MaxPagesAssumption DEF Header, HeaderPage
  <2>5. AllocatedPages(file[fd]) = FileHeader(fd).bitmap \ {HeaderPage}
    BY <2>3, <2>4 DEF AllocatedPages
  <2> QED
    BY <2>1, <2>2, <2>3, <2>5 DEF Current
<1>2. ASSUME NEW f \in File
      PROVE  /\ ~OpenOn(f) => \A p \in PageId : Current(f, p) = disk[f][p]
             /\ AllocatedPages(f) = Bits(Current(f, HeaderPage))
             /\ AllocatedPages(f) \subseteq ClientPage
  <2>1. CASE OpenOn(f)
    <3>1. PICK fd \in Fd : file[fd] = f
      BY <2>1 DEF OpenOn
    <3>2. IsOpen(fd)
      BY <3>1, NoFileAssumption DEF IsOpen
    <3>3. FileHeader(fd) \in Header /\ FileHeader(fd) # Absent
      BY <3>2, ResidentHeader, AbsentAssumption DEF Content
    <3>4. /\ Current(f, HeaderPage) = FileHeader(fd)
          /\ AllocatedPages(f) = FileHeader(fd).bitmap \ {HeaderPage}
      BY <1>1, <3>1, <3>2
    <3> QED
      BY <2>1, <3>3, <3>4 DEF Bits, ClientPage, Header
  <2>2. CASE ~OpenOn(f)
    <3>1. \A p \in PageId : Current(f, p) = disk[f][p]
      BY <2>2 DEF Current
    <3>2. disk[f][HeaderPage] # Absent => disk[f][HeaderPage] \in Header
      BY DEF Books, HeadersSound, HeaderOK
    <3> QED
      BY <3>1, <3>2, PageIds DEF AllocatedPages, Bits, ClientPage, Header
  <2> QED
    BY <2>1, <2>2
<1> QED
  BY <1>1, <1>2 DEF Shown

LEMMA BooksShownNext == Books' => Shown'
BY BooksShown, PTL

-----------------------------------------------------------------------------
(* Evictions and write-backs are not seen. *)

\* The pages of a file that is not open are not written.
LEMMA FlushedClosed ==
  ASSUME Books, NEW S, S \subseteq Cached, NEW f \in File, ~OpenOn(f), NEW p \in PageId
  PROVE  Flushed(S)[f][p] = disk[f][p]
<1>1. ASSUME NEW k \in S, Backs(k, f, p) PROVE FALSE
  BY <1>1 DEF Backs, OpenOn, Books, TypeOK, FrameId
<1> QED
  BY <1>1 DEF Flushed

(***************************************************************************)
(* A page of which the frame stays, or is evicted, or is loaded, and which *)
(* nobody else writes to the file, has the contents it had.                *)
(***************************************************************************)
LEMMA PageSeen ==
  ASSUME Books, FramesMatch, Shown, Shown',
         NEW E, E \subseteq Cached, NEW S, S \subseteq Cached, Dirty(E) \subseteq S,
         NEW f \in File, NEW p \in PageId,
         \A fd \in Fd : file'[fd] = f <=> file[fd] = f,
         disk'[f][p] = Flushed(S)[f][p],
         \A fd \in Fd : file[fd] = f =>
           /\ <<fd, p>> \in Cached \ E =>
                <<fd, p>> \in Cached' /\ frames'[<<fd, p>>].data = frames[<<fd, p>>].data
           /\ <<fd, p>> \in E => <<fd, p>> \notin Cached'
           /\ <<fd, p>> \in Cached' \ Cached => frames'[<<fd, p>>].data = disk[f][p]
  PROVE  Current(f, p)' = Current(f, p)
<1>1. CASE OpenOn(f)
  <2>1. PICK fd \in Fd : file[fd] = f
    BY <1>1 DEF OpenOn
  <2> DEFINE k == <<fd, p>>
  <2>2. IsOpen(fd) /\ IsOpen(fd)' /\ file'[fd] = f /\ k \in FrameId /\ k[1] = fd /\ k[2] = p
    BY <2>1, NoFileAssumption DEF IsOpen, FrameId
  <2>3. /\ Current(f, p) = IF k \in Cached THEN frames[k].data ELSE disk[f][p]
        /\ Current(f, p)' = IF k \in Cached' THEN frames'[k].data ELSE disk'[f][p]
    BY <2>1, <2>2 DEF Shown
  <2>4. disk'[f][p] = IF k \in S THEN frames[k].data ELSE disk[f][p]
    BY <2>1, <2>2, FlushedOwnPage
  <2>5. k \in E /\ ~frames[k].dirty => frames[k].data = disk[f][p]
    BY <2>1, <2>2 DEF FramesMatch, NothingLeft, CleanFramesMatchDisk
  <2>6. k \in E /\ frames[k].dirty => k \in S
    BY DEF Dirty
  <2>7. k \in S => k \in Cached
    OBVIOUS
  <2> HIDE DEF k
  <2>8. CASE k \in Cached'
    BY <2>1, <2>3, <2>8 DEF k
  <2>9. CASE k \notin Cached'
    <3>1. k \in Cached => k \in E
      BY <2>1, <2>9 DEF k
    <3> QED
      BY <2>3, <2>4, <2>5, <2>6, <2>7, <2>9, <3>1
  <2> QED
    BY <2>8, <2>9
<1>2. CASE ~OpenOn(f)
  <2>1. ~OpenOn(f)'
    BY <1>2 DEF OpenOn
  <2> QED
    BY <1>2, <2>1, FlushedClosed DEF Shown
<1> QED
  BY <1>1, <1>2

\* Every page of every file has the contents it had, but for the header of f
\* and its page p.
OthersSeen(f, p) ==
  \A g \in File, q \in PageId : (g = f /\ q \in {HeaderPage, p}) \/ Current(g, q)' = Current(g, q)

(***************************************************************************)
(* An operation on page p of an open file, with the evictions it makes: no *)
(* other page is seen to change, nor is the header if its frame keeps it.  *)
(***************************************************************************)
LEMMA OperationSeen ==
  ASSUME Books, FramesMatch, Shown, Shown', file' = file,
         NEW E, E \subseteq Cached,
         NEW fd \in Fd, IsOpen(fd), NEW p \in PageId, HeaderFrame(fd) \notin E,
         \A j \in FrameId : j # <<fd, p>> => (j \in Cached' <=> j \in Cached \ E),
         \A j \in Cached \ E : j # <<fd, p>> /\ j # HeaderFrame(fd) =>
           frames'[j].data = frames[j].data,
         \A g \in File, q \in PageId :
           (g = file[fd] /\ q = p) \/ disk'[g][q] = Flushed(Dirty(E))[g][q]
  PROVE  /\ OthersSeen(file[fd], p)
         /\ p # HeaderPage /\ FileHeader(fd)' = FileHeader(fd) =>
              Current(file[fd], HeaderPage)' = Current(file[fd], HeaderPage)
<1>0. Dirty(E) \subseteq Cached
  BY DEF Dirty
<1>1. ASSUME NEW g \in File, NEW q \in PageId, ~(g = file[fd] /\ q \in {HeaderPage, p})
      PROVE  Current(g, q)' = Current(g, q)
  <2>1. ASSUME NEW d \in Fd, file[d] = g
        PROVE  <<d, q>> \in FrameId /\ <<d, q>> # <<fd, p>> /\ <<d, q>> # HeaderFrame(fd)
    BY <1>1, <2>1 DEF HeaderFrame, FrameId
  <2>2. disk'[g][q] = Flushed(Dirty(E))[g][q]
    BY <1>1
  <2> QED
    BY <1>0, <2>1, <2>2, PageSeen
<1>2. IsOpen(fd)' /\ file'[fd] = file[fd]
  BY DEF IsOpen
<1> QED
  BY <1>1, <1>2 DEF OthersSeen, Shown

\* The same without evictions, for frames rewritten in place.
LEMMA OthersInPlace ==
  ASSUME Books, FramesMatch, Shown, Shown', file' = file,
         NEW fd \in Fd, IsOpen(fd), NEW p \in PageId, Cached' = Cached,
         \A j \in Cached : j # <<fd, p>> /\ j # HeaderFrame(fd) =>
           frames'[j].data = frames[j].data,
         \A g \in File, q \in PageId : (g = file[fd] /\ q = p) \/ disk'[g][q] = disk[g][q]
  PROVE  OthersSeen(file[fd], p)
<1>1. PICK E : E = {}
  OBVIOUS
<1>2. E \subseteq Cached /\ Cached \ E = Cached /\ HeaderFrame(fd) \notin E
  BY <1>1
<1>3. \A g \in File, q \in PageId : Flushed(Dirty(E))[g][q] = disk[g][q]
  BY <1>1 DEF Flushed, Dirty
<1>4. \A j \in FrameId : j # <<fd, p>> => (j \in Cached' <=> j \in Cached \ E)
  BY <1>2
<1> QED
  BY <1>2, <1>3, <1>4, OperationSeen

\* Evictions alone are not seen at all.
LEMMA EvictionSeen ==
  ASSUME Books, FramesMatch, Shown, Shown', file' = file,
         NEW E, E \subseteq Unpinned, disk' = Flushed(Dirty(E)), frames' = Remaining(E)
  PROVE  \A f \in File, p \in PageId : Current(f, p)' = Current(f, p)
<1>1. E \subseteq Cached /\ Dirty(E) \subseteq Cached
  BY DEF Unpinned, Dirty
<1>2. Cached' = Cached \ E /\ \A j \in Cached \ E : frames'[j] = frames[j]
  BY RemainingFrames
<1> TAKE f \in File, p \in PageId
<1> QED
  BY <1>1, <1>2, PageSeen

-----------------------------------------------------------------------------
(* What is seen, as steps of the page store. *)

\* Clients write no headers: no page but the first holds one.
Plain == \A f \in File, p \in ClientPage : Current(f, p) \in Data \cup {Absent}

LEMMA PlainKept ==
  ASSUME Plain, NEW f \in File, NEW p \in ClientPage, OthersSeen(f, p),
         Current(f, p)' = Current(f, p) \/ Current(f, p)' \in Data
  PROVE  Plain'
BY DEF Plain, OthersSeen, ClientPage

LEMMA StoreSame ==
  ASSUME Shown, Shown', Plain, UNCHANGED <<file, held, disposed>>,
         \A f \in File, p \in PageId : Current(f, p)' = Current(f, p)
  PROVE  UNCHANGED Store!vars /\ Plain'
<1>1. \A f \in File : AllocatedPages(f)' = AllocatedPages(f)
  BY PageIds DEF Shown
<1>2. \A f \in File : OpenOn(f)' = OpenOn(f) /\ FdOf(f)' = FdOf(f)
  BY DEF OpenOn, FdOf
<1>3. \A f \in File : \A p \in AllocatedPages(f) : Current(f, p)' = Current(f, p)
  BY DEF Shown, ClientPage
<1>4. Plain'
  BY DEF Plain, ClientPage
<1> QED
  BY <1>1, <1>2, <1>3, <1>4 DEF Store!vars

\* the variables of the page store
Allocated == [f \in File |-> AllocatedPages(f)]
Contents == [f \in File |-> [p \in AllocatedPages(f) |-> Current(f, p)]]
Users == [f \in File |-> [p \in ClientPage |-> IF OpenOn(f) THEN held[<<FdOf(f), p>>] ELSE 0]]
Doomed == [f \in File |-> IF OpenOn(f) THEN disposed[FdOf(f)] ELSE {}]

LEMMA UsersSeen ==
  ASSUME Books, Shown, file' = file, NEW fd \in Fd, IsOpen(fd), NEW p \in ClientPage
  PROVE  /\ Users[file[fd]][p] = held[<<fd, p>>]
         /\ \A n : held' = [held EXCEPT ![<<fd, p>>] = n] =>
              Users' = [Users EXCEPT ![file[fd]][p] = n]
         /\ held' = [held EXCEPT ![<<fd, p>>] = @ + 1] =>
              Users' = [Users EXCEPT ![file[fd]][p] = @ + 1]
         /\ held' = [held EXCEPT ![<<fd, p>>] = @ - 1] =>
              Users' = [Users EXCEPT ![file[fd]][p] = @ - 1]
         /\ held' = held => Users' = Users
<1>1. file[fd] \in File /\ OpenOn(file[fd]) /\ FdOf(file[fd]) = fd
  BY DEF Shown
<1>2. \A f \in File : OpenOn(f)' = OpenOn(f) /\ FdOf(f)' = FdOf(f)
  BY DEF OpenOn, FdOf
<1>3. \A f \in File : OpenOn(f) => FdOf(f) \in Fd /\ file[FdOf(f)] = f
  BY DEF OpenOn, FdOf
<1>4. ASSUME NEW n, held' = [held EXCEPT ![<<fd, p>>] = n]
      PROVE  Users' = [Users EXCEPT ![file[fd]][p] = n]
  <2>1. <<fd, p>> \in FrameId
    BY DEF FrameId, ClientPage
  <2>2. ASSUME NEW f \in File, NEW q \in ClientPage
        PROVE  Users'[f][q] = IF f = file[fd] /\ q = p THEN n ELSE Users[f][q]
    <3>1. CASE OpenOn(f)
      <4>1. <<FdOf(f), q>> \in FrameId
        BY <1>3, <3>1 DEF FrameId, ClientPage
      <4>2. <<FdOf(f), q>> = <<fd, p>> <=> f = file[fd] /\ q = p
        BY <1>1, <1>3, <3>1
      <4>3. held'[<<FdOf(f), q>>] = IF <<FdOf(f), q>> = <<fd, p>> THEN n ELSE held[<<FdOf(f), q>>]
        BY <1>4, <2>1, <4>1 DEF Books, TypeOK
      <4> QED
        BY <1>2, <3>1, <4>2, <4>3 DEF Users
    <3>2. CASE ~OpenOn(f)
      BY <1>1, <1>2, <3>2 DEF Users
    <3> QED
      BY <3>1, <3>2
  <2>3. /\ Users = [f \in File |-> [q \in ClientPage |-> Users[f][q]]]
        /\ Users' = [f \in File |-> [q \in ClientPage |-> Users'[f][q]]]
    BY DEF Users
  <2> QED
    BY <1>1, <2>2, <2>3
<1>5. held' = held => Users' = Users
  BY <1>2 DEF Users
<1>6. Users[file[fd]][p] = held[<<fd, p>>]
  BY <1>1 DEF Users
<1>7. /\ held' = [held EXCEPT ![<<fd, p>>] = @ + 1] =>
           Users' = [Users EXCEPT ![file[fd]][p] = held[<<fd, p>>] + 1]
      /\ held' = [held EXCEPT ![<<fd, p>>] = @ - 1] =>
           Users' = [Users EXCEPT ![file[fd]][p] = held[<<fd, p>>] - 1]
  BY <1>4
<1> QED
  BY <1>4, <1>5, <1>6, <1>7

LEMMA DoomedSeen ==
  ASSUME Books, Shown, file' = file, NEW fd \in Fd, IsOpen(fd)
  PROVE  /\ Doomed[file[fd]] = disposed[fd]
         /\ \A D : disposed' = [disposed EXCEPT ![fd] = D] =>
              Doomed' = [Doomed EXCEPT ![file[fd]] = D]
         /\ disposed' = disposed => Doomed' = Doomed
<1>1. file[fd] \in File /\ OpenOn(file[fd]) /\ FdOf(file[fd]) = fd
  BY DEF Shown
<1>2. \A f \in File : OpenOn(f)' = OpenOn(f) /\ FdOf(f)' = FdOf(f)
  BY DEF OpenOn, FdOf
<1>3. \A f \in File : OpenOn(f) => FdOf(f) \in Fd /\ file[FdOf(f)] = f
  BY DEF OpenOn, FdOf
<1>4. ASSUME NEW D, disposed' = [disposed EXCEPT ![fd] = D]
      PROVE  Doomed' = [Doomed EXCEPT ![file[fd]] = D]
  <2>1. ASSUME NEW f \in File
        PROVE  Doomed'[f] = IF f = file[fd] THEN D ELSE Doomed[f]
    BY <1>1, <1>2, <1>3, <1>4 DEF Doomed, Books, TypeOK
  <2> QED
    BY <1>1, <2>1 DEF Doomed
<1>5. disposed' = disposed => Doomed' = Doomed
  BY <1>2 DEF Doomed
<1> QED
  BY <1>1, <1>4, <1>5 DEF Doomed

LEMMA ContentsSeen ==
  ASSUME Shown, Shown', NEW f \in File, NEW p \in ClientPage, OthersSeen(f, p)
  PROVE  /\ Allocated' = [Allocated EXCEPT ![f] = AllocatedPages(f)']
         /\ Contents' = [Contents EXCEPT ![f] = [q \in AllocatedPages(f)' |->
                           IF q = p THEN Current(f, p)' ELSE Current(f, q)]]
<1>1. \A g \in File : g # f => AllocatedPages(g)' = AllocatedPages(g)
  BY PageIds DEF Shown, OthersSeen
<1>2. \A g \in File : /\ AllocatedPages(g) \subseteq ClientPage
                      /\ AllocatedPages(g)' \subseteq ClientPage
  BY DEF Shown
<1>3. ASSUME NEW g \in File, g # f
      PROVE  [q \in AllocatedPages(g) |-> Current(g, q)]' = [q \in AllocatedPages(g) |-> Current(g, q)]
  BY <1>1, <1>2, <1>3 DEF OthersSeen, ClientPage
<1>4. [q \in AllocatedPages(f) |-> Current(f, q)]' =
        [q \in AllocatedPages(f)' |-> IF q = p THEN Current(f, p)' ELSE Current(f, q)]
  <2>1. \A q \in AllocatedPages(f)' : q # p => Current(f, q)' = Current(f, q)
    BY <1>2 DEF OthersSeen, ClientPage
  <2> QED
    BY <2>1
<1> QED
  BY <1>1, <1>3, <1>4 DEF Allocated, Contents

\* A page whose bit is set, with contents that are no header.
LEMMA StoreReserves ==
  ASSUME Books, Shown, Shown', Plain, file' = file,
         NEW fd \in Fd, IsOpen(fd), NEW p \in ClientPage, OthersSeen(file[fd], p),
         p \notin FileHeader(fd).bitmap,
         FileHeader(fd)'.bitmap = FileHeader(fd).bitmap \cup {p},
         Current(file[fd], p)' \in Data
  PROVE  Store!Reserve(file[fd], p) /\ Plain'
<1> DEFINE f == file[fd]
<1>1. f \in File /\ IsOpen(fd)' /\ file'[fd] = f
  BY DEF Shown, IsOpen
<1>2. /\ AllocatedPages(f)' = AllocatedPages(f) \cup {p}
      /\ p \in ClientPage \ AllocatedPages(f)
  BY <1>1 DEF Shown, ClientPage
<1>3. /\ Allocated' = [Allocated EXCEPT ![f] = AllocatedPages(f)']
      /\ Contents' = [Contents EXCEPT ![f] = [q \in AllocatedPages(f)' |->
                        IF q = p THEN Current(f, p)' ELSE Current(f, q)]]
  BY <1>1, ContentsSeen
<1>4. Plain'
  BY <1>1, PlainKept
<1> HIDE DEF f
<1>5. Allocated' = [Allocated EXCEPT ![f] = @ \cup {p}] /\ Allocated'[f] = AllocatedPages(f)'
  BY <1>1, <1>2, <1>3 DEF Allocated
<1>6. Contents' = [Contents EXCEPT ![f] =
                     [q \in Allocated'[f] |-> IF q = p THEN Current(f, p)' ELSE Contents[f][q]]]
  <2>1. \A q \in AllocatedPages(f) : Contents[f][q] = Current(f, q)
    BY <1>1 DEF Contents
  <2>2. [q \in Allocated'[f] |-> IF q = p THEN Current(f, p)' ELSE Contents[f][q]] =
          [q \in AllocatedPages(f)' |-> IF q = p THEN Current(f, p)' ELSE Current(f, q)]
    BY <1>2, <1>5, <2>1
  <2> QED
    BY <1>3, <2>2
<1>7. p \in ClientPage \ Allocated[f] /\ Current(f, p)' \in Data
  BY <1>1, <1>2 DEF Allocated, f
<1>8. Store!Reserve(f, p)
  BY <1>5, <1>6, <1>7 DEF Store!Reserve, Allocated, Contents
<1> QED
  BY <1>4, <1>8 DEF f

\* AllocatePage
LEMMA StoreAllocates ==
  ASSUME Books, Shown, Shown', Plain, file' = file,
         NEW fd \in Fd, IsOpen(fd), NEW p \in ClientPage, OthersSeen(file[fd], p),
         p \notin FileHeader(fd).bitmap,
         FileHeader(fd)'.bitmap = FileHeader(fd).bitmap \cup {p},
         Current(file[fd], p)' \in Data,
         held' = [held EXCEPT ![<<fd, p>>] = @ + 1], disposed' = disposed
  PROVE  Store!Next /\ Plain'
<1>1. Store!Reserve(file[fd], p) /\ Plain' /\ file[fd] \in File
  BY StoreReserves DEF Shown
<1>2. Users' = [Users EXCEPT ![file[fd]][p] = @ + 1] /\ Doomed' = Doomed
  BY UsersSeen, DoomedSeen
<1>3. Store!Allocate(file[fd], p)
  BY <1>1, <1>2 DEF Store!Allocate, Users, Doomed
<1> QED
  BY <1>1, <1>3 DEF Store!Next

\* AllocatePage that gets no frame for a page whose bit it has set
LEMMA StoreLeaks ==
  ASSUME Books, Shown, Shown', Plain, file' = file,
         NEW fd \in Fd, IsOpen(fd), NEW p \in ClientPage, OthersSeen(file[fd], p),
         p \notin FileHeader(fd).bitmap,
         FileHeader(fd)'.bitmap = FileHeader(fd).bitmap \cup {p},
         Current(file[fd], p)' \in Data,
         held' = held, disposed' = disposed
  PROVE  Store!Next /\ Plain'
<1>1. Store!Reserve(file[fd], p) /\ Plain' /\ file[fd] \in File
  BY StoreReserves DEF Shown
<1>2. Users' = Users /\ Doomed' = Doomed
  BY UsersSeen, DoomedSeen
<1>3. Store!Leak(file[fd], p)
  BY <1>1, <1>2 DEF Store!Leak, Users, Doomed
<1> QED
  BY <1>1, <1>3 DEF Store!Next

\* a step that changes no contents and no bits
LEMMA StoreKeeps ==
  ASSUME Shown, Shown', Plain,
         \A f \in File, p \in PageId : Current(f, p)' = Current(f, p)
  PROVE  Allocated' = Allocated /\ Contents' = Contents /\ Plain'
<1>1. \A f \in File : AllocatedPages(f)' = AllocatedPages(f)
  BY PageIds DEF Shown
<1>2. \A f \in File : \A p \in AllocatedPages(f) : Current(f, p)' = Current(f, p)
  BY DEF Shown, ClientPage
<1>3. Plain'
  BY DEF Plain, ClientPage
<1> QED
  BY <1>1, <1>2, <1>3 DEF Allocated, Contents

\* GetPage
LEMMA StoreAcquires ==
  ASSUME Books, Shown, Shown', Plain, file' = file,
         NEW fd \in Fd, IsOpen(fd), NEW p \in ClientPage, p \in FileHeader(fd).bitmap,
         \A f \in File, q \in PageId : Current(f, q)' = Current(f, q),
         held' = [held EXCEPT ![<<fd, p>>] = @ + 1], disposed' = disposed
  PROVE  Store!Next /\ Plain'
<1>1. Allocated' = Allocated /\ Contents' = Contents /\ Plain'
  BY StoreKeeps
<1>2. Users' = [Users EXCEPT ![file[fd]][p] = @ + 1] /\ Doomed' = Doomed
  BY UsersSeen, DoomedSeen
<1>3. file[fd] \in File /\ p \in Allocated[file[fd]]
  BY DEF Shown, Allocated, ClientPage
<1>4. Store!Acquire(file[fd], p)
  BY <1>1, <1>2, <1>3 DEF Store!Acquire, Users, Doomed, Allocated, Contents
<1> QED
  BY <1>1, <1>3, <1>4 DEF Store!Next

\* A page whose bit is cleared, if it is set; what is left in it does not matter.
LEMMA StoreFrees ==
  ASSUME Books, Shown, Shown', Plain, file' = file,
         NEW fd \in Fd, IsOpen(fd), NEW p \in ClientPage, OthersSeen(file[fd], p),
         FileHeader(fd)'.bitmap = FileHeader(fd).bitmap \ {p},
         Current(file[fd], p)' = Current(file[fd], p)
  PROVE  Store!Free(file[fd], p) /\ Plain'
<1> DEFINE f == file[fd]
<1>1. f \in File /\ IsOpen(fd)' /\ file'[fd] = f
  BY DEF Shown, IsOpen
<1>2. AllocatedPages(f)' = AllocatedPages(f) \ {p}
  BY <1>1 DEF Shown
<1>3. /\ Allocated' = [Allocated EXCEPT ![f] = AllocatedPages(f)']
      /\ Contents' = [Contents EXCEPT ![f] = [q \in AllocatedPages(f)' |->
                        IF q = p THEN Current(f, p)' ELSE Current(f, q)]]
  BY <1>1, ContentsSeen
<1>4. Plain'
  BY <1>1, PlainKept
<1> HIDE DEF f
<1>5. Allocated' = [Allocated EXCEPT ![f] = @ \ {p}] /\ Allocated[f] = AllocatedPages(f)
  BY <1>1, <1>2, <1>3 DEF Allocated
<1>6. Contents' = [Contents EXCEPT ![f] = [q \in Allocated[f] \ {p} |-> Contents[f][q]]]
  <2>1. \A q \in AllocatedPages(f) : Contents[f][q] = Current(f, q)
    BY <1>1 DEF Contents
  <2>2. [q \in Allocated[f] \ {p} |-> Contents[f][q]] =
          [q \in AllocatedPages(f)' |-> IF q = p THEN Current(f, p)' ELSE Current(f, q)]
    BY <1>2, <1>5, <2>1
  <2> QED
    BY <1>3, <2>2
<1>7. Store!Free(f, p)
  BY <1>5, <1>6 DEF Store!Free, Store!Keep, Allocated, Contents
<1> QED
  BY <1>4, <1>7 DEF f

\* A page its holder writes, whether or not its bit is still set.
LEMMA StoreWrites ==
  ASSUME Books, Shown, Shown', Plain, file' = file,
         NEW fd \in Fd, IsOpen(fd), NEW p \in ClientPage, OthersSeen(file[fd], p),
         FileHeader(fd)' = FileHeader(fd), held[<<fd, p>>] > 0,
         NEW v \in Data, Current(file[fd], p)' = v,
         held' = held, disposed' = disposed
  PROVE  Store!Next /\ Plain'
<1> DEFINE f == file[fd]
<1>1. f \in File /\ IsOpen(fd)' /\ file'[fd] = f
  BY DEF Shown, IsOpen
<1>2. AllocatedPages(f)' = AllocatedPages(f)
  BY <1>1 DEF Shown
<1>3. /\ Allocated' = [Allocated EXCEPT ![f] = AllocatedPages(f)']
      /\ Contents' = [Contents EXCEPT ![f] = [q \in AllocatedPages(f)' |->
                        IF q = p THEN Current(f, p)' ELSE Current(f, q)]]
  BY <1>1, ContentsSeen
<1>4. Plain'
  BY <1>1, PlainKept
<1>5. Users' = Users /\ Doomed' = Doomed /\ Users[f][p] > 0
  BY UsersSeen, DoomedSeen
<1>6. Current(f, p)' = v
  OBVIOUS
<1> HIDE DEF f
<1>7. Allocated' = Allocated
  BY <1>1, <1>2, <1>3 DEF Allocated
<1>8. Contents' = [Contents EXCEPT ![f][p] = v]
  <2>1. [Contents[f] EXCEPT ![p] = v] =
          [q \in AllocatedPages(f)' |-> IF q = p THEN Current(f, p)' ELSE Current(f, q)]
    BY <1>1, <1>2, <1>6 DEF Contents
  <2> QED
    BY <1>3, <2>1
<1>9. Store!Write(f, p, v)
  BY <1>5, <1>7, <1>8 DEF Store!Write, Allocated, Contents, Users, Doomed
<1> QED
  BY <1>1, <1>4, <1>9 DEF Store!Next

\* UnpinPage that disposes nothing
LEMMA StoreReleases ==
  ASSUME Books, Shown, Shown', Plain, file' = file,
         NEW fd \in Fd, IsOpen(fd), NEW p \in ClientPage,
         \A f \in File, q \in PageId : Current(f, q)' = Current(f, q),
         held[<<fd, p>>] > 0, held[<<fd, p>>] = 1 => p \notin disposed[fd],
         held' = [held EXCEPT ![<<fd, p>>] = @ - 1], disposed' = disposed
  PROVE  Store!Next /\ Plain'
<1>1. Allocated' = Allocated /\ Contents' = Contents /\ Plain'
  BY StoreKeeps
<1>2. /\ Users' = [Users EXCEPT ![file[fd]][p] = @ - 1] /\ Doomed' = Doomed
      /\ Users[file[fd]][p] = held[<<fd, p>>] /\ Doomed[file[fd]] = disposed[fd]
  BY UsersSeen, DoomedSeen
<1>3. file[fd] \in File
  BY DEF Shown
<1>4. Store!Release(file[fd], p)
  BY <1>1, <1>2 DEF Store!Release, Users, Doomed, Allocated, Contents
<1> QED
  BY <1>1, <1>3, <1>4 DEF Store!Next

\* UnpinPage that carries out a disposal
LEMMA StoreReleasesLast ==
  ASSUME Books, Shown, Shown', Plain, file' = file,
         NEW fd \in Fd, IsOpen(fd), NEW p \in ClientPage, OthersSeen(file[fd], p),
         FileHeader(fd)'.bitmap = FileHeader(fd).bitmap \ {p},
         Current(file[fd], p)' = Current(file[fd], p),
         held[<<fd, p>>] = 1, p \in disposed[fd],
         held' = [held EXCEPT ![<<fd, p>>] = @ - 1],
         disposed' = [disposed EXCEPT ![fd] = @ \ {p}]
  PROVE  Store!Next /\ Plain'
<1>1. Store!Free(file[fd], p) /\ Plain' /\ file[fd] \in File
  BY StoreFrees DEF Shown
<1>2. /\ Users' = [Users EXCEPT ![file[fd]][p] = @ - 1]
      /\ Doomed' = [Doomed EXCEPT ![file[fd]] = @ \ {p}]
      /\ Users[file[fd]][p] = 1 /\ p \in Doomed[file[fd]]
  BY UsersSeen, DoomedSeen
<1>3. Store!Release(file[fd], p)
  BY <1>1, <1>2 DEF Store!Release, Users, Doomed
<1> QED
  BY <1>1, <1>3 DEF Store!Next

\* DisposePage of a page that nobody holds, and of one that is held
LEMMA StoreDiscards ==
  ASSUME Books, Shown, Shown', Plain, file' = file,
         NEW fd \in Fd, IsOpen(fd), NEW p \in ClientPage, OthersSeen(file[fd], p),
         p \in FileHeader(fd).bitmap,
         FileHeader(fd)'.bitmap = FileHeader(fd).bitmap \ {p},
         Current(file[fd], p)' = Current(file[fd], p),
         held[<<fd, p>>] = 0, held' = held, disposed' = disposed
  PROVE  Store!Next /\ Plain'
<1>1. /\ Store!Free(file[fd], p) /\ Plain' /\ file[fd] \in File
      /\ p \in AllocatedPages(file[fd])
  BY StoreFrees DEF Shown, ClientPage
<1>2. Users' = Users /\ Doomed' = Doomed /\ Users[file[fd]][p] = 0 /\ p \in Allocated[file[fd]]
  BY <1>1, UsersSeen, DoomedSeen DEF Allocated
<1>3. Store!Discard(file[fd], p)
  BY <1>1, <1>2 DEF Store!Discard, Users, Doomed, Allocated
<1> QED
  BY <1>1, <1>3 DEF Store!Next

LEMMA StoreDiscardsLater ==
  ASSUME Books, Shown, Shown', Plain, file' = file,
         NEW fd \in Fd, IsOpen(fd), NEW p \in ClientPage, p \in FileHeader(fd).bitmap,
         \A f \in File, q \in PageId : Current(f, q)' = Current(f, q),
         held[<<fd, p>>] # 0, held' = held,
         disposed' = [disposed EXCEPT ![fd] = @ \cup {p}]
  PROVE  Store!Next /\ Plain'
<1>1. Allocated' = Allocated /\ Contents' = Contents /\ Plain'
  BY StoreKeeps
<1>2. /\ Users' = Users /\ Users[file[fd]][p] # 0
      /\ Doomed' = [Doomed EXCEPT ![file[fd]] = @ \cup {p}]
  BY UsersSeen, DoomedSeen
<1>3. file[fd] \in File /\ p \in Allocated[file[fd]]
  BY DEF Shown, Allocated, ClientPage
<1>4. Store!Discard(file[fd], p)
  BY <1>1, <1>2, <1>3 DEF Store!Discard, Users, Doomed, Allocated, Contents
<1> QED
  BY <1>1, <1>3, <1>4 DEF Store!Next

-----------------------------------------------------------------------------
(* Each operation is a step of the page store. *)

Ready == Books /\ FramesMatch /\ Shown /\ Plain

StoreStep == (Store!Next \/ UNCHANGED Store!vars) /\ Plain'

\* a call that fails: frames are evicted, no more
LEMMA FailureStep ==
  ASSUME Ready, Shown', NEW fd \in Fd, NEW p \in PageId, NEW f \in File,
         OpenFileFails(f, fd) \/ GetPageFails(fd, p) \/ AllocatePageExtendFails(fd)
  PROVE  StoreStep
<1>1. UNCHANGED <<file, held, disposed>>
  BY DEF OpenFileFails, GetPageFails, AllocatePageExtendFails
<1>2. PICK k, E : /\ Refused(k, E) \/ Granted(k, E)
                  /\ disk' = Flushed(Dirty(E))
                  /\ frames' = Remaining(E)
  BY DEF OpenFileFails, GetPageFails, AllocatePageExtendFails
<1>3. E \subseteq Unpinned
  BY <1>2, RefusedEvicts
<1>4. \A g \in File, q \in PageId : Current(g, q)' = Current(g, q)
  BY <1>1, <1>2, <1>3, EvictionSeen DEF Ready
<1> QED
  BY <1>1, <1>4, StoreSame DEF Ready, StoreStep

\* frames that keep their contents
LEMMA InPlaceSeen ==
  ASSUME UNCHANGED <<file, disk>>, Cached' = Cached,
         \A j \in Cached : frames'[j].data = frames[j].data
  PROVE  \A f \in File, p \in PageId : Current(f, p)' = Current(f, p)
BY DEF Current, OpenOn, FdOf

LEMMA GetPageHitStep ==
  ASSUME Ready, Shown', NEW fd \in Fd, NEW p \in PageId \ {HeaderPage},
         p \in FileHeader(fd).bitmap, GetPageHit(fd, p)
  PROVE  StoreStep
<1>1. /\ UNCHANGED <<file, disposed, disk>> /\ IsOpen(fd)
      /\ held' = [held EXCEPT ![<<fd, p>>] = @ + 1]
      /\ frames' = [frames EXCEPT ![<<fd, p>>].pin = @ + 1]
  BY DEF GetPageHit
<1>2. Cached' = Cached /\ \A j \in Cached : frames'[j].data = frames[j].data
  BY <1>1, CachedPins DEF Cached, Ready, Frame
<1>3. p \in ClientPage
  BY DEF ClientPage
<1> QED
  BY <1>1, <1>2, <1>3, InPlaceSeen, StoreAcquires DEF Ready, StoreStep

LEMMA UnpinPageStep ==
  ASSUME Ready, Shown', NEW fd \in Fd, NEW p \in PageId \ {HeaderPage}, UnpinPage(fd, p)
  PROVE  StoreStep
<1>1. /\ UNCHANGED <<file, disposed, disk>> /\ IsOpen(fd) /\ held[<<fd, p>>] > 0
      /\ frames[<<fd, p>>].pin > 1 \/ p \notin disposed[fd]
      /\ held' = [held EXCEPT ![<<fd, p>>] = @ - 1]
      /\ frames' = [frames EXCEPT ![<<fd, p>>].pin = @ - 1]
      /\ <<fd, p>> \in FrameId /\ <<fd, p>>[2] = p
  BY DEF UnpinPage, FrameId
<1>2. Cached' = Cached /\ \A j \in Cached : frames'[j].data = frames[j].data
  BY <1>1, CachedPins DEF Cached, Ready, Frame
<1>3. frames[<<fd, p>>].pin = held[<<fd, p>>]
  BY <1>1, HeldCached, CachedPins DEF OwnPin, Ready
<1>4. held[<<fd, p>>] = 1 => p \notin disposed[fd]
  BY <1>1, <1>3
<1>5. p \in ClientPage
  BY DEF ClientPage
<1> QED
  BY <1>1, <1>2, <1>4, <1>5, InPlaceSeen, StoreReleases DEF Ready, StoreStep

LEMMA DisposePageLaterStep ==
  ASSUME Ready, Shown', NEW fd \in Fd, NEW p \in PageId \ {HeaderPage},
         p \in FileHeader(fd).bitmap, DisposePageLater(fd, p)
  PROVE  StoreStep
<1>1. /\ UNCHANGED <<file, frames, held, disk>> /\ IsOpen(fd)
      /\ <<fd, p>> \in Cached /\ frames[<<fd, p>>].pin > 0
      /\ disposed' = [disposed EXCEPT ![fd] = @ \cup {p}]
      /\ <<fd, p>> \in FrameId /\ <<fd, p>>[2] = p
  BY DEF DisposePageLater, FrameId
<1>2. Cached' = Cached /\ \A j \in Cached : frames'[j].data = frames[j].data
  BY <1>1 DEF Cached
<1>3. held[<<fd, p>>] # 0
  BY <1>1, CachedPins DEF OwnPin, Ready
<1>4. p \in ClientPage
  BY DEF ClientPage
<1> QED
  BY <1>1, <1>2, <1>3, <1>4, InPlaceSeen, StoreDiscardsLater DEF Ready, StoreStep

LEMMA FlushAllPagesStep ==
  ASSUME Ready, Shown', NEW fd \in Fd, FlushAllPages(fd)
  PROVE  StoreStep
<1> DEFINE S == {k \in Cached : k[1] = fd}
<1>1. /\ UNCHANGED <<file, disposed, held>> /\ IsOpen(fd) /\ disk' = Flushed(S)
      /\ frames' = [k \in Cached |->
           IF k \in S THEN Synced(frames[k]) ELSE frames[k]]
  BY DEF FlushAllPages
<1>2. Cached' = Cached /\ \A j \in Cached : frames'[j].data = frames[j].data
  BY <1>1, CachedPins DEF Cached, Ready, Frame, Synced
<1>3. S \subseteq Cached /\ Dirty({}) \subseteq S
  BY DEF Dirty
<1> HIDE DEF S
<1>4. ASSUME NEW f \in File, NEW p \in PageId PROVE Current(f, p)' = Current(f, p)
  BY <1>1, <1>2, <1>3, PageSeen DEF Ready
<1> QED
  BY <1>1, <1>4, StoreSame DEF Ready, StoreStep

\* A page that is loaded shows what it has in the file.
LEMMA GetPageMissStep ==
  ASSUME Ready, Shown', NEW fd \in Fd, NEW p \in PageId \ {HeaderPage},
         p \in FileHeader(fd).bitmap, GetPageMiss(fd, p)
  PROVE  StoreStep
<1> DEFINE k == <<fd, p>>
<1>1. PICK E, d : /\ d = disk[file[fd]][p]
                  /\ Granted(k, E)
                  /\ disk' = Flushed(Dirty(E))
                  /\ frames' = Installed(k, E, NewFrame(d, 1))
  BY DEF GetPageMiss
<1>2. /\ IsOpen(fd) /\ k \in FrameId /\ k \notin Cached
      /\ disk[file[fd]][p] # Absent
      /\ held' = [held EXCEPT ![k] = @ + 1]
      /\ UNCHANGED <<file, disposed>>
  BY DEF GetPageMiss, FrameId
<1>3. d \in Content
  BY <1>1, <1>2, ResidentHeader DEF Ready, Books, TypeOK
<1>4. E \subseteq Cached /\ Dirty(E) \subseteq Cached
  BY <1>1, <1>2, GrantedFree, EvictedFree DEF Dirty, Ready
<1>5. /\ Cached' = (Cached \ E) \cup {k}
      /\ frames'[k].data = d
      /\ \A j \in Cached \ E : j # k => frames'[j] = frames[j]
  BY <1>1, <1>2, <1>3, InstalledFrames DEF Ready
<1>6. ASSUME NEW f \in File, NEW q \in PageId PROVE Current(f, q)' = Current(f, q)
  <2>1. ASSUME NEW g \in Fd, file[g] = f
        PROVE  /\ <<g, q>> \in Cached \ E =>
                    <<g, q>> \in Cached' /\ frames'[<<g, q>>].data = frames[<<g, q>>].data
               /\ <<g, q>> \in E => <<g, q>> \notin Cached'
               /\ <<g, q>> \in Cached' \ Cached => frames'[<<g, q>>].data = disk[f][q]
    BY <1>1, <1>2, <1>4, <1>5, <2>1
  <2>2. disk'[f][q] = Flushed(Dirty(E))[f][q]
    BY <1>1
  <2> HIDE DEF k
  <2> QED
    BY <1>2, <1>4, <2>1, <2>2, PageSeen DEF Ready
<1>7. p \in ClientPage
  BY DEF ClientPage
<1> QED
  BY <1>2, <1>6, <1>7, StoreAcquires DEF Ready, StoreStep

\* A free page of the file, cached, is handed out with what is left in it.
LEMMA AllocatePageReusesHitStep ==
  ASSUME Ready, Shown', NEW fd \in Fd, NEW p \in PageId \ {HeaderPage},
         AllocatePageReusesHit(fd, p)
  PROVE  StoreStep
<1> DEFINE k == <<fd, p>>
           h == HeaderFrame(fd)
<1>1. PICK m : m = Marked(fd, p, FileHeader(fd).pages)
  OBVIOUS
<1>2. /\ k \in FrameId /\ IsOpen(fd) /\ k \in Cached /\ Reusable(fd, p)
      /\ frames' = [frames EXCEPT ![h] = m, ![k].pin = @ + 1]
      /\ held' = [held EXCEPT ![k] = @ + 1]
      /\ UNCHANGED <<file, disposed, disk>>
  BY <1>1 DEF AllocatePageReusesHit, FrameId
<1>3. /\ p \notin FileHeader(fd).bitmap
      /\ FileHeader(fd).pages \in 1 .. MaxPages
      /\ p < FileHeader(fd).pages
  BY <1>2, ReusableBit DEF Ready
<1>4. m \in Frame /\ m.data.bitmap = FileHeader(fd).bitmap \cup {p}
  BY <1>1, <1>2, <1>3, MarkedHeader DEF Ready
<1>5. h # k /\ h \in Cached
  BY <1>2, ResidentHeader DEF HeaderFrame, Ready
<1>6. /\ Cached' = Cached /\ frames'[h] = m
      /\ \A j \in Cached : j # h => frames'[j].data = frames[j].data
  <2> HIDE DEF h, k
  <2>1. frames[k] \in Frame
    BY <1>2, CachedPins DEF Ready
  <2> QED
    BY <1>2, <1>5, <2>1 DEF Cached, Frame
<1>7. FileHeader(fd)'.bitmap = FileHeader(fd).bitmap \cup {p}
  BY <1>4, <1>6 DEF FileHeader, HeaderFrame
<1>8. OthersSeen(file[fd], p)
  BY <1>2, <1>6, OthersInPlace DEF Ready
<1>9. Current(file[fd], p)' \in Data
  <2>1. IsOpen(fd)' /\ file'[fd] = file[fd] /\ p \in ClientPage /\ file[fd] \in File
    BY <1>2 DEF IsOpen, ClientPage, Ready, Shown
  <2>2. /\ Current(file[fd], p) = frames[k].data
        /\ Current(file[fd], p)' = frames'[k].data
    BY <1>2, <1>6, <2>1 DEF Ready, Shown
  <2>3. frames[k].data \in Content
    BY <1>2, CachedPins DEF Ready, Frame
  <2> QED
    BY <1>2, <1>5, <1>6, <2>1, <2>2, <2>3, AbsentAssumption DEF Ready, Plain
<1>10. p \in ClientPage
  BY DEF ClientPage
<1> QED
  BY <1>2, <1>3, <1>7, <1>8, <1>9, <1>10, StoreAllocates DEF Ready, StoreStep

\* The free page is loaded with what is left in the file.
LEMMA AllocatePageReusesMissStep ==
  ASSUME Ready, Shown', NEW fd \in Fd, NEW p \in PageId \ {HeaderPage},
         AllocatePageReusesMiss(fd, p)
  PROVE  StoreStep
<1> DEFINE k == <<fd, p>>
           h == HeaderFrame(fd)
<1>1. PICK E, d, m : /\ d = disk[file[fd]][p]
                     /\ m = Marked(fd, p, FileHeader(fd).pages)
                     /\ Granted(k, E)
                     /\ disk' = Flushed(Dirty(E))
                     /\ frames' = [Installed(k, E, NewFrame(d, 1)) EXCEPT ![h] = m]
  BY DEF AllocatePageReusesMiss
<1>2. /\ IsOpen(fd) /\ k \in FrameId /\ k \notin Cached /\ Reusable(fd, p)
      /\ held' = [held EXCEPT ![k] = @ + 1]
      /\ UNCHANGED <<file, disposed>>
  BY DEF AllocatePageReusesMiss, FrameId
<1>3. /\ p \notin FileHeader(fd).bitmap
      /\ FileHeader(fd).pages \in 1 .. MaxPages
      /\ p < FileHeader(fd).pages
      /\ d \in Content
  BY <1>1, <1>2, ReusableBit DEF Ready
<1>4. E \subseteq Cached /\ h \in Cached \ E
  BY <1>1, <1>2, GrantedFree, EvictedFree DEF Ready
<1>5. m \in Frame /\ m.data.bitmap = FileHeader(fd).bitmap \cup {p}
  BY <1>1, <1>2, <1>3, MarkedHeader DEF Ready
<1>6. /\ Cached' = (Cached \ E) \cup {k}
      /\ frames'[h] = m /\ frames'[k].data = d
      /\ \A j \in Cached \ E : j # k /\ j # h => frames'[j] = frames[j]
  <2>1. InstallsAndMarks(k, E, d, h, m) /\ h # k
    BY <1>1 DEF InstallsAndMarks, HeaderFrame
  <2> HIDE DEF k, h
  <2>2. GrantsAndMarks(k, E, d, h, m)
    BY <1>2, <1>3, <1>4, <1>5, <2>1, InstalledFramesAndHeader DEF Ready
  <2>3. frames'[k] = NewFrame(d, 1)
    BY <2>1 DEF InstallsAndMarks, Installed
  <2> QED
    BY <2>2, <2>3 DEF GrantsAndMarks, NewFrame
<1>7. FileHeader(fd)'.bitmap = FileHeader(fd).bitmap \cup {p}
  BY <1>5, <1>6 DEF FileHeader, HeaderFrame
<1>8. OthersSeen(file[fd], p)
  <2>1. \A g \in File, q \in PageId : disk'[g][q] = Flushed(Dirty(E))[g][q]
    BY <1>1
  <2> QED
    BY <1>2, <1>4, <1>6, <2>1, OperationSeen DEF Ready
<1>9. Current(file[fd], p)' \in Data
  <2>1. IsOpen(fd)' /\ file'[fd] = file[fd] /\ p \in ClientPage /\ file[fd] \in File
    BY <1>2 DEF IsOpen, ClientPage, Ready, Shown
  <2>2. Current(file[fd], p) = d /\ Current(file[fd], p)' = d
    BY <1>1, <1>2, <1>6, <2>1 DEF Ready, Shown
  <2> QED
    BY <1>3, <2>1, <2>2, AbsentAssumption DEF Ready, Plain
<1>10. p \in ClientPage
  BY DEF ClientPage
<1> QED
  BY <1>2, <1>3, <1>7, <1>8, <1>9, <1>10, StoreAllocates DEF Ready, StoreStep

\* The bit is set and no frame is granted: the page stays allocated, unheld.
LEMMA AllocatePageReusesFailsStep ==
  ASSUME Ready, Shown', NEW fd \in Fd, NEW p \in PageId \ {HeaderPage},
         AllocatePageReusesFails(fd, p)
  PROVE  StoreStep
<1> DEFINE h == HeaderFrame(fd)
<1>1. PICK E, m : /\ m = Marked(fd, p, FileHeader(fd).pages)
                  /\ Refused(<<fd, p>>, E)
                  /\ disk' = Flushed(Dirty(E))
                  /\ frames' = [Remaining(E) EXCEPT ![h] = m]
  BY DEF AllocatePageReusesFails
<1>2. /\ IsOpen(fd) /\ Reusable(fd, p) /\ UNCHANGED <<file, disposed, held>>
      /\ <<fd, p>> \notin Cached
      /\ <<fd, p>> \in FrameId /\ <<fd, p>>[1] = fd /\ <<fd, p>>[2] = p
  BY DEF AllocatePageReusesFails, FrameId
<1>3. E \subseteq Cached /\ h \in Cached \ E
  BY <1>1, <1>2, RefusedEvicts, EvictedFree DEF Ready
<1>4. /\ p \notin FileHeader(fd).bitmap
      /\ FileHeader(fd).pages \in 1 .. MaxPages
      /\ p < FileHeader(fd).pages
      /\ disk[file[fd]][p] \in Content
  BY <1>2, ReusableBit DEF Ready
<1>5. m \in Frame /\ m.data.bitmap = FileHeader(fd).bitmap \cup {p}
  BY <1>1, <1>2, <1>4, MarkedHeader DEF Ready
<1>6. /\ Cached' = Cached \ E
      /\ frames'[h] = m
      /\ \A j \in Cached \ E : j # h => frames'[j] = frames[j]
  <2>1. RemainsAndMarks(E, h, m)
    BY <1>1 DEF RemainsAndMarks
  <2> HIDE DEF h
  <2> QED
    BY <1>3, <1>5, <2>1, RemainingFramesAndHeader DEF Ready
<1>7. FileHeader(fd)'.bitmap = FileHeader(fd).bitmap \cup {p}
  BY <1>5, <1>6 DEF FileHeader, HeaderFrame
<1>8. OthersSeen(file[fd], p)
  <2>1. \A g \in File, q \in PageId : disk'[g][q] = Flushed(Dirty(E))[g][q]
    BY <1>1
  <2> QED
    BY <1>2, <1>3, <1>6, <2>1, OperationSeen DEF Ready
<1>9. Current(file[fd], p)' \in Data
  <2>1. IsOpen(fd)' /\ file'[fd] = file[fd] /\ p \in ClientPage /\ file[fd] \in File
    BY <1>2 DEF IsOpen, ClientPage, Ready, Shown
  <2>2. Dirty(E) \subseteq Cached /\ <<fd, p>> \notin Dirty(E)
    BY <1>2, <1>3 DEF Dirty
  <2>3. disk'[file[fd]][p] = disk[file[fd]][p]
    BY <1>1, <1>2, <2>2, FlushedOwnPage DEF Ready
  <2>4. Current(file[fd], p) = disk[file[fd]][p] /\ Current(file[fd], p)' = disk[file[fd]][p]
    BY <1>2, <1>6, <2>1, <2>3 DEF Ready, Shown
  <2> QED
    BY <1>4, <2>1, <2>4, AbsentAssumption DEF Ready, Plain
<1>10. p \in ClientPage
  BY DEF ClientPage
<1> QED
  BY <1>2, <1>4, <1>7, <1>8, <1>9, <1>10, StoreLeaks DEF Ready, StoreStep

\* The page after the last, reset and written to the file.
LEMMA AllocatePageExtendsStep ==
  ASSUME Ready, Shown', NEW fd \in Fd, AllocatePageExtends(fd)
  PROVE  StoreStep
<1> DEFINE h == HeaderFrame(fd)
<1>1. PICK E, p, m : /\ p = FileHeader(fd).pages
                     /\ m = Marked(fd, p, p + 1)
                     /\ Granted(<<fd, p>>, E)
                     /\ disk' = [Flushed(Dirty(E)) EXCEPT ![file[fd]][p] = Zero]
                     /\ frames' = [Installed(<<fd, p>>, E, NewFrame(Zero, 1)) EXCEPT ![h] = m]
                     /\ held' = [held EXCEPT ![<<fd, p>>] = @ + 1]
  BY DEF AllocatePageExtends
<1> DEFINE k == <<fd, p>>
<1>2. IsOpen(fd) /\ Extendable(fd) /\ UNCHANGED <<file, disposed>>
  BY DEF AllocatePageExtends
<1>3. file[fd] \in File /\ FileHeader(fd) \in Header /\ HeaderOK(FileHeader(fd))
  BY <1>2, ResidentHeader DEF Ready
<1>4. /\ p \in PageId \ {HeaderPage} /\ p \in ClientPage
      /\ p + 1 \in 1 .. MaxPages /\ FileHeader(fd).pages <= p + 1 /\ p < p + 1
      /\ p \notin FileHeader(fd).bitmap
      /\ k \in FrameId
  BY <1>1, <1>2, <1>3, MaxPagesAssumption
  DEF Extendable, HeaderOK, Header, PageId, HeaderPage, FrameId, ClientPage
<1>5. Zero \in Content /\ Zero \in Data
  BY DEF Content, Data
<1>6. E \subseteq Cached /\ h \in Cached \ E /\ k \notin Cached \ E /\ DiskSound(Flushed(Dirty(E)))
  BY <1>1, <1>2, <1>4, GrantedFree, EvictedFree DEF Ready
<1>7. \A g \in File, q \in PageId :
        disk'[g][q] = IF g = file[fd] /\ q = p THEN Zero ELSE Flushed(Dirty(E))[g][q]
  <2>1. disk' = Written(Flushed(Dirty(E)), file[fd], p, Zero)
    BY <1>1 DEF Written
  <2> QED
    BY <1>3, <1>4, <1>5, <1>6, <2>1, WrittenDisk
<1>8. m \in Frame /\ m.data.bitmap = FileHeader(fd).bitmap \cup {p}
  BY <1>1, <1>2, <1>4, MarkedHeader DEF Ready
<1>9. /\ Cached' = (Cached \ E) \cup {k}
      /\ frames'[h] = m /\ frames'[k].data = Zero
      /\ \A j \in Cached \ E : j # k /\ j # h => frames'[j] = frames[j]
  <2>1. InstallsAndMarks(k, E, Zero, h, m) /\ h # k
    BY <1>1, <1>4 DEF InstallsAndMarks, HeaderFrame
  <2> HIDE DEF k, h
  <2>2. GrantsAndMarks(k, E, Zero, h, m)
    BY <1>4, <1>5, <1>6, <1>8, <2>1, InstalledFramesAndHeader DEF Ready
  <2>3. frames'[k] = NewFrame(Zero, 1)
    BY <2>1 DEF InstallsAndMarks, Installed
  <2> QED
    BY <2>2, <2>3 DEF GrantsAndMarks, NewFrame
<1>10. FileHeader(fd)'.bitmap = FileHeader(fd).bitmap \cup {p}
  BY <1>8, <1>9 DEF FileHeader, HeaderFrame
<1>11. OthersSeen(file[fd], p)
  <2>1. \A g \in File, q \in PageId :
          (g = file[fd] /\ q = p) \/ disk'[g][q] = Flushed(Dirty(E))[g][q]
    BY <1>7
  <2> QED
    BY <1>2, <1>4, <1>6, <1>9, <2>1, OperationSeen DEF Ready
<1>12. Current(file[fd], p)' \in Data
  <2>1. IsOpen(fd)' /\ file'[fd] = file[fd]
    BY <1>2 DEF IsOpen
  <2> QED
    BY <1>4, <1>5, <1>9, <2>1 DEF Shown
<1> QED
  BY <1>1, <1>2, <1>4, <1>10, <1>11, <1>12, StoreAllocates DEF Ready, StoreStep

\* A page somebody holds is changed in its frame, or there and in the file.
LEMMA WritePageStep ==
  ASSUME Ready, Shown', NEW fd \in Fd, NEW p \in PageId \ {HeaderPage}, NEW v \in Value,
         WritePage(fd, p, v) \/ FormatPage(fd, p, v)
  PROVE  StoreStep
<1> DEFINE k == <<fd, p>>
           h == HeaderFrame(fd)
<1>1. PICK b :
           /\ IsOpen(fd) /\ held[k] > 0
           /\ \/ b = [frames[k] EXCEPT !.data = v, !.dirty = TRUE]
              \/ b = Synced([frames[k] EXCEPT !.data = v])
           /\ frames' = [frames EXCEPT ![k] = b]
           /\ disk' = disk \/ disk' = [disk EXCEPT ![file[fd]][p] = v]
           /\ UNCHANGED <<file, disposed, held>>
  BY DEF WritePage, FormatPage
<1>2. /\ k \in FrameId /\ k \in Cached /\ h \in Cached /\ h # k
      /\ file[fd] \in File
  BY <1>1, HeldCached, ResidentHeader DEF FrameId, HeaderFrame, Ready
<1> HIDE DEF h
<1>3. /\ Cached' = Cached /\ frames'[k].data = v
      /\ \A j \in Cached : j # k => frames'[j].data = frames[j].data
  <2> HIDE DEF k
  <2>1. frames[k] \in Frame
    BY <1>2, CachedPins DEF Ready
  <2> QED
    BY <1>1, <1>2, <2>1 DEF Cached, Frame, Synced
<1>4. \A g \in File, q \in PageId : (g = file[fd] /\ q = p) \/ disk'[g][q] = disk[g][q]
  BY <1>1 DEF Ready, Books, TypeOK
<1>5. OthersSeen(file[fd], p)
  <2>1. IsOpen(fd) /\ file' = file /\ Books /\ FramesMatch /\ Shown
    BY <1>1 DEF Ready
  <2>2. \A j \in Cached : j # <<fd, p>> /\ j # HeaderFrame(fd) => frames'[j].data = frames[j].data
    BY <1>3
  <2> QED
    BY <1>3, <1>4, <2>1, <2>2, OthersInPlace
<1>6. FileHeader(fd)' = FileHeader(fd)
  BY <1>2, <1>3 DEF FileHeader, HeaderFrame, h
<1>7. Current(file[fd], p)' = v
  <2>1. IsOpen(fd)' /\ file'[fd] = file[fd]
    BY <1>1 DEF IsOpen
  <2> QED
    BY <1>2, <1>3, <2>1 DEF Shown
<1>8. p \in ClientPage /\ v \in Data
  BY DEF ClientPage, Data
<1> QED
  BY <1>1, <1>5, <1>6, <1>7, <1>8, StoreWrites DEF Ready, StoreStep

\* A page leaves the cache and the bitmap; what it holds stays in the file.
LEMMA PurgedSeen ==
  ASSUME Ready, Shown', file' = file, NEW fd \in Fd, IsOpen(fd),
         NEW p \in FileHeader(fd).bitmap, p # HeaderPage, Purged(fd, p)
  PROVE  /\ p \in ClientPage
         /\ FileHeader(fd)'.bitmap = FileHeader(fd).bitmap \ {p}
         /\ OthersSeen(file[fd], p)
         /\ Current(file[fd], p)' = Current(file[fd], p)
<1> DEFINE k == <<fd, p>>
           h == HeaderFrame(fd)
           E == {k} \cap Cached
<1>1. PICK m : m = Cleared(fd, p)
  OBVIOUS
<1>2. disk' = Flushed(Dirty(E)) /\ frames' = [Remaining({k}) EXCEPT ![h] = m]
  BY <1>1 DEF Purged
<1>3. /\ p \in PageId /\ p \in ClientPage /\ k \in FrameId
      /\ h \in Cached \ {k} /\ file[fd] \in File
  BY ResidentHeader, PageIds DEF HeaderOK, Header, FrameId, HeaderFrame, ClientPage, Ready
<1>4. m \in Frame /\ m.data.bitmap = FileHeader(fd).bitmap \ {p}
  BY <1>1, ClearedHeader DEF Ready
<1>5. /\ Cached' = Cached \ {k}
      /\ frames'[h] = m
      /\ \A j \in Cached \ {k} : j # h => frames'[j] = frames[j]
  <2>1. RemainsAndMarks({k}, h, m)
    BY <1>2 DEF RemainsAndMarks
  <2> HIDE DEF h, k
  <2> QED
    BY <1>3, <1>4, <2>1, RemainingFramesAndHeader DEF Ready
<1>6. FileHeader(fd)'.bitmap = FileHeader(fd).bitmap \ {p}
  BY <1>4, <1>5 DEF FileHeader, HeaderFrame
<1>7. /\ E \subseteq Cached /\ Dirty(E) \subseteq Cached /\ h \notin E
      /\ Cached \ E = Cached \ {k}
  BY <1>3 DEF Dirty
<1>8. \A g \in File, q \in PageId : disk'[g][q] = Flushed(Dirty(E))[g][q]
  BY <1>2
<1>9. \A g \in Fd : file[g] = file[fd] => g = fd
  BY DEF Ready, Books, OneFdPerFile
<1>10. \A g \in Fd : file[g] = file[fd] =>
         /\ <<g, p>> \in Cached \ E =>
              <<g, p>> \in Cached' /\ frames'[<<g, p>>].data = frames[<<g, p>>].data
         /\ <<g, p>> \in E => <<g, p>> \notin Cached'
         /\ <<g, p>> \in Cached' \ Cached => frames'[<<g, p>>].data = disk[file[fd]][p]
  BY <1>5, <1>9
<1>11. \A j \in Cached \ E : j # k /\ j # h => frames'[j].data = frames[j].data
  BY <1>5, <1>7
<1>12. \A j \in FrameId : j # k => (j \in Cached' <=> j \in Cached \ E)
  BY <1>5, <1>7
<1> HIDE DEF E
<1>13. OthersSeen(file[fd], p)
  <2>1. \A g \in File, q \in PageId :
          (g = file[fd] /\ q = p) \/ disk'[g][q] = Flushed(Dirty(E))[g][q]
    BY <1>8
  <2>2. Books /\ FramesMatch /\ Shown
    BY DEF Ready
  <2> QED
    BY <1>3, <1>7, <1>11, <1>12, <2>1, <2>2, OperationSeen
<1>14. Current(file[fd], p)' = Current(file[fd], p)
  BY <1>3, <1>7, <1>8, <1>10, PageSeen DEF Ready
<1> QED
  BY <1>3, <1>6, <1>13, <1>14

LEMMA DisposePageStep ==
  ASSUME Ready, Shown', NEW fd \in Fd, NEW p \in PageId \ {HeaderPage},
         p \in FileHeader(fd).bitmap, DisposePage(fd, p)
  PROVE  StoreStep
<1>1. /\ IsOpen(fd) /\ Purged(fd, p) /\ UNCHANGED <<file, disposed, held>>
      /\ <<fd, p>> \in Cached => frames[<<fd, p>>].pin = 0
      /\ <<fd, p>> \in FrameId /\ <<fd, p>>[2] = p
  BY DEF DisposePage, FrameId
<1>2. held[<<fd, p>>] = 0
  BY <1>1, CachedPins DEF Books, PinAccounting, OwnPin, Ready
<1>3. /\ p \in ClientPage
      /\ FileHeader(fd)'.bitmap = FileHeader(fd).bitmap \ {p}
      /\ OthersSeen(file[fd], p)
      /\ Current(file[fd], p)' = Current(file[fd], p)
  BY <1>1, PurgedSeen
<1> QED
  BY <1>1, <1>2, <1>3, StoreDiscards DEF Ready, StoreStep

LEMMA UnpinPageDisposesStep ==
  ASSUME Ready, Shown', NEW fd \in Fd, NEW p \in PageId \ {HeaderPage}, UnpinPageDisposes(fd, p)
  PROVE  StoreStep
<1>1. /\ IsOpen(fd) /\ Purged(fd, p) /\ file' = file
      /\ held[<<fd, p>>] > 0 /\ frames[<<fd, p>>].pin = 1 /\ p \in disposed[fd]
      /\ disposed' = [disposed EXCEPT ![fd] = @ \ {p}]
      /\ held' = [held EXCEPT ![<<fd, p>>] = @ - 1]
      /\ <<fd, p>> \in FrameId /\ <<fd, p>>[2] = p /\ <<fd, p>> \in Cached
  BY HeldCached DEF UnpinPageDisposes, FrameId, Ready
<1>2. held[<<fd, p>>] = 1
  BY <1>1, CachedPins DEF OwnPin, Ready
<1>3. p \in FileHeader(fd).bitmap
  BY <1>1 DEF Books, DisposalPending, Ready
<1>4. /\ p \in ClientPage
      /\ FileHeader(fd)'.bitmap = FileHeader(fd).bitmap \ {p}
      /\ OthersSeen(file[fd], p)
      /\ Current(file[fd], p)' = Current(file[fd], p)
  BY <1>1, <1>3, PurgedSeen
<1> QED
  BY <1>1, <1>2, <1>4, StoreReleasesLast DEF Ready, StoreStep

LEMMA StoreUnmoved ==
  ASSUME Shown, Shown', Plain,
         \A f \in File : AllocatedPages(f)' = AllocatedPages(f),
         \A f \in File, p \in ClientPage : Current(f, p)' = Current(f, p)
  PROVE  Allocated' = Allocated /\ Contents' = Contents /\ Plain'
<1>1. \A f \in File : \A p \in AllocatedPages(f) : Current(f, p)' = Current(f, p)
  BY DEF Shown
<1>2. Plain'
  BY DEF Plain
<1> QED
  BY <1>1, <1>2 DEF Allocated, Contents

\* A new file has no pages to allocate but its header, and is not open.
LEMMA CreateFileStep ==
  ASSUME Ready, Shown', NEW f \in File, CreateFile(f)
  PROVE  StoreStep
<1>1. /\ \A p \in PageId : disk[f][p] = Absent
      /\ disk' = [disk EXCEPT ![f][HeaderPage] = EmptyHeader]
      /\ UNCHANGED <<file, frames, disposed, held>>
  BY DEF CreateFile
<1>2. \A g \in File, q \in PageId :
        disk'[g][q] = IF g = f /\ q = HeaderPage THEN EmptyHeader ELSE disk[g][q]
  BY <1>1, PageIds DEF Ready, Books, TypeOK
<1>3. ~OpenOn(f)
  <2> SUFFICES ASSUME NEW fd \in Fd, file[fd] = f PROVE FALSE
    BY DEF OpenOn
  <2>1. IsOpen(fd)
    BY NoFileAssumption DEF IsOpen
  <2>2. /\ FileHeader(fd) \in Header
        /\ \A p \in 0 .. FileHeader(fd).pages - 1 : disk[f][p] # Absent
    BY <2>1, ResidentHeader DEF Ready
  <2>3. HeaderPage \in 0 .. FileHeader(fd).pages - 1
    BY <2>2 DEF Header, HeaderPage
  <2> QED
    BY <1>1, <2>2, <2>3, PageIds
<1>4. \A g \in File : OpenOn(g)' = OpenOn(g) /\ FdOf(g)' = FdOf(g)
  BY <1>1 DEF OpenOn, FdOf
<1>5. Cached' = Cached
  BY <1>1 DEF Cached
<1>6. \A g \in File, q \in PageId : ~(g = f /\ q = HeaderPage) => Current(g, q)' = Current(g, q)
  BY <1>1, <1>2, <1>4, <1>5 DEF Current
<1>7. \A g \in File : AllocatedPages(g)' = AllocatedPages(g)
  <2>1. AllocatedPages(f) = {} /\ AllocatedPages(f)' = {}
    <3>1. Current(f, HeaderPage) = Absent
      BY <1>1, <1>3, PageIds DEF Ready, Shown
    <3>2. Current(f, HeaderPage)' = EmptyHeader
      BY <1>2, <1>3, <1>4, PageIds DEF Shown
    <3> QED
      BY <3>1, <3>2 DEF Ready, Shown, Bits, EmptyHeader
  <2>2. ASSUME NEW g \in File, g # f PROVE AllocatedPages(g)' = AllocatedPages(g)
    BY <1>6, <2>2, PageIds DEF Ready, Shown
  <2> QED
    BY <2>1, <2>2
<1>8. Allocated' = Allocated /\ Contents' = Contents /\ Plain'
  BY <1>6, <1>7, StoreUnmoved DEF Ready, ClientPage
<1>9. Users' = Users /\ Doomed' = Doomed
  BY <1>1, <1>4 DEF Users, Doomed
<1> QED
  BY <1>8, <1>9 DEF StoreStep, Store!vars, Allocated, Contents, Users, Doomed

(***************************************************************************)
(* Opening a file is not seen: its pages are read where they were, and     *)
(* nobody has a page of a descriptor that has just been returned.          *)
(***************************************************************************)
LEMMA OpenFileStep ==
  ASSUME Ready, Shown', NEW f \in File, NEW fd \in Fd, OpenFile(f, fd)
  PROVE  StoreStep
<1> DEFINE k == HeaderFrame(fd)
<1>1. PICK E, d : /\ d = disk[f][HeaderPage]
                  /\ Granted(k, E)
                  /\ disk' = Flushed(Dirty(E))
                  /\ frames' = Installed(k, E, NewFrame(d, 1))
  BY DEF OpenFile
<1>2. /\ ~IsOpen(fd) /\ disk[f][HeaderPage] # Absent
      /\ \A g \in Fd : file[g] # f
      /\ \A j \in Cached : j[1] # fd
      /\ file' = [file EXCEPT ![fd] = f]
      /\ UNCHANGED <<disposed, held>>
      /\ k \in FrameId /\ k[1] = fd /\ k[2] = HeaderPage
  BY PageIds DEF OpenFile, Opens, HeaderFrame, FrameId, Ready, FramesMatch, NothingLeft
<1>3. d \in Content /\ E \subseteq Cached /\ Dirty(E) \subseteq Cached
  <2>1. E \subseteq Cached
    BY <1>1, <1>2, GrantedFree, EvictedFree DEF Ready
  <2> QED
    BY <1>1, <1>2, <2>1, PageIds DEF Dirty, Ready, Books, TypeOK
<1>4. /\ Cached' = (Cached \ E) \cup {k}
      /\ frames'[k].data = d
      /\ \A j \in Cached \ E : j # k => frames'[j] = frames[j]
  BY <1>1, <1>2, <1>3, InstalledFrames DEF Ready
<1>5. \A g \in Fd : file'[g] = IF g = fd THEN f ELSE file[g]
  BY <1>2 DEF Ready, Books, TypeOK
<1>6. ~OpenOn(f)
  BY <1>2 DEF OpenOn
<1>7. OpenOn(f)' /\ FdOf(f)' = fd
  <2>1. IsOpen(fd)' /\ file'[fd] = f
    BY <1>5, NoFileAssumption DEF IsOpen
  <2> QED
    BY <2>1 DEF Shown
<1>8. ASSUME NEW g \in File, g # f
      PROVE  OpenOn(g)' = OpenOn(g) /\ (OpenOn(g) => FdOf(g)' = FdOf(g))
  <2>1. \A h \in Fd : file'[h] = g <=> file[h] = g
    BY <1>2, <1>5, <1>8, NoFileAssumption DEF IsOpen
  <2>2. OpenOn(g)' = OpenOn(g)
    BY <2>1 DEF OpenOn
  <2>3. FdOf(g)' = FdOf(g)
    BY <2>1 DEF FdOf
  <2> QED
    BY <2>2, <2>3
<1>9. ASSUME NEW g \in File, NEW q \in PageId PROVE Current(g, q)' = Current(g, q)
  <2>1. CASE g = f
    <3>1. Current(f, q) = disk[f][q] /\ disk'[f][q] = disk[f][q]
      BY <1>1, <1>3, <1>6, FlushedClosed DEF Ready, Shown
    <3>2. Current(f, q)' = IF <<fd, q>> \in Cached' THEN frames'[<<fd, q>>].data ELSE disk'[f][q]
      <4>1. IsOpen(fd)' /\ file'[fd] = f
        BY <1>5, NoFileAssumption DEF IsOpen
      <4> QED
        BY <4>1 DEF Shown
    <3>3. <<fd, q>> \in Cached' => <<fd, q>> = k /\ q = HeaderPage
      BY <1>2, <1>4 DEF HeaderFrame
    <3> QED
      BY <1>1, <1>4, <2>1, <3>1, <3>2, <3>3
  <2>2. CASE g # f
    <3>1. \A h \in Fd : file'[h] = g <=> file[h] = g
      BY <1>2, <1>5, <2>2, NoFileAssumption DEF IsOpen
    <3>2. ASSUME NEW h \in Fd, file[h] = g
          PROVE  /\ <<h, q>> \in Cached \ E =>
                      <<h, q>> \in Cached' /\ frames'[<<h, q>>].data = frames[<<h, q>>].data
                 /\ <<h, q>> \in E => <<h, q>> \notin Cached'
                 /\ <<h, q>> \in Cached' \ Cached => frames'[<<h, q>>].data = disk[g][q]
      <4>1. h # fd /\ <<h, q>> # k
        BY <1>2, <3>2, NoFileAssumption DEF IsOpen, HeaderFrame
      <4> HIDE DEF k
      <4> QED
        BY <1>3, <1>4, <4>1
    <3>3. disk'[g][q] = Flushed(Dirty(E))[g][q]
      BY <1>1
    <3>4. Books /\ FramesMatch /\ Shown
      BY DEF Ready
    <3> QED
      BY <1>3, <3>1, <3>2, <3>3, <3>4, PageSeen
  <2> QED
    BY <2>1, <2>2
<1>10. Allocated' = Allocated /\ Contents' = Contents /\ Plain'
  BY <1>9, StoreKeeps DEF Ready
<1>11. \A q \in ClientPage : held[<<fd, q>>] = 0
  <2> TAKE q \in ClientPage
  <2>1. <<fd, q>> \in FrameId /\ <<fd, q>> \notin Cached
    BY <1>2 DEF FrameId, ClientPage
  <2> QED
    BY <2>1 DEF Ready, Books, PinAccounting
<1>12. disposed[fd] = {}
  BY <1>2 DEF Ready, Books, DisposalPending
<1>13. Users' = Users
  <2>1. \A g \in File : [q \in ClientPage |-> IF OpenOn(g) THEN held[<<FdOf(g), q>>] ELSE 0]' =
                        [q \in ClientPage |-> IF OpenOn(g) THEN held[<<FdOf(g), q>>] ELSE 0]
    BY <1>2, <1>6, <1>7, <1>8, <1>11
  <2> QED
    BY <2>1 DEF Users
<1>14. Doomed' = Doomed
  BY <1>2, <1>6, <1>7, <1>8, <1>12 DEF Doomed
<1> QED
  BY <1>10, <1>13, <1>14 DEF StoreStep, Store!vars, Allocated, Contents, Users, Doomed

(***************************************************************************)
(* A clean exit writes every frame of an open file back: the next process  *)
(* finds the pages and contents, and no holds or disposals.                *)
(***************************************************************************)
LEMMA ShutdownStep ==
  ASSUME Ready, Shown', Shutdown
  PROVE  StoreStep
<1>1. PICK S : S = {k \in Cached : IsOpen(k[1])}
  OBVIOUS
<1>2. /\ disk' = Flushed(S) /\ file' = [fd \in Fd |-> NoFile]
      /\ S \subseteq Cached
  BY <1>1 DEF Shutdown, Restarted
<1>3. \A f \in File : ~OpenOn(f)'
  BY <1>2, NoFileAssumption DEF OpenOn
<1>4. ASSUME NEW f \in File, NEW p \in PageId PROVE Current(f, p)' = Current(f, p)
  <2>1. Current(f, p)' = Flushed(S)[f][p]
    BY <1>2, <1>3 DEF Shown
  <2>2. CASE OpenOn(f)
    <3>1. PICK fd \in Fd : file[fd] = f
      BY <2>2 DEF OpenOn
    <3> DEFINE j == <<fd, p>>
    <3>2. j \in FrameId /\ IsOpen(j[1]) /\ j[1] = fd /\ j[2] = p
      BY <3>1, NoFileAssumption DEF IsOpen, FrameId
    <3>3. Flushed(S)[f][p] = IF j \in S THEN frames[j].data ELSE disk[f][p]
      BY <1>2, <3>1, <3>2, FlushedOwnPage DEF Ready
    <3>4. Current(f, p) = IF j \in Cached THEN frames[j].data ELSE disk[f][p]
      BY <3>1, <3>2 DEF Ready, Shown
    <3>5. j \in S <=> j \in Cached
      BY <1>1, <3>2
    <3> QED
      BY <2>1, <3>3, <3>4, <3>5
  <2>3. CASE ~OpenOn(f)
    BY <1>2, <2>1, <2>3, FlushedClosed DEF Ready, Shown
  <2> QED
    BY <2>2, <2>3
<1>5. Allocated' = Allocated /\ Contents' = Contents /\ Plain'
  BY <1>4, StoreKeeps DEF Ready
<1>6. /\ Users' = [f \in File |-> [p \in ClientPage |-> 0]]
      /\ Doomed' = [f \in File |-> {}]
  BY <1>3 DEF Users, Doomed
<1>7. Store!Restart
  BY <1>5, <1>6 DEF Store!Restart, Allocated, Contents, Users, Doomed
<1> QED
  BY <1>5, <1>7 DEF StoreStep, Store!Next

-----------------------------------------------------------------------------
(* The refinement. *)

\* the operations of OpNext leave no frames of closed files in the cache
LEMMA NothingLeftStep ==
  ASSUME Books, NothingLeft, [OpNext]_vars
  PROVE  NothingLeft'
<1>1. CASE Shutdown
  BY <1>1 DEF Shutdown, Restarted, Cached, NothingLeft
<1>2. CASE ~Shutdown
  <2>1. MarksKept
    BY <1>2, OperationMarks
  <2>2. \A k \in Cached : k[1] \in Fd
    BY DEF Books, TypeOK, FrameId
  <2> QED
    BY <2>1, <2>2 DEF MarksKept, NothingLeft
<1> QED
  BY <1>1, <1>2

LEMMA StoreInit == Init => Store!Init /\ Shown /\ Plain /\ FramesMatch
<1> SUFFICES ASSUME Init PROVE Store!Init /\ Shown /\ Plain /\ FramesMatch
  OBVIOUS
<1>1. Shown
  BY BooksInit, BooksShown
<1>2. \A f \in File : ~OpenOn(f)
  BY NoFileAssumption DEF Init, OpenOn
<1>3. \A f \in File, p \in PageId : Current(f, p) = Absent
  BY <1>1, <1>2 DEF Init, Shown
<1>4. \A f \in File : AllocatedPages(f) = {}
  BY <1>1, <1>3, PageIds DEF Shown, Bits
<1>5. /\ Allocated = [f \in File |-> {}]
      /\ Users = [f \in File |-> [p \in ClientPage |-> 0]]
      /\ Doomed = [f \in File |-> {}]
  BY <1>2, <1>4 DEF Allocated, Users, Doomed
<1>6. Contents = [f \in File |-> [p \in {} |-> p]]
  <2>1. \A f \in File : [p \in AllocatedPages(f) |-> Current(f, p)] = [p \in {} |-> p]
    BY <1>4
  <2> QED
    BY <2>1 DEF Contents
<1>7. Store!Init
  BY <1>5, <1>6 DEF Store!Init, Allocated, Contents, Users, Doomed
<1>8. Plain
  BY <1>3 DEF Plain, ClientPage
<1>9. FramesMatch
  BY DEF Init, FramesMatch, NothingLeft, CleanFramesMatchDisk, Cached
<1> QED
  BY <1>1, <1>7, <1>8, <1>9

LEMMA OperationStep ==
  ASSUME Ready, [OpNext]_vars
  PROVE  Ready' /\ [Store!Next]_(Store!vars)
<1>1. Books'
  BY BooksStep DEF Ready, Next
<1>2. FramesMatch'
  BY CleanStep, NothingLeftStep DEF Ready, FramesMatch, NothingLeft, StraysMarked, Next
<1>3. Shown'
  BY <1>1, BooksShownNext
<1>4. StoreStep
  <2>1. CASE UNCHANGED vars
    <3>1. UNCHANGED <<file, held, disposed, disk>> /\ frames' = frames /\ Cached' = Cached
      BY <2>1 DEF vars, Cached
    <3>2. \A f \in File, p \in PageId : Current(f, p)' = Current(f, p)
      BY <3>1, InPlaceSeen
    <3> QED
      BY <1>3, <3>1, <3>2, StoreSame DEF Ready, StoreStep
  <2>2. ASSUME NEW f \in File, CreateFile(f) PROVE StoreStep
    BY <1>3, <2>2, CreateFileStep
  <2>3. ASSUME NEW f \in File, NEW fd \in Fd, OpenFile(f, fd) \/ OpenFileFails(f, fd)
        PROVE  StoreStep
    BY <1>3, <2>3, OpenFileStep, FailureStep, PageIds
  <2>4. ASSUME NEW fd \in Fd, FlushAllPages(fd) \/ AllocatePageExtends(fd) PROVE StoreStep
    BY <1>3, <2>4, FlushAllPagesStep, AllocatePageExtendsStep
  <2>5. ASSUME NEW fd \in Fd, AllocatePageExtendFails(fd) PROVE StoreStep
    <3>1. file[fd] \in File
      BY <2>5, ResidentHeader DEF AllocatePageExtendFails, Ready
    <3> QED
      BY <1>3, <2>5, <3>1, FailureStep, PageIds
  <2>6. ASSUME NEW fd \in Fd, NEW p \in PageId \ {HeaderPage},
               IsOpen(fd), p \in FileHeader(fd).bitmap,
               \/ GetPageHit(fd, p) \/ GetPageMiss(fd, p) \/ GetPageFails(fd, p)
               \/ DisposePage(fd, p) \/ DisposePageLater(fd, p)
        PROVE  StoreStep
    <3>1. file[fd] \in File
      BY <2>6, ResidentHeader DEF Ready
    <3> QED
      BY <1>3, <2>6, <3>1, GetPageHitStep, GetPageMissStep, FailureStep, DisposePageStep,
         DisposePageLaterStep
  <2>7. ASSUME NEW fd \in Fd, NEW p \in PageId \ {HeaderPage},
               \/ AllocatePageReusesHit(fd, p)
               \/ AllocatePageReusesMiss(fd, p)
               \/ AllocatePageReusesFails(fd, p)
        PROVE  StoreStep
    BY <1>3, <2>7, AllocatePageReusesHitStep, AllocatePageReusesMissStep, AllocatePageReusesFailsStep
  <2>8. ASSUME NEW fd \in Fd, NEW p \in PageId \ {HeaderPage}, NEW v \in Value,
               WritePage(fd, p, v) \/ FormatPage(fd, p, v)
        PROVE  StoreStep
    BY <1>3, <2>8, WritePageStep
  <2>9. ASSUME NEW fd \in Fd, NEW p \in PageId \ {HeaderPage},
               UnpinPage(fd, p) \/ UnpinPageDisposes(fd, p)
        PROVE  StoreStep
    BY <1>3, <2>9, UnpinPageStep, UnpinPageDisposesStep
  <2>10. CASE Shutdown
    BY <1>3, <2>10, ShutdownStep
  <2> QED
    BY <2>1, <2>2, <2>3, <2>4, <2>5, <2>6, <2>7, <2>8, <2>9, <2>10 DEF OpNext
<1> QED
  BY <1>1, <1>2, <1>3, <1>4 DEF Ready, StoreStep

(***************************************************************************)
(* The buffer pool keeps the promise of the page store: whatever GetPage   *)
(* and AllocatePage evict, load and hand out again, and over a Shutdown,   *)
(* clients read what was last written, and a page belongs to its holders   *)
(* until the last of them returns it.                                      *)
(***************************************************************************)
THEOREM BufferPoolImplementsPageStore == OpSpec => ImplementsPageStore
<1>1. Init => Store!Init /\ Ready
  BY StoreInit, BooksInit DEF Ready
<1>2. Ready /\ [OpNext]_vars => Ready' /\ [Store!Next]_(Store!vars)
  BY OperationStep
<1> QED
  BY <1>1, <1>2, PTL DEF OpSpec, ImplementsPageStore, Store!Spec
=============================================================================
