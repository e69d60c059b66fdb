---------------------------- MODULE FrameManager ----------------------------
(***************************************************************************)
(* FrameManager of storage/buffer_pool.cpp, an LruCache from FrameId to    *)
(* the frames of a fixed MemoryPool, under DiskBufferPool::AllocateFrame:  *)
(* its loop of Alloc, GetPurgeableFrame, FlushPage and Free runs here one  *)
(* round per step, where BufferPool takes it in one action.                *)
(***************************************************************************)
EXTENDS Naturals, Sequences, FiniteSets, LruOrder

CONSTANTS
  Fd,        \* file descriptors
  MaxPages,  \* pages of a file
  Item,      \* the frames of the memory pool
  Nil

ASSUME PoolAssumption == IsFiniteSet(Item) /\ MaxPages \in Nat \ {0}

PageId == 0 .. MaxPages - 1
FrameId == Fd \X PageId

ASSUME NilIdAssumption == Nil \notin FrameId
ASSUME NilFdAssumption == Nil \notin Fd   \* open() never returns -1 for a file

VARIABLES
  lru,     \* frame_lru_cache_
  newer,   \* history variable: the order in which the keys were used
  free,    \* frame_allocator_: free_
  used,    \* frame_allocator_: used_
  label,   \* file_desc_ and page_.page_id of every frame
  pinned,  \* frames with pin_count_ > 0
  dirty,   \* frames with dirty_
  open,    \* descriptors a pool is registered for in fd_buffer_pools_
  loop     \* AllocateFrame: its key, the frames it has freed, how it ended

vars == <<lru, newer, free, used, label, pinned, dirty, open, loop>>

Cache == INSTANCE LruList WITH Key <- FrameId, Value <- Item, list <- lru

Cached == Cache!Keys(lru)
FrameOf(k) == lru.node[k].value
Idle == [status |-> "idle"]

\* what the loop found when it was called
Before == [node |-> [k \in Cached |-> [pin |-> IF FrameOf(k) \in pinned THEN 1 ELSE 0,
                                       dirty |-> FrameOf(k) \in dirty]],
           newer |-> newer]

Init ==
  /\ lru = Cache!Empty
  /\ newer = {}
  /\ free \in {s \in [1 .. Cardinality(Item) -> Item] : \A i, j \in DOMAIN s : s[i] = s[j] => i = j}
  /\ used = {}
  /\ label = [i \in Item |-> <<Nil, 0>>]   \* file_desc_ is -1
  /\ pinned = {}
  /\ dirty = {}
  /\ open \in SUBSET Fd
  /\ loop = Idle

-----------------------------------------------------------------------------
(* Operators on the cache: a list l with the order it was used in. *)

\* GetFrame, and the look-up Alloc and Free start with
LookedUp(l, k) == IF k \in Cache!Keys(l) THEN Cache!Touched(l, k) ELSE l
LookedUpOrder(order, l, k) == IF k \in Cache!Keys(l) THEN Touch(order, k, Cache!Keys(l)) ELSE order

\* the cache has the frame i under k: otherwise Free(k, i) is an error
Has(l, k, i) == k \in Cache!Keys(l) /\ l.node[k].value = i

\* mutant: the frame is not returned to the pool
Free_KeepsItem(l, order, k, i) ==
  /\ lru' = IF Has(l, k, i) THEN Cache!Removed(l, k) ELSE LookedUp(l, k)
  /\ newer' = IF Has(l, k, i) THEN Without(order, {k}) ELSE LookedUpOrder(order, l, k)
  /\ UNCHANGED <<free, used>>

\* Free(k, i)
Free(l, order, k, i) ==
  /\ lru' = IF Has(l, k, i) THEN Cache!Removed(l, k) ELSE LookedUp(l, k)
  /\ newer' = IF Has(l, k, i) THEN Without(order, {k}) ELSE LookedUpOrder(order, l, k)
  /\ IF Has(l, k, i) THEN free' = Append(free, i) /\ used' = used \ {i}
                     ELSE UNCHANGED <<free, used>>

\* ForeachReverse: the n-th node from lru_tail_, Nil beyond lru_front_
FromTail(l) ==
  LET walk[n \in Nat] ==
        IF n = 0 THEN l.tail ELSE IF walk[n - 1] = Nil THEN Nil ELSE l.node[walk[n - 1]].prev
  IN  [n \in 0 .. Cardinality(Cache!Keys(l)) |-> walk[n]]

\* a node, not the end of the walk, whose frame nobody holds
Purgeable(l, k) == k \in Cache!Keys(l) /\ l.node[k].value \notin pinned

\* mutant: any unpinned frame
GetPurgeableFrame_Any(l) == {i \in Item : \E k \in Cache!Keys(l) : Purgeable(l, k) /\ i = l.node[k].value}

\* the first frame of the walk that is not pinned, none if all are
GetPurgeableFrame(l) ==
  {i \in Item : \E n \in DOMAIN FromTail(l) :
     /\ Purgeable(l, FromTail(l)[n])
     /\ i = l.node[FromTail(l)[n]].value
     /\ \A m \in 0 .. n - 1 : ~Purgeable(l, FromTail(l)[m])}

-----------------------------------------------------------------------------
(* AllocateFrame: a call, the rounds of its loop, its return. *)

AllocateFrame(k) ==
  /\ loop = Idle
  /\ loop' = [status |-> "running", key |-> k, freed |-> {}, before |-> Before]
  /\ UNCHANGED <<lru, newer, free, used, label, pinned, dirty, open>>

Running == loop.status = "running"
Ends(status) == loop' = [loop EXCEPT !.status = status]

\* mutant: the frame keeps the label of the page it held before
Grant_KeepsLabel(k) ==
  LET i == Head(free) IN
  /\ k \notin Cached /\ free # <<>>
  /\ lru' = Cache!Pushed(lru, k, i)
  /\ newer' = Touch(newer, k, Cached)
  /\ free' = Tail(free)
  /\ used' = used \cup {i}
  /\ pinned' = pinned \cup {i}
  /\ dirty' = dirty \ {i}
  /\ Ends("granted")
  /\ UNCHANGED <<label, open>>

\* Alloc takes the first free frame; the caller (GetPage, AllocatePage,
\* OpenFile) pins it, clears dirty_ and labels it before anything else runs
Grant(k) ==
  LET i == Head(free) IN
  /\ k \notin Cached /\ free # <<>>
  /\ lru' = Cache!Pushed(lru, k, i)
  /\ newer' = Touch(newer, k, Cached)
  /\ free' = Tail(free)
  /\ used' = used \cup {i}
  /\ label' = [label EXCEPT ![i] = k]
  /\ pinned' = pinned \cup {i}
  /\ dirty' = dirty \ {i}
  /\ Ends("granted")
  /\ UNCHANGED open

\* Alloc gives nothing (it has touched k if k is cached)
NothingFree(k) == k \in Cached \/ free = <<>>
Writable(i) == i \in dirty => label[i][1] \in open

\* a purgeable frame is written if dirty and freed, as the frame its label says
Evict(k) ==
  /\ NothingFree(k)
  /\ \E i \in GetPurgeableFrame(LookedUp(lru, k)) :
       /\ Writable(i)
       /\ Free(LookedUp(lru, k), LookedUpOrder(newer, lru, k), label[i], i)
       /\ dirty' = dirty \ {i}
       /\ loop' = [loop EXCEPT !.freed = @ \cup {label[i]}]
  /\ UNCHANGED <<label, pinned, open>>

\* no frame is purgeable, or the one found cannot be written
Refuse(k) ==
  /\ NothingFree(k)
  /\ \A i \in GetPurgeableFrame(LookedUp(lru, k)) : ~Writable(i)
  /\ lru' = LookedUp(lru, k)
  /\ newer' = LookedUpOrder(newer, lru, k)
  /\ Ends("refused")
  /\ UNCHANGED <<free, used, label, pinned, dirty, open>>

Round == Running /\ (Grant(loop.key) \/ Evict(loop.key) \/ Refuse(loop.key))

Return ==
  /\ loop # Idle /\ ~Running
  /\ loop' = Idle
  /\ UNCHANGED <<lru, newer, free, used, label, pinned, dirty, open>>

-----------------------------------------------------------------------------
(* What the pools do between two calls of AllocateFrame. *)

\* GetPage of a cached page
GetFrame(k) ==
  /\ loop = Idle /\ k \in Cached
  /\ lru' = LookedUp(lru, k)
  /\ newer' = LookedUpOrder(newer, lru, k)
  /\ pinned' = pinned \cup {FrameOf(k)}
  /\ UNCHANGED <<free, used, label, dirty, open, loop>>

\* PurgeFrame of a cached, unpinned page: flushed if dirty, freed under the key
PurgeFrame(k) ==
  /\ loop = Idle /\ k \in Cached
  /\ FrameOf(k) \notin pinned /\ Writable(FrameOf(k))
  /\ Free(Cache!Touched(lru, k), newer, k, FrameOf(k))
  /\ dirty' = dirty \ {FrameOf(k)}
  /\ UNCHANGED <<label, pinned, open, loop>>

\* the holders of pages mark frames dirty and unpin them
Mark(i) ==
  /\ loop = Idle /\ i \in pinned
  /\ dirty' = dirty \cup {i}
  /\ UNCHANGED <<lru, newer, free, used, label, pinned, open, loop>>

Unpin(i) ==
  /\ loop = Idle /\ i \in pinned
  /\ pinned' = pinned \ {i}
  /\ UNCHANGED <<lru, newer, free, used, label, dirty, open, loop>>

\* a descriptor is opened, or closed with its frames left behind
Open(fd) ==
  /\ loop = Idle
  /\ open' = IF fd \in open THEN open \ {fd} ELSE open \cup {fd}
  /\ UNCHANGED <<lru, newer, free, used, label, pinned, dirty, loop>>

Next ==
  \/ \E k \in FrameId : AllocateFrame(k) \/ GetFrame(k) \/ PurgeFrame(k)
  \/ Round
  \/ Return
  \/ \E i \in Item : Mark(i) \/ Unpin(i)
  \/ \E fd \in Fd : Open(fd)

\* the thread in the loop goes on
Spec == Init /\ [][Next]_vars /\ WF_vars(Round)

-----------------------------------------------------------------------------
TypeOK ==
  /\ Cache!TypeOK
  /\ newer \subseteq FrameId \X FrameId
  /\ free \in Seq(Item)
  /\ used \subseteq Item
  /\ label \in [Item -> (Fd \cup {Nil}) \X PageId]
  /\ pinned \subseteq Item /\ dirty \subseteq Item /\ open \subseteq Fd

(***************************************************************************)
(* "the lru cache includes all allocated frames": every frame of the pool  *)
(* is either free, once, or cached under exactly one key, also in the      *)
(* middle of AllocateFrame; none is lost and none serves two pages.        *)
(***************************************************************************)
FramesAccounted ==
  /\ TypeOK
  /\ used = {FrameOf(k) : k \in Cached}
  /\ \A k, j \in Cached : FrameOf(k) = FrameOf(j) => k = j
  /\ {free[n] : n \in DOMAIN free} = Item \ used
  /\ \A m, n \in DOMAIN free : free[m] = free[n] => m = n

(***************************************************************************)
(* The loop does in its rounds what BufferPool says AllocateFrame does in  *)
(* one action: the frames it has freed when it ends are the ones Granted   *)
(* or Refused names for the cache it started with.                         *)
(***************************************************************************)
Pool == INSTANCE BufferPool WITH
  File <- Fd, NumFrames <- Cardinality(Item), Value <- {Nil}, Zero <- Nil, Absent <- Nil,
  NoFile <- Nil, MaxPins <- 1,
  file <- [fd \in Fd |-> IF fd \in open THEN fd ELSE Nil],
  frames <- loop.before.node, recency <- loop.before.newer,
  disposed <- {}, disk <- {}, held <- {}
LoopAnswers ==
  /\ loop.status = "granted" => Pool!Granted(loop.key, loop.freed)
  /\ loop.status = "refused" => Pool!Refused(loop.key, loop.freed)

(***************************************************************************)
(* AllocateFrame returns: its while (true) loop ignores the result of      *)
(* Free, so a frame that is not cached under its own label would be chosen *)
(* again in every round.                                                   *)
(***************************************************************************)
AllocateFrameReturns == Running ~> ~Running
=============================================================================
