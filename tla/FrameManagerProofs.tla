------------------------- MODULE FrameManagerProofs -------------------------
(***************************************************************************)
(* No frame of the pool is lost or shared, in any round of AllocateFrame,  *)
(* and its rounds evict what BufferPool says it evicts in one action.      *)
(* What is known of the linked list comes from LruListProofs.              *)
(***************************************************************************)
EXTENDS FrameManager, SequenceTheorems, FiniteSetTheorems, WellFoundedInduction, TLAPS

Lists == INSTANCE LruListProofs WITH Key <- FrameId, Value <- Item, list <- lru

\* after a use of k the order relates the other keys as before, k above them
LEMMA TouchPairs ==
  ASSUME NEW order, NEW C, NEW k, IsLruOrder(order, C), NEW a, NEW b
  PROVE  <<a, b>> \in Touch(order, k, C) <=>
           \/ a # k /\ b # k /\ <<a, b>> \in order
           \/ a = k /\ b \in C /\ b # k
BY DEF Touch, Without

\* The induction of the proofs about data: the numbers for which a claim
\* fails are a set, and its least member leads to a contradiction.
LEMMA LeastNatural ==
  ASSUME NEW T \in SUBSET Nat, T # {}
  PROVE  \E x \in T : \A y \in T : x <= y
<1> DEFINE R == OpToRel(<, Nat)
<1>1. \A x, y \in Nat : x < y => <<x, y>> \in R
  BY DEF OpToRel
<1>2. PICK x \in T : \A y \in T : <<y, x>> \notin R
  <2>1. IsWellFoundedOn(R, Nat)
    BY NatLessThanWellFounded
  <2> HIDE DEF R
  <2> QED
    BY <2>1, WFMin
<1> HIDE DEF R
<1>3. ASSUME NEW y \in T PROVE x <= y
  <2>1. ~(y < x)
    BY <1>1, <1>2
  <2> QED
    BY <2>1
<1> QED
  BY <1>3

-----------------------------------------------------------------------------
(* The inductive invariant.  A frame that GetPurgeableFrame finds is freed  *)
(* under the key its label says, so the books balance only because the      *)
(* label is the key it is cached under; and a node is found under its key   *)
(* after any other was taken out only because the links are sound.          *)

Labelled == \A k \in Cached : label[FrameOf(k)] = k

LoopKnown ==
  \/ loop = Idle
  \/ \E s, k, f, b : /\ loop = [status |-> s, key |-> k, freed |-> f, before |-> b]
                     /\ k \in FrameId

IInv == FramesAccounted /\ Lists!Sound(lru, newer) /\ Labelled /\ LoopKnown

-----------------------------------------------------------------------------
(* The operators of the list, for the names that this module and the        *)
(* proofs about the list have for them.                                     *)

LEMMA SameOperators ==
  /\ \A l : Cache!Keys(l) = Lists!Keys(l)
  /\ \A node, a, b : Cache!Joined(node, a, b) = Lists!Joined(node, a, b)
  /\ \A l, k : Cache!Touched(l, k) = Lists!Touched(l, k)
  /\ \A l, k, v : Cache!Pushed(l, k, v) = Lists!Pushed(l, k, v)
  /\ \A l, k : Cache!Removed(l, k) = Lists!Removed(l, k)
  /\ \A order, k, C : Touch(order, k, C) = Lists!Touch(order, k, C)
  /\ \A order, S : Without(order, S) = Lists!Without(order, S)
<1>1. \A l : Cache!Keys(l) = Lists!Keys(l)
  BY DEF Cache!Keys, Lists!Keys
<1>2. \A node, a, b : Cache!Joined(node, a, b) = Lists!Joined(node, a, b)
  BY Zenon DEF Cache!Joined, Lists!Joined
<1>3. \A node, front, tail, k : Cache!AtFront(node, front, tail, k) = Lists!AtFront(node, front, tail, k)
  BY <1>2 DEF Cache!AtFront, Lists!AtFront
<1>4. \A l, k : Cache!Touched(l, k) = Lists!Touched(l, k)
  BY <1>2, <1>3 DEF Cache!Touched, Lists!Touched
<1>5. ASSUME NEW l, NEW k, NEW v PROVE Cache!Pushed(l, k, v) = Lists!Pushed(l, k, v)
  BY <1>1, <1>3 DEF Cache!Pushed, Lists!Pushed
<1>6. \A l, k : Cache!Removed(l, k) = Lists!Removed(l, k)
  BY Zenon, <1>1, <1>2 DEF Cache!Removed, Lists!Removed
<1>7. /\ \A order, k, C : Touch(order, k, C) = Lists!Touch(order, k, C)
      /\ \A order, S : Without(order, S) = Lists!Without(order, S)
  BY DEF Touch, Lists!Touch, Without, Lists!Without
<1> QED
  BY <1>1, <1>2, <1>4, <1>5, <1>6, <1>7

LEMMA SoundIsTyped ==
  ASSUME NEW l, NEW order, Lists!Sound(l, order)
  PROVE  /\ Cache!ListOK(l) /\ order \subseteq FrameId \X FrameId
         /\ Cache!Keys(l) \subseteq FrameId
         /\ \A k \in Cache!Keys(l) : l.node[k].value \in Item
         /\ l.node \in Lists!NodesOver(Cache!Keys(l))
         /\ l.front \in Cache!Keys(l) \cup {Nil}
<1>1. Lists!ListOK(l) /\ Lists!Represents(l, order)
  BY DEF Lists!Sound
<1>2. Cache!ListOK(l)
  BY <1>1 DEF Lists!ListOK, Cache!ListOK, Lists!Keys, Cache!Keys, Lists!Pointer, Cache!Pointer
<1>3. order \subseteq Cache!Keys(l) \X Cache!Keys(l)
  BY <1>1 DEF Lists!Represents, Lists!IsLruOrder, Lists!Keys, Cache!Keys
<1>4. /\ l.node \in Lists!NodesOver(Cache!Keys(l))
      /\ l.front \in Cache!Keys(l) \cup {Nil}
  BY <1>2 DEF Cache!ListOK, Cache!Pointer, Lists!NodesOver
<1> QED
  BY <1>2, <1>3, <1>4 DEF Cache!ListOK

\* new has the values of old
KeepsValues(C, old, new) ==
  new \in Lists!NodesOver(C) /\ \A j \in C : new[j].value = old[j].value

\* Joined and AtFront change links and no values.
LEMMA JoinedValues ==
  ASSUME NEW C, NEW node, node \in Lists!NodesOver(C),
         NEW a \in C \cup {Nil}, NEW b \in C \cup {Nil}
  PROVE  KeepsValues(C, node, Cache!Joined(node, a, b))
<1>1. Lists!JoinsTo(C, node, Lists!Joined(node, a, b), a, b)
  BY NilIdAssumption, Lists!JoinedNodes
<1> QED
  BY <1>1, SameOperators DEF Lists!JoinsTo, KeepsValues

LEMMA AtFrontValues ==
  ASSUME NEW C, NEW node, node \in Lists!NodesOver(C),
         NEW front \in C \cup {Nil}, NEW tail, NEW k \in C
  PROVE  /\ Cache!Keys(Cache!AtFront(node, front, tail, k)) = C
         /\ \A j \in C : Cache!AtFront(node, front, tail, k).node[j].value = node[j].value
<1> DEFINE x == Cache!Joined(node, Nil, k)
           y == Cache!Joined(x, k, front)
<1>1. Cache!AtFront(node, front, tail, k) = [node |-> y, front |-> k, tail |-> tail]
  BY DEF Cache!AtFront
<1>2. KeepsValues(C, node, x)
  BY JoinedValues
<1> HIDE DEF x
<1>3. KeepsValues(C, x, y)
  BY <1>2, JoinedValues DEF KeepsValues
<1> HIDE DEF y
<1>4. DOMAIN y = C
  BY <1>3 DEF KeepsValues, Lists!NodesOver
<1> QED
  BY <1>1, <1>2, <1>3, <1>4 DEF Cache!Keys, KeepsValues

-----------------------------------------------------------------------------
(* What the calls of the cache do to its keys, values and order. *)

LEMMA TouchedFrames ==
  ASSUME NEW l, NEW order, Lists!Sound(l, order), NEW k \in Cache!Keys(l)
  PROVE  LET m == Cache!Touched(l, k) IN
         /\ Lists!Sound(m, Touch(order, k, Cache!Keys(l)))
         /\ Cache!Keys(m) = Cache!Keys(l)
         /\ \A j \in Cache!Keys(l) : m.node[j].value = l.node[j].value
<1> DEFINE p == l.node[k].prev
           q == l.node[k].next
           C == Cache!Keys(l)
           x == Cache!Joined(l.node, p, q)
           t == IF q = Nil THEN p ELSE l.tail
<1>1. /\ Lists!Sound(Cache!Touched(l, k), Touch(order, k, Cache!Keys(l)))
      /\ Cache!Keys(Cache!Touched(l, k)) = Cache!Keys(l)
  BY SameOperators, NilIdAssumption, Lists!TouchedSound
<1>2. CASE p = Nil
  BY <1>1, <1>2 DEF Cache!Touched
<1>3. CASE p # Nil
  <2>1. Cache!Touched(l, k) = Cache!AtFront(x, l.front, t, k)
    BY <1>3 DEF Cache!Touched
  <2>2. /\ l.node \in Lists!NodesOver(C) /\ l.front \in C \cup {Nil} /\ k \in C
        /\ p \in C \cup {Nil} /\ q \in C \cup {Nil}
    BY SoundIsTyped DEF Lists!NodesOver
  <2> HIDE DEF C, p, q, t
  <2>3. KeepsValues(C, l.node, x)
    BY <2>2, JoinedValues
  <2> HIDE DEF x
  <2>4. x \in Lists!NodesOver(C)
    BY <2>3 DEF KeepsValues
  <2>5. \A j \in C : Cache!AtFront(x, l.front, t, k).node[j].value = x[j].value
    BY <2>2, <2>4, AtFrontValues
  <2> QED
    BY <1>1, <2>1, <2>3, <2>5 DEF C, KeepsValues
<1> QED
  BY <1>2, <1>3

LEMMA LookedUpFrames ==
  ASSUME NEW l, NEW order, Lists!Sound(l, order), NEW k
  PROVE  LET m == LookedUp(l, k) IN
         /\ Lists!Sound(m, LookedUpOrder(order, l, k))
         /\ Cache!Keys(m) = Cache!Keys(l)
         /\ \A j \in Cache!Keys(l) : m.node[j].value = l.node[j].value
<1> QED
  BY TouchedFrames DEF LookedUp, LookedUpOrder

LEMMA PushedFrames ==
  ASSUME NEW l, NEW order, Lists!Sound(l, order), NEW k \in FrameId \ Cache!Keys(l),
         NEW i \in Item
  PROVE  LET m == Cache!Pushed(l, k, i) IN
         /\ Lists!Sound(m, Touch(order, k, Cache!Keys(l)))
         /\ Cache!Keys(m) = Cache!Keys(l) \cup {k}
         /\ m.node[k].value = i
         /\ \A j \in Cache!Keys(l) : m.node[j].value = l.node[j].value
<1> DEFINE C == Cache!Keys(l) \cup {k}
           x == [j \in C |-> IF j = k THEN [value |-> i, prev |-> Nil, next |-> Nil]
                                     ELSE l.node[j]]
           t == IF l.tail = Nil THEN k ELSE l.tail
<1>1. Lists!Sound(Cache!Pushed(l, k, i), Touch(order, k, Cache!Keys(l)))
  BY SameOperators, NilIdAssumption, Lists!PushedSound
<1>2. Cache!Pushed(l, k, i) = Cache!AtFront(x, l.front, t, k)
  BY DEF Cache!Pushed
<1>3. x \in Lists!NodesOver(C) /\ l.front \in C \cup {Nil}
  BY SoundIsTyped DEF Lists!NodesOver
<1>4. x[k].value = i /\ \A j \in Cache!Keys(l) : x[j].value = l.node[j].value
  OBVIOUS
<1> HIDE DEF x
<1>5. /\ Cache!Keys(Cache!Pushed(l, k, i)) = C
      /\ \A j \in C : Cache!Pushed(l, k, i).node[j].value = x[j].value
  BY <1>2, <1>3, AtFrontValues
<1> QED
  BY <1>1, <1>4, <1>5

LEMMA RemovedFrames ==
  ASSUME NEW l, NEW order, Lists!Sound(l, order), NEW k \in Cache!Keys(l)
  PROVE  LET m == Cache!Removed(l, k) IN
         /\ Lists!Sound(m, Without(order, {k}))
         /\ Cache!Keys(m) = Cache!Keys(l) \ {k}
         /\ \A j \in Cache!Keys(m) : m.node[j].value = l.node[j].value
<1>1. Lists!Sound(Cache!Removed(l, k), Without(order, {k}))
  BY SameOperators, NilIdAssumption, Lists!RemovedSound
<1>2. Cache!Keys(Cache!Removed(l, k)) = Cache!Keys(l) \ {k}
  BY DEF Cache!Removed, Cache!Keys
<1>3. \A j \in Cache!Keys(l) \ {k} :
        Cache!Removed(l, k).node[j] = Cache!Joined(l.node, l.node[k].prev, l.node[k].next)[j]
  BY DEF Cache!Removed, Cache!Keys
<1> DEFINE C == Cache!Keys(l)
           p == l.node[k].prev
           q == l.node[k].next
<1>4. l.node \in Lists!NodesOver(C) /\ p \in C \cup {Nil} /\ q \in C \cup {Nil}
  BY SoundIsTyped DEF Lists!NodesOver
<1> HIDE DEF C, p, q
<1>5. KeepsValues(C, l.node, Cache!Joined(l.node, p, q))
  BY <1>4, JoinedValues
<1> QED
  BY <1>1, <1>2, <1>3, <1>5 DEF C, p, q, KeepsValues

-----------------------------------------------------------------------------
(* The free list. *)

Frames(s) == {s[n] : n \in DOMAIN s}
Once(s) == \A m, n \in DOMAIN s : s[m] = s[n] => m = n

LEMMA AppendFrame ==
  ASSUME NEW s \in Seq(Item), NEW i \in Item, i \notin Frames(s), Once(s)
  PROVE  /\ Append(s, i) \in Seq(Item) /\ Once(Append(s, i))
         /\ Frames(Append(s, i)) = Frames(s) \cup {i}
<1> DEFINE t == Append(s, i)
<1>1. /\ t \in Seq(Item) /\ Len(s) \in Nat
      /\ DOMAIN s = 1 .. Len(s) /\ DOMAIN t = 1 .. Len(s) + 1
      /\ \A n \in 1 .. Len(s) : t[n] = s[n]
      /\ t[Len(s) + 1] = i
  BY AppendProperties, LenProperties
<1> HIDE DEF t
<1>2. Once(t)
  <2> SUFFICES ASSUME NEW m \in 1 .. Len(s) + 1, NEW n \in 1 .. Len(s) + 1, t[m] = t[n]
               PROVE  m = n
    BY <1>1 DEF Once
  <2>1. \A j \in 1 .. Len(s) : t[j] # i
    BY <1>1 DEF Frames
  <2>2. CASE m = Len(s) + 1 \/ n = Len(s) + 1
    BY <1>1, <2>1, <2>2
  <2>3. CASE m \in 1 .. Len(s) /\ n \in 1 .. Len(s)
    BY <1>1, <2>3 DEF Once
  <2> QED
    BY <1>1, <2>2, <2>3
<1>3. Frames(t) = Frames(s) \cup {i}
  BY <1>1 DEF Frames
<1> QED
  BY <1>1, <1>2, <1>3 DEF t

LEMMA TakeFrame ==
  ASSUME NEW s \in Seq(Item), s # <<>>, Once(s)
  PROVE  /\ Head(s) \in Item /\ Head(s) \in Frames(s)
         /\ Tail(s) \in Seq(Item) /\ Once(Tail(s))
         /\ Frames(Tail(s)) = Frames(s) \ {Head(s)}
<1> DEFINE t == Tail(s)
<1>1. /\ Len(s) \in Nat /\ Len(s) # 0 /\ DOMAIN s = 1 .. Len(s) /\ Head(s) = s[1]
      /\ t \in Seq(Item) /\ DOMAIN t = 1 .. Len(s) - 1
      /\ \A n \in 1 .. Len(s) - 1 : t[n] = s[n + 1]
  BY HeadTailProperties, LenProperties, EmptySeq
<1>2. Head(s) \in Item
  BY HeadTailProperties
<1> HIDE DEF t
<1>3. Once(t)
  <2> SUFFICES ASSUME NEW m \in 1 .. Len(s) - 1, NEW n \in 1 .. Len(s) - 1, t[m] = t[n]
               PROVE  m = n
    BY <1>1 DEF Once
  <2>1. s[m + 1] = s[n + 1] /\ m + 1 \in 1 .. Len(s) /\ n + 1 \in 1 .. Len(s)
    BY <1>1
  <2>2. m + 1 = n + 1
    BY <1>1, <2>1 DEF Once
  <2> QED
    BY <2>2
<1>4. Frames(t) \subseteq Frames(s) \ {Head(s)}
  BY <1>1 DEF Frames, Once
<1>5. ASSUME NEW i \in Frames(s), i # Head(s) PROVE i \in Frames(t)
  <2>1. PICK n \in 1 .. Len(s) : i = s[n]
    BY <1>1 DEF Frames
  <2>2. n - 1 \in 1 .. Len(s) - 1 /\ (n - 1) + 1 = n
    BY <1>1, <1>5, <2>1
  <2>3. t[n - 1] = s[n]
    BY <1>1, <2>2
  <2> QED
    BY <1>1, <2>1, <2>2, <2>3 DEF Frames
<1>6. Head(s) \in Frames(s)
  BY <1>1 DEF Frames
<1> QED
  BY <1>1, <1>2, <1>3, <1>4, <1>5, <1>6 DEF t

-----------------------------------------------------------------------------
(* The steps. *)

LEMMA InitIInv == Init => IInv
<1> SUFFICES ASSUME Init PROVE IInv
  OBVIOUS
<1>1. lru = Cache!Empty /\ newer = {} /\ used = {} /\ loop = Idle
  BY DEF Init
<1>2. Cached = {}
  BY <1>1 DEF Cached, Cache!Keys, Cache!Empty
<1>3. Lists!Sound(lru, newer)
  BY <1>1 DEF Cache!Empty, Lists!Sound, Lists!ListOK, Lists!Pointer, Lists!Keys,
              Lists!Represents, Lists!IsLruOrder
<1>4. free \in Seq(Item) /\ Once(free) /\ Frames(free) = Item
  <2> DEFINE n == Cardinality(Item)
  <2>1. n \in Nat
    BY PoolAssumption, FS_CardinalityType
  <2>2. free \in [1 .. n -> Item] /\ Once(free)
    BY DEF Init, Once
  <2>3. IsFiniteSet(1 .. n) /\ Cardinality(1 .. n) = n
    BY <2>1, FS_Interval
  <2>4. free \in Injection(1 .. n, Item)
    BY <2>2 DEF Once, Injection, IsInjective
  <2>5. free \in Surjection(1 .. n, Item)
    BY <2>3, <2>4, PoolAssumption, FS_Injection
  <2> QED
    BY <2>1, <2>2, <2>5 DEF Surjection, Frames
<1>5. TypeOK
  <2>1. Cache!TypeOK /\ newer \subseteq FrameId \X FrameId
    BY <1>3, SoundIsTyped DEF Cache!TypeOK
  <2>2. label \in [Item -> (Fd \cup {Nil}) \X PageId]
    BY PoolAssumption DEF Init, PageId
  <2> QED
    BY <1>1, <1>4, <2>1, <2>2 DEF Init, TypeOK
<1>6. FramesAccounted
  BY <1>1, <1>2, <1>4, <1>5 DEF FramesAccounted, Frames, Once
<1> QED
  BY <1>1, <1>2, <1>3, <1>6 DEF IInv, Labelled, LoopKnown

\* The parts of the invariant that are about the cache and the free list.
LEMMA Parts ==
  ASSUME IInv
  PROVE  /\ TypeOK /\ Lists!Sound(lru, newer) /\ Labelled /\ LoopKnown
         /\ Cached \subseteq FrameId /\ \A k \in Cached : FrameOf(k) \in Item
         /\ used = {FrameOf(k) : k \in Cached}
         /\ \A k, j \in Cached : FrameOf(k) = FrameOf(j) => k = j
         /\ free \in Seq(Item) /\ Once(free) /\ Frames(free) = Item \ used
<1> QED
  BY SoundIsTyped DEF IInv, FramesAccounted, TypeOK, Once, Frames, Cached, FrameOf

\* Types that follow from those of the cache.
LEMMA Assemble ==
  ASSUME Lists!Sound(lru', newer'),
         label' \in [Item -> (Fd \cup {Nil}) \X PageId],
         pinned' \subseteq Item, dirty' \subseteq Item, open' \subseteq Fd,
         free' \in Seq(Item), Once(free'), Frames(free') = Item \ used', used' \subseteq Item,
         used' = {FrameOf(k)' : k \in Cached'},
         \A k, j \in Cached' : FrameOf(k)' = FrameOf(j)' => k = j,
         \A k \in Cached' : label'[FrameOf(k)'] = k,
         LoopKnown'
  PROVE  IInv'
<1>1. TypeOK'
  BY SoundIsTyped DEF TypeOK, Cache!TypeOK
<1>2. FramesAccounted'
  BY <1>1 DEF FramesAccounted, Once, Frames
<1> QED
  BY <1>1, <1>2 DEF IInv, Labelled

\* The cache is only looked at: its frames stay where they are.
LEMMA SameFrames ==
  ASSUME IInv, Lists!Sound(lru', newer'), Cached' = Cached,
         \A k \in Cached : FrameOf(k)' = FrameOf(k),
         UNCHANGED <<free, used, label>>,
         pinned' \subseteq Item, dirty' \subseteq Item, open' \subseteq Fd, LoopKnown'
  PROVE  IInv'
<1>1. /\ label' \in [Item -> (Fd \cup {Nil}) \X PageId] /\ used' \subseteq Item
      /\ used' = {FrameOf(k)' : k \in Cached'}
      /\ \A k, j \in Cached' : FrameOf(k)' = FrameOf(j)' => k = j
      /\ \A k \in Cached' : label'[FrameOf(k)'] = k
      /\ free' \in Seq(Item) /\ Once(free') /\ Frames(free') = Item \ used'
  BY Parts DEF TypeOK, Labelled
<1> QED
  BY <1>1, Assemble

\* Free of a cached frame under the key it is cached under.
LEMMA FreeStep ==
  ASSUME IInv, NEW l, NEW order, Lists!Sound(l, order), Cache!Keys(l) = Cached,
         \A j \in Cached : l.node[j].value = FrameOf(j),
         NEW k \in Cached, Free(l, order, k, FrameOf(k)), UNCHANGED label,
         pinned' \subseteq Item, dirty' \subseteq Item, open' \subseteq Fd, LoopKnown'
  PROVE  IInv'
<1> DEFINE i == FrameOf(k)
<1>1. Has(l, k, i)
  BY DEF Has
<1>2. /\ lru' = Cache!Removed(l, k) /\ newer' = Without(order, {k})
      /\ free' = Append(free, i) /\ used' = used \ {i}
  BY <1>1 DEF Free
<1>3. /\ Lists!Sound(lru', newer') /\ Cached' = Cached \ {k}
      /\ \A j \in Cached' : FrameOf(j)' = FrameOf(j)
  BY <1>2, RemovedFrames DEF Cached, FrameOf
<1>4. i \in Item /\ i \in used /\ \A j \in Cached : FrameOf(j) = i => j = k
  BY Parts
<1>5. free' \in Seq(Item) /\ Once(free') /\ Frames(free') = Item \ used'
  <2>1. free \in Seq(Item) /\ Once(free) /\ Frames(free) = Item \ used
    BY Parts
  <2>2. i \notin Frames(free)
    BY <1>4, <2>1
  <2> QED
    BY <1>2, <1>4, <2>1, <2>2, AppendFrame
<1> HIDE DEF i
<1>6. used' = {FrameOf(j)' : j \in Cached'}
  <2>1. used = {FrameOf(j) : j \in Cached}
    BY Parts
  <2> QED
    BY <1>2, <1>3, <1>4, <2>1 DEF i
<1>7. /\ \A j, h \in Cached' : FrameOf(j)' = FrameOf(h)' => j = h
      /\ \A j \in Cached' : label'[FrameOf(j)'] = j
      /\ label' \in [Item -> (Fd \cup {Nil}) \X PageId] /\ used' \subseteq Item
  BY <1>2, <1>3, Parts DEF Labelled, TypeOK
<1> QED
  BY <1>3, <1>5, <1>6, <1>7, Assemble

\* Between calls the loop is idle, and AllocateFrame gives it a key.
LEMMA CallStep ==
  ASSUME IInv, NEW k \in FrameId, AllocateFrame(k)
  PROVE  IInv'
<1>1. UNCHANGED <<lru, newer, free, used, label, pinned, dirty, open>> /\ LoopKnown'
  BY DEF AllocateFrame, LoopKnown
<1>2. Cached' = Cached /\ \A j \in Cached : FrameOf(j)' = FrameOf(j)
  BY <1>1 DEF Cached, FrameOf
<1> QED
  BY <1>1, <1>2, Parts, SameFrames DEF TypeOK

LEMMA LoopGoesOn ==
  ASSUME LoopKnown, Running
  PROVE  /\ loop.key \in FrameId
         /\ \A status : Ends(status) => LoopKnown'
         /\ \A F : loop' = [loop EXCEPT !.freed = F] => LoopKnown'
<1>1. PICK s, k, f, b : /\ loop = [status |-> s, key |-> k, freed |-> f, before |-> b]
                       /\ k \in FrameId
  BY DEF LoopKnown, Running, Idle
<1>2. ASSUME NEW status, Ends(status) PROVE LoopKnown'
  <2>1. loop' = [status |-> status, key |-> k, freed |-> f, before |-> b]
    BY <1>1, <1>2 DEF Ends
  <2> QED
    BY <1>1, <2>1 DEF LoopKnown
<1>3. ASSUME NEW F, loop' = [loop EXCEPT !.freed = F] PROVE LoopKnown'
  <2>1. loop' = [status |-> s, key |-> k, freed |-> F, before |-> b]
    BY <1>1, <1>3
  <2> QED
    BY <1>1, <2>1 DEF LoopKnown
<1> QED
  BY <1>1, <1>2, <1>3

LEMMA GrantStep ==
  ASSUME IInv, Running, NEW k \in FrameId, k = loop.key, Grant(k)
  PROVE  IInv'
<1> DEFINE i == Head(free)
<1>1. k \in FrameId \ Cached /\ LoopKnown'
  BY Parts, LoopGoesOn DEF Grant
<1>2. /\ i \in Item /\ i \in Frames(free)
      /\ Tail(free) \in Seq(Item) /\ Once(Tail(free)) /\ Frames(Tail(free)) = Frames(free) \ {i}
  BY Parts, TakeFrame DEF Grant
<1>3. /\ lru' = Cache!Pushed(lru, k, i) /\ newer' = Touch(newer, k, Cached)
      /\ free' = Tail(free) /\ used' = used \cup {i} /\ label' = [label EXCEPT ![i] = k]
      /\ pinned' = pinned \cup {i} /\ dirty' = dirty \ {i} /\ UNCHANGED open
  BY DEF Grant
<1> HIDE DEF i
<1>4. /\ Lists!Sound(lru', newer') /\ Cached' = Cached \cup {k} /\ FrameOf(k)' = i
      /\ \A j \in Cached : FrameOf(j)' = FrameOf(j)
  <2>1. Lists!Sound(lru, newer) /\ k \in FrameId \ Cache!Keys(lru) /\ Cached = Cache!Keys(lru)
    BY <1>1, Parts DEF Cached
  <2>2. /\ Lists!Sound(lru', newer') /\ Cache!Keys(lru') = Cache!Keys(lru) \cup {k}
        /\ lru'.node[k].value = i
        /\ \A j \in Cache!Keys(lru) : lru'.node[j].value = lru.node[j].value
    BY <1>2, <1>3, <2>1, PushedFrames
  <2> QED
    BY <2>1, <2>2 DEF Cached, FrameOf
<1>5. \A j \in Cached : FrameOf(j) \in Item /\ FrameOf(j) # i
  BY <1>2, Parts
<1>6. free' \in Seq(Item) /\ Once(free') /\ Frames(free') = Item \ used'
  BY <1>2, <1>3, Parts
<1>7. used' = {FrameOf(j)' : j \in Cached'} /\ used' \subseteq Item
  <2>1. used = {FrameOf(j) : j \in Cached}
    BY Parts
  <2> QED
    BY <1>2, <1>3, <1>4, <1>5, <2>1
<1>8. \A j, h \in Cached' : FrameOf(j)' = FrameOf(h)' => j = h
  BY <1>4, <1>5, Parts
<1>9. /\ \A j \in Cached' : label'[FrameOf(j)'] = j
      /\ label' \in [Item -> (Fd \cup {Nil}) \X PageId]
  <2>1. label \in [Item -> (Fd \cup {Nil}) \X PageId] /\ \A j \in Cached : label[FrameOf(j)] = j
    BY Parts DEF TypeOK, Labelled
  <2>2. k \in (Fd \cup {Nil}) \X PageId
    BY <1>1 DEF FrameId
  <2> QED
    BY <1>2, <1>3, <1>4, <1>5, <2>1, <2>2
<1>10. pinned' \subseteq Item /\ dirty' \subseteq Item /\ open' \subseteq Fd
  BY <1>2, <1>3, Parts DEF TypeOK
<1> QED
  BY <1>1, <1>4, <1>6, <1>7, <1>8, <1>9, <1>10, Assemble

\* The frame that is evicted is freed: its label is its key.
LEMMA EvictStep ==
  ASSUME IInv, Running, Evict(loop.key)
  PROVE  IInv'
<1> DEFINE l == LookedUp(lru, loop.key)
           order == LookedUpOrder(newer, lru, loop.key)
<1>1. PICK i \in GetPurgeableFrame(l) :
        /\ Free(l, order, label[i], i)
        /\ dirty' = dirty \ {i}
        /\ loop' = [loop EXCEPT !.freed = @ \cup {label[i]}]
  BY DEF Evict
<1>2. UNCHANGED <<label, pinned, open>>
  BY DEF Evict
<1>3. /\ Lists!Sound(l, order) /\ Cache!Keys(l) = Cached
      /\ \A j \in Cached : l.node[j].value = FrameOf(j)
  BY Parts, LookedUpFrames DEF Cached, FrameOf
<1>4. PICK k \in Cached : i = FrameOf(k)
  <2>1. \E k \in Cache!Keys(l) : i = l.node[k].value
    BY <1>1 DEF GetPurgeableFrame, Purgeable
  <2> QED
    BY <1>3, <2>1
<1>5. label[i] = k
  BY <1>4, Parts DEF Labelled
<1>6. LoopKnown'
  BY <1>1, Parts, LoopGoesOn
<1>7. pinned' \subseteq Item /\ dirty' \subseteq Item /\ open' \subseteq Fd
  BY <1>1, <1>2, Parts DEF TypeOK
<1> HIDE DEF l, order
<1> QED
  BY <1>1, <1>2, <1>3, <1>4, <1>5, <1>6, <1>7, FreeStep

LEMMA RefuseStep ==
  ASSUME IInv, Running, Refuse(loop.key)
  PROVE  IInv'
<1>1. /\ lru' = LookedUp(lru, loop.key) /\ newer' = LookedUpOrder(newer, lru, loop.key)
      /\ UNCHANGED <<free, used, label, pinned, dirty, open>>
  BY DEF Refuse
<1>2. /\ Lists!Sound(lru', newer') /\ Cached' = Cached
      /\ \A j \in Cached : FrameOf(j)' = FrameOf(j)
  BY <1>1, Parts, LookedUpFrames DEF Cached, FrameOf
<1>3. LoopKnown'
  BY Parts, LoopGoesOn DEF Refuse
<1> QED
  BY <1>1, <1>2, <1>3, Parts, SameFrames DEF TypeOK

LEMMA GetFrameStep ==
  ASSUME IInv, NEW k \in FrameId, GetFrame(k)
  PROVE  IInv'
<1>1. /\ k \in Cached /\ lru' = LookedUp(lru, k) /\ newer' = LookedUpOrder(newer, lru, k)
      /\ pinned' = pinned \cup {FrameOf(k)}
      /\ UNCHANGED <<free, used, label, dirty, open, loop>>
  BY DEF GetFrame
<1>2. /\ Lists!Sound(lru', newer') /\ Cached' = Cached
      /\ \A j \in Cached : FrameOf(j)' = FrameOf(j)
  BY <1>1, Parts, LookedUpFrames DEF Cached, FrameOf
<1>3. pinned' \subseteq Item /\ dirty' \subseteq Item /\ open' \subseteq Fd /\ LoopKnown'
  BY <1>1, Parts DEF TypeOK, LoopKnown
<1> QED
  BY <1>1, <1>2, <1>3, SameFrames

\* The frame is looked up first; what the use does to the order goes with its key.
LEMMA PurgeStep ==
  ASSUME IInv, NEW k \in FrameId, PurgeFrame(k)
  PROVE  IInv'
<1> DEFINE l == Cache!Touched(lru, k)
           i == FrameOf(k)
           order == Touch(newer, k, Cached)
<1>1. k \in Cached /\ Free(l, newer, k, i) /\ dirty' = dirty \ {i} /\ UNCHANGED <<label, pinned, open, loop>>
  BY DEF PurgeFrame
<1>2. /\ Lists!Sound(l, order) /\ Cache!Keys(l) = Cached
      /\ \A j \in Cached : l.node[j].value = FrameOf(j)
  BY <1>1, Parts, TouchedFrames DEF Cached, FrameOf
<1>3. Without(order, {k}) = Without(newer, {k})
  BY DEF Touch, Without
<1>4. Has(l, k, i)
  BY <1>1, <1>2 DEF Has
<1>5. Free(l, order, k, i)
  BY <1>1, <1>3, <1>4 DEF Free
<1>6. pinned' \subseteq Item /\ dirty' \subseteq Item /\ open' \subseteq Fd /\ LoopKnown'
  BY <1>1, Parts DEF TypeOK, LoopKnown
<1> HIDE DEF l, order
<1> QED
  BY <1>1, <1>2, <1>5, <1>6, FreeStep

\* The cache and the free list are left alone.
LEMMA ClientSteps ==
  ASSUME IInv,
         \/ Return
         \/ \E i \in Item : Mark(i) \/ Unpin(i)
         \/ \E fd \in Fd : Open(fd)
         \/ UNCHANGED vars
  PROVE  IInv'
<1>1. UNCHANGED <<lru, newer, free, used, label>>
  BY DEF Return, Mark, Unpin, Open, vars
<1>2. Cached' = Cached /\ \A j \in Cached : FrameOf(j)' = FrameOf(j)
  BY <1>1 DEF Cached, FrameOf
<1>3. LoopKnown'
  BY Parts DEF Return, Mark, Unpin, Open, vars, LoopKnown
<1>4. pinned' \subseteq Item /\ dirty' \subseteq Item /\ open' \subseteq Fd
  BY Parts DEF Return, Mark, Unpin, Open, vars, TypeOK
<1>5. Lists!Sound(lru', newer')
  BY <1>1, Parts
<1> QED
  BY <1>1, <1>2, <1>3, <1>4, <1>5, SameFrames

LEMMA NextIInv == IInv /\ [Next]_vars => IInv'
<1> SUFFICES ASSUME IInv, [Next]_vars PROVE IInv'
  OBVIOUS
<1>1. ASSUME NEW k \in FrameId, AllocateFrame(k) \/ GetFrame(k) \/ PurgeFrame(k)
      PROVE  IInv'
  BY <1>1, CallStep, GetFrameStep, PurgeStep
<1>2. CASE Round
  <2>1. loop.key \in FrameId /\ Running
    BY <1>2, Parts, LoopGoesOn DEF Round
  <2> QED
    BY <1>2, <2>1, GrantStep, EvictStep, RefuseStep DEF Round
<1> QED
  BY <1>1, <1>2, ClientSteps DEF Next

-----------------------------------------------------------------------------
(* The walk of ForeachReverse.  Its n-th node is the key with n older ones, *)
(* so the first one that passes the test of GetPurgeableFrame is the least  *)
(* recently used.                                                           *)

Rank(order, C, k) == Cardinality({j \in C : <<k, j>> \in order})

LEMMA RankIs ==
  ASSUME NEW order, NEW C, IsFiniteSet(C), IsLruOrder(order, C)
  PROVE  /\ \A k \in C : Rank(order, C, k) \in 0 .. Cardinality(C)
         /\ \A a, b \in C : <<a, b>> \in order => Rank(order, C, b) < Rank(order, C, a)
         /\ \A a, b \in C : Rank(order, C, a) = Rank(order, C, b) => a = b
<1> DEFINE Below(k) == {j \in C : <<k, j>> \in order}
<1>1. ASSUME NEW k \in C
      PROVE  IsFiniteSet(Below(k)) /\ Rank(order, C, k) \in 0 .. Cardinality(C)
  <2>1. Below(k) \subseteq C
    OBVIOUS
  <2>2. IsFiniteSet(Below(k)) /\ Cardinality(Below(k)) <= Cardinality(C)
    BY <2>1, FS_Subset
  <2>3. Cardinality(Below(k)) \in Nat /\ Cardinality(C) \in Nat
    BY <2>2, FS_CardinalityType
  <2> QED
    BY <2>2, <2>3 DEF Rank
<1>2. ASSUME NEW a \in C, NEW b \in C, <<a, b>> \in order
      PROVE  Rank(order, C, b) < Rank(order, C, a)
  <2>1. Below(b) \subseteq Below(a) /\ b \in Below(a) /\ b \notin Below(b)
    BY <1>2 DEF IsLruOrder
  <2>2. Cardinality(Below(b)) < Cardinality(Below(a))
    <3>1. IsFiniteSet(Below(a)) /\ Below(b) # Below(a) /\ Below(b) \in SUBSET Below(a)
      BY <1>1, <2>1
    <3> HIDE DEF Below
    <3>2. /\ IsFiniteSet(Below(b)) /\ Cardinality(Below(b)) <= Cardinality(Below(a))
          /\ Cardinality(Below(b)) # Cardinality(Below(a))
      BY <3>1, FS_Subset
    <3>3. Cardinality(Below(b)) \in Nat /\ Cardinality(Below(a)) \in Nat
      BY <3>1, <3>2, FS_CardinalityType
    <3> QED
      BY <3>2, <3>3
  <2> QED
    BY <2>2 DEF Rank
<1>3. ASSUME NEW a \in C, NEW b \in C, Rank(order, C, a) = Rank(order, C, b), a # b
      PROVE  FALSE
  <2>1. <<a, b>> \in order \/ <<b, a>> \in order
    BY <1>3 DEF IsLruOrder
  <2>2. Rank(order, C, a) \in Nat /\ Rank(order, C, b) \in Nat
    <3>1. Rank(order, C, a) \in 0 .. Cardinality(C) /\ Rank(order, C, b) \in 0 .. Cardinality(C)
      BY <1>1
    <3> QED
      BY <3>1
  <2> QED
    BY <1>2, <1>3, <2>1, <2>2
<1> QED
  BY <1>1, <1>2, <1>3

\* the oldest key has none below it, and a key one more than the next
LEMMA NextRank ==
  ASSUME NEW order, NEW C, IsFiniteSet(C), IsLruOrder(order, C), NEW a \in C
  PROVE  /\ Lists!Oldest(order, C, a) => Rank(order, C, a) = 0
         /\ \A b \in C : Lists!Adjacent(order, C, a, b) => Rank(order, C, a) = Rank(order, C, b) + 1
<1>1. ASSUME Lists!Oldest(order, C, a) PROVE Rank(order, C, a) = 0
  <2>1. {j \in C : <<a, j>> \in order} = {}
    BY <1>1 DEF Lists!Oldest
  <2> QED
    BY <2>1, FS_EmptySet DEF Rank
<1>2. ASSUME NEW b \in C, Lists!Adjacent(order, C, a, b)
      PROVE  Rank(order, C, a) = Rank(order, C, b) + 1
  <2> DEFINE B == {j \in C : <<b, j>> \in order}
  <2>1. {j \in C : <<a, j>> \in order} = B \cup {b} /\ b \notin B
    <3>1. /\ <<a, b>> \in order /\ <<b, b>> \notin order
          /\ \A j \in C : ~(<<a, j>> \in order /\ <<j, b>> \in order)
      BY <1>2 DEF Lists!Adjacent, IsLruOrder
    <3>2. \A j \in C : /\ <<b, j>> \in order => <<a, j>> \in order
                       /\ j = b \/ <<j, b>> \in order \/ <<b, j>> \in order
      BY <3>1 DEF IsLruOrder
    <3>3. {j \in C : <<a, j>> \in order} \subseteq B \cup {b}
      BY <3>1, <3>2
    <3>4. B \cup {b} \subseteq {j \in C : <<a, j>> \in order}
      BY <3>1, <3>2
    <3> QED
      BY <3>1, <3>3, <3>4
  <2>2. IsFiniteSet(B)
    BY FS_Subset
  <2>3. Cardinality(B \cup {b}) = Cardinality(B) + 1
    BY <2>1, <2>2, FS_AddElement
  <2> QED
    BY <2>1, <2>3 DEF Rank
<1> QED
  BY <1>1, <1>2

\* the key with n older ones
Ranked(order, C, n) ==
  IF \E k \in C : Rank(order, C, k) = n THEN CHOOSE k \in C : Rank(order, C, k) = n ELSE Nil

LEMMA RankedIs ==
  ASSUME NEW order, NEW C, IsFiniteSet(C), IsLruOrder(order, C), Nil \notin C, NEW n \in Nat
  PROVE  /\ \A k \in C : Ranked(order, C, n) = k <=> Rank(order, C, k) = n
         /\ Ranked(order, C, n) = Nil <=> \A k \in C : Rank(order, C, k) # n
         /\ Ranked(order, C, n) \in C \cup {Nil}
<1>1. \A a, b \in C : Rank(order, C, a) = Rank(order, C, b) => a = b
  BY RankIs
<1> HIDE DEF Rank
<1> QED
  BY <1>1 DEF Ranked

\* the recursion of the walk
Step(l, w, n) ==
  IF n = 0 THEN l.tail ELSE IF w[n - 1] = Nil THEN Nil ELSE l.node[w[n - 1]].prev

\* the ranked keys satisfy it
LEMMA RankedStep ==
  ASSUME NEW l, NEW order, Lists!Sound(l, order), IsFiniteSet(Cache!Keys(l)), NEW n \in Nat
  PROVE  LET w == [m \in Nat |-> Ranked(order, Cache!Keys(l), m)]
         IN  w[n] = Step(l, w, n)
<1> DEFINE C == Cache!Keys(l)
           w == [m \in Nat |-> Ranked(order, C, m)]
<1>1. /\ IsLruOrder(order, C) /\ Nil \notin C
      /\ \A k \in C : /\ IF l.node[k].next = Nil THEN Lists!Oldest(order, C, k)
                         ELSE Lists!Adjacent(order, C, k, l.node[k].next)
                      /\ IF l.node[k].prev = Nil THEN Lists!Youngest(order, C, k)
                         ELSE Lists!Adjacent(order, C, l.node[k].prev, k)
                      /\ l.node[k].next \in C \cup {Nil} /\ l.node[k].prev \in C \cup {Nil}
      /\ IF C = {} THEN l.tail = Nil ELSE Lists!Oldest(order, C, l.tail)
  <2>1. Lists!Represents(l, order) /\ Cache!Keys(l) = Lists!Keys(l)
    BY SameOperators DEF Lists!Sound
  <2>2. IsLruOrder(order, C)
    BY <2>1 DEF Lists!Represents, Lists!IsLruOrder, IsLruOrder
  <2>3. Nil \notin C
    BY SoundIsTyped, NilIdAssumption
  <2>4. l.node \in Lists!NodesOver(C)
    BY SoundIsTyped
  <2>5. \A k \in C : l.node[k].next \in C \cup {Nil} /\ l.node[k].prev \in C \cup {Nil}
    BY <2>4 DEF Lists!NodesOver
  <2> HIDE DEF C
  <2>6. Lists!Keys(l) = C
    BY <2>1 DEF C
  <2> QED
    BY <2>1, <2>2, <2>3, <2>5, <2>6 DEF Lists!Represents
<1>2. IsFiniteSet(C)
  OBVIOUS
<1> HIDE DEF C
<1>3. \A m \in Nat : w[m] = Ranked(order, C, m)
  OBVIOUS
<1> HIDE DEF w
<1>4. \A m \in Nat : /\ \A k \in C : w[m] = k <=> Rank(order, C, k) = m
                     /\ w[m] = Nil <=> \A k \in C : Rank(order, C, k) # m
                     /\ w[m] \in C \cup {Nil}
  BY <1>1, <1>2, <1>3, RankedIs
<1>5. \A k \in C : Rank(order, C, k) \in Nat
  BY <1>1, <1>2, RankIs
<1>6. ASSUME n = 0 PROVE w[n] = Step(l, w, n)
  <2>1. CASE C = {}
    BY <1>1, <1>4, <1>6, <2>1 DEF Step
  <2>2. CASE C # {}
    <3>1. l.tail \in C /\ Lists!Oldest(order, C, l.tail)
      BY <1>1, <2>2 DEF Lists!Oldest
    <3>2. Rank(order, C, l.tail) = 0
      BY <1>1, <1>2, <3>1, NextRank
    <3> QED
      BY <1>4, <1>6, <3>1, <3>2 DEF Step
  <2> QED
    BY <2>1, <2>2
<1>7. ASSUME n # 0 PROVE w[n] = Step(l, w, n)
  <2>1. n - 1 \in Nat
    BY <1>7
  <2>2. ASSUME NEW a \in C, Rank(order, C, a) = n
        PROVE  /\ l.node[a].next \in C /\ Rank(order, C, l.node[a].next) = n - 1
               /\ <<a, l.node[a].next>> \in order
    <3>1. ~Lists!Oldest(order, C, a)
      BY <1>1, <1>2, <1>7, <2>2, NextRank
    <3>2. l.node[a].next \in C /\ Lists!Adjacent(order, C, a, l.node[a].next)
      BY <1>1, <3>1
    <3>3. Rank(order, C, a) = Rank(order, C, l.node[a].next) + 1
      BY <1>1, <1>2, <3>2, NextRank
    <3> QED
      BY <1>5, <2>2, <3>2, <3>3 DEF Lists!Adjacent
  <2>3. CASE w[n - 1] = Nil
    <3>1. ASSUME NEW k \in C, Rank(order, C, k) = n PROVE FALSE
      <4>1. l.node[k].next \in C /\ Rank(order, C, l.node[k].next) = n - 1
        BY <2>2, <3>1
      <4>2. \A j \in C : Rank(order, C, j) # n - 1
        BY <1>4, <2>1, <2>3
      <4> QED
        BY <4>1, <4>2
    <3>2. w[n] = Nil
      BY <1>4, <3>1
    <3> QED
      BY <1>7, <2>3, <3>2 DEF Step
  <2>4. CASE w[n - 1] # Nil
    <3> DEFINE k == w[n - 1]
               p == l.node[k].prev
    <3>1. k \in C /\ Rank(order, C, k) = n - 1 /\ p \in C \cup {Nil}
      BY <1>1, <1>4, <2>1, <2>4
    <3>2. CASE p = Nil
      <4>1. Lists!Youngest(order, C, k)
        BY <1>1, <3>1, <3>2
      <4>2. ASSUME NEW a \in C, Rank(order, C, a) = n PROVE FALSE
        <5>1. l.node[a].next = k
          BY <1>4, <2>1, <2>2, <3>1, <4>2
        <5> QED
          BY <2>2, <4>1, <4>2, <5>1 DEF Lists!Youngest
      <4> QED
        BY <1>4, <1>7, <2>4, <3>2, <4>2 DEF Step
    <3>3. CASE p # Nil
      <4>1. p \in C /\ Lists!Adjacent(order, C, p, k)
        BY <1>1, <3>1, <3>3
      <4>2. Rank(order, C, p) = Rank(order, C, k) + 1
        BY <1>1, <1>2, <3>1, <4>1, NextRank
      <4>3. Rank(order, C, p) = n
        BY <3>1, <4>2
      <4>4. w[n] = p
        BY <1>4, <4>1, <4>3
      <4> QED
        BY <1>7, <2>4, <4>4 DEF Step
    <3> QED
      BY <3>2, <3>3
  <2> QED
    BY <2>3, <2>4
<1> QED
  BY <1>6, <1>7 DEF w, C

\* two functions that satisfy the recursion are the same
LEMMA OneWalk ==
  ASSUME NEW l, NEW w, NEW v,
         w = [n \in Nat |-> Step(l, w, n)], v = [n \in Nat |-> Step(l, v, n)]
  PROVE  w = v
<1> DEFINE T == {n \in Nat : w[n] # v[n]}
<1>1. \A n \in Nat : w[n] = Step(l, w, n) /\ v[n] = Step(l, v, n)
  BY Zenon
<1>2. ASSUME T # {} PROVE FALSE
  <2>1. T \in SUBSET Nat
    OBVIOUS
  <2>2. PICK n \in T : \A m \in T : n <= m
    <3> HIDE DEF T
    <3> QED
      BY <1>2, <2>1, LeastNatural
  <2>3. n \in Nat /\ w[n] # v[n]
    BY <2>2
  <2>4. CASE n = 0
    BY <1>1, <2>3, <2>4 DEF Step
  <2>5. CASE n # 0
    <3>1. n - 1 \in Nat /\ n - 1 \notin T
      BY <2>2, <2>3, <2>5
    <3>2. w[n - 1] = v[n - 1]
      BY <3>1
    <3>3. Step(l, w, n) = Step(l, v, n)
      BY <3>2 DEF Step
    <3> QED
      BY <1>1, <2>3, <3>3
  <2> QED
    BY <2>4, <2>5
<1>3. \A n \in Nat : w[n] = v[n]
  BY <1>2
<1>4. w = [n \in Nat |-> w[n]] /\ v = [n \in Nat |-> v[n]]
  BY Zenon
<1> QED
  BY <1>3, <1>4

LEMMA WalkIsRanked ==
  ASSUME NEW l, NEW order, Lists!Sound(l, order), IsFiniteSet(Cache!Keys(l))
  PROVE  /\ DOMAIN FromTail(l) = 0 .. Cardinality(Cache!Keys(l))
         /\ \A n \in DOMAIN FromTail(l) : FromTail(l)[n] = Ranked(order, Cache!Keys(l), n)
<1> DEFINE C == Cache!Keys(l)
           w == [n \in Nat |-> Ranked(order, C, n)]
           Walk == CHOOSE x : x = [n \in Nat |-> Step(l, x, n)]
<1>1. w = [n \in Nat |-> Step(l, w, n)]
  <2>1. \A n \in Nat : w[n] = Step(l, w, n)
    BY RankedStep
  <2>2. w = [n \in Nat |-> w[n]]
    OBVIOUS
  <2> HIDE DEF w
  <2> QED
    BY <2>1, <2>2
<1>2. FromTail(l) = [n \in 0 .. Cardinality(C) |-> Walk[n]]
  BY DEF FromTail, Step
<1>3. \A n \in Nat : w[n] = Ranked(order, C, n)
  OBVIOUS
<1> HIDE DEF w
<1>4. Walk = [n \in Nat |-> Step(l, Walk, n)]
  BY <1>1
<1> HIDE DEF Walk
<1>5. Walk = w
  BY <1>1, <1>4, OneWalk
<1>6. Cardinality(C) \in Nat
  BY FS_CardinalityType
<1> QED
  BY <1>2, <1>3, <1>5, <1>6

\* every key used before v is held
LeastUsed(l, order, v) ==
  Purgeable(l, v) /\ \A j \in Cache!Keys(l) : <<v, j>> \in order => ~Purgeable(l, j)

\* GetPurgeableFrame finds the least recently used frame that nobody holds
LEMMA PurgeableIsOldest ==
  ASSUME NEW l, NEW order, Lists!Sound(l, order), IsFiniteSet(Cache!Keys(l))
  PROVE  /\ \A i \in GetPurgeableFrame(l) :
              \E v \in Cache!Keys(l) : LeastUsed(l, order, v) /\ i = l.node[v].value
         /\ GetPurgeableFrame(l) = {} => \A v \in Cache!Keys(l) : ~Purgeable(l, v)
<1> DEFINE C == Cache!Keys(l)
           N == Cardinality(C)
           w(n) == Ranked(order, C, n)
<1>1. /\ DOMAIN FromTail(l) = 0 .. N /\ N \in Nat
      /\ \A n \in 0 .. N : FromTail(l)[n] = w(n)
  BY WalkIsRanked, FS_CardinalityType
<1>2. IsLruOrder(order, C) /\ Nil \notin C /\ IsFiniteSet(C) /\ \A k \in C : l.node[k].value \in Item
  <2>1. Lists!Represents(l, order) /\ Cache!Keys(l) = Lists!Keys(l)
    BY SameOperators DEF Lists!Sound
  <2>2. IsLruOrder(order, C)
    BY <2>1 DEF Lists!Represents, Lists!IsLruOrder, IsLruOrder
  <2> QED
    BY <2>2, SoundIsTyped, NilIdAssumption
<1>3. \A k : Purgeable(l, k) => k \in C
  BY DEF Purgeable
<1> HIDE DEF C, N
<1>4. \A n \in 0 .. N : /\ \A k \in C : w(n) = k <=> Rank(order, C, k) = n
                        /\ w(n) \in C \cup {Nil}
  BY <1>1, <1>2, RankedIs
<1>5. /\ \A k \in C : Rank(order, C, k) \in 0 .. N
      /\ \A a, b \in C : <<a, b>> \in order => Rank(order, C, b) < Rank(order, C, a)
  BY <1>2, RankIs DEF N
<1> HIDE DEF w
<1>6. ASSUME NEW i \in GetPurgeableFrame(l)
      PROVE  \E v \in C : LeastUsed(l, order, v) /\ i = l.node[v].value
  <2>1. PICK n \in 0 .. N : /\ Purgeable(l, w(n)) /\ i = l.node[w(n)].value
                            /\ \A m \in 0 .. n - 1 : ~Purgeable(l, w(m))
    <3>1. PICK n \in 0 .. N : /\ Purgeable(l, FromTail(l)[n]) /\ i = l.node[FromTail(l)[n]].value
                              /\ \A m \in 0 .. n - 1 : ~Purgeable(l, FromTail(l)[m])
      BY <1>1 DEF GetPurgeableFrame
    <3>2. \A m \in 0 .. n - 1 : m \in 0 .. N
      BY <1>1
    <3> QED
      BY <1>1, <3>1, <3>2
  <2>2. w(n) \in C /\ Rank(order, C, w(n)) = n
    BY <1>3, <1>4, <2>1
  <2>3. ASSUME NEW j \in C, <<w(n), j>> \in order PROVE ~Purgeable(l, j)
    <3> DEFINE m == Rank(order, C, j)
    <3>1. m \in 0 .. N /\ m < n
      BY <1>5, <2>2, <2>3
    <3>2. w(m) = j
      BY <1>4, <3>1
    <3>3. m \in 0 .. n - 1
      BY <1>1, <3>1
    <3> QED
      BY <2>1, <3>2, <3>3
  <2> QED
    BY <2>1, <2>2, <2>3 DEF LeastUsed, C
<1>7. ASSUME GetPurgeableFrame(l) = {}, NEW v \in C, Purgeable(l, v) PROVE FALSE
  <2> DEFINE T == {n \in 0 .. N : Purgeable(l, w(n))}
  <2>1. Rank(order, C, v) \in T
    BY <1>4, <1>5, <1>7
  <2>2. T \in SUBSET Nat /\ T # {}
    BY <1>1, <2>1
  <2>3. PICK n \in T : \A m \in T : n <= m
    <3> HIDE DEF T
    <3> QED
      BY <2>2, LeastNatural
  <2>4. n \in 0 .. N /\ Purgeable(l, w(n)) /\ w(n) \in C
    BY <1>3, <2>3
  <2>5. \A m \in 0 .. n - 1 : ~Purgeable(l, w(m))
    <3>1. ASSUME NEW m \in 0 .. n - 1, Purgeable(l, w(m)) PROVE FALSE
      <4>1. m \in T /\ m < n
        BY <1>1, <2>4, <3>1
      <4> QED
        BY <1>1, <2>3, <2>4, <4>1
    <3> QED
      BY <3>1
  <2>6. \A m \in 0 .. n - 1 : m \in 0 .. N
    BY <1>1, <2>4
  <2>7. l.node[w(n)].value \in Item
    BY <1>2, <2>4
  <2>8. /\ n \in DOMAIN FromTail(l) /\ Purgeable(l, FromTail(l)[n])
        /\ l.node[w(n)].value = l.node[FromTail(l)[n]].value
        /\ \A m \in 0 .. n - 1 : ~Purgeable(l, FromTail(l)[m])
    BY <1>1, <2>4, <2>5, <2>6
  <2>9. l.node[w(n)].value \in GetPurgeableFrame(l)
    BY <2>7, <2>8 DEF GetPurgeableFrame
  <2> QED
    BY <1>7, <2>9
<1> QED
  BY <1>6, <1>7 DEF C

-----------------------------------------------------------------------------
(* What the rounds of AllocateFrame have done so far. *)

\* while the loop runs the cache is the one it started with, without the
\* freed frames, in the same order but for the key it looks up again and again
SoFar ==
  /\ Cached = Pool!Cached \ loop.freed
  /\ IsLruOrder(loop.before.newer, Pool!Cached)
  /\ \A j \in Cached : /\ loop.before.node[j].pin = 0 <=> FrameOf(j) \notin pinned
                       /\ loop.before.node[j].dirty <=> FrameOf(j) \in dirty
  /\ \A a, b \in Cached \ {loop.key} : <<a, b>> \in newer <=> <<a, b>> \in loop.before.newer

\* it has freed what it had to, and had to go on every time
Rounds ==
  loop # Idle => /\ Pool!Evicts(loop.key, loop.freed)
                 /\ Running => SoFar

LInv == IInv /\ Rounds /\ LoopAnswers

\* every cached frame is a frame of the pool, under one key
LEMMA CachedFrames ==
  ASSUME IInv
  PROVE  /\ IsFiniteSet(Cached) /\ IsFiniteSet(Item) /\ used \subseteq Item
         /\ Cardinality(Cached) = Cardinality(used)
         /\ Cardinality(Cached) \in Nat /\ Cardinality(Item) \in Nat
<1> DEFINE g == [i \in used |-> label[i]]
<1>1. /\ used = {FrameOf(k) : k \in Cached} /\ used \subseteq Item
      /\ \A k \in Cached : label[FrameOf(k)] = k
  BY Parts DEF Labelled, TypeOK
<1>2. IsFiniteSet(used) /\ IsFiniteSet(Item)
  BY <1>1, PoolAssumption, FS_Subset
<1>3. g \in Bijection(used, Cached)
  <2>1. \A i \in used : g[i] \in Cached /\ i = FrameOf(g[i])
    BY <1>1
  <2>2. \A k \in Cached : FrameOf(k) \in used /\ g[FrameOf(k)] = k
    BY <1>1
  <2>3. g = [i \in used |-> g[i]]
    OBVIOUS
  <2> HIDE DEF g
  <2>4. g \in [used -> Cached]
    BY <2>1, <2>3
  <2>5. \A i, j \in used : g[i] = g[j] => i = j
    BY <2>1
  <2> QED
    BY <2>2, <2>4, <2>5 DEF Bijection, Injection, IsInjective, Surjection
<1> HIDE DEF g
<1>4. IsFiniteSet(Cached) /\ Cardinality(Cached) = Cardinality(used)
  <2>1. ExistsBijection(used, Cached)
    BY <1>3 DEF ExistsBijection
  <2> QED
    BY <1>2, <2>1, FS_Bijection
<1> QED
  BY <1>1, <1>2, <1>4, FS_CardinalityType

\* Alloc has no frame exactly when the cache of the loop's key is full
LEMMA FullMeans ==
  ASSUME IInv, Running, SoFar
  PROVE  NothingFree(loop.key) <=> Pool!Full(loop.key, loop.freed)
<1>1. Pool!Cached \ loop.freed = Cached
  BY DEF SoFar
<1>2. free = <<>> <=> Cardinality(Cached) >= Cardinality(Item)
  <2>1. /\ IsFiniteSet(Item) /\ used \in SUBSET Item /\ Cardinality(Cached) = Cardinality(used)
        /\ Cardinality(Cached) \in Nat /\ Cardinality(Item) \in Nat
    BY CachedFrames
  <2>2. free \in Seq(Item) /\ Frames(free) = Item \ used
    BY Parts
  <2>3. free = <<>> <=> Frames(free) = {}
    BY <2>2, EmptySeq, LenProperties DEF Frames
  <2>4. /\ Cardinality(used) <= Cardinality(Item)
        /\ Cardinality(used) = Cardinality(Item) => used = Item
    BY <2>1, FS_Subset
  <2>5. Frames(free) = {} <=> used = Item
    BY <2>1, <2>2
  <2> QED
    BY <2>1, <2>3, <2>4, <2>5
<1>3. \A S : Pool!Cardinality(S) = Cardinality(S)
  BY DEF Pool!Cardinality, Cardinality
<1> QED
  BY <1>1, <1>2, <1>3 DEF NothingFree, Pool!Full

\* the look-up of k makes it the most recent of the keys, if it is one
LEMMA LookedUpPairs ==
  ASSUME NEW l, NEW order, Lists!Sound(l, order), NEW k,
         NEW a \in Cache!Keys(l), NEW b \in Cache!Keys(l)
  PROVE  <<a, b>> \in LookedUpOrder(order, l, k) <=>
           IF k \in Cache!Keys(l) THEN (a # k /\ b # k /\ <<a, b>> \in order) \/ (a = k /\ b # k)
                                  ELSE <<a, b>> \in order
<1>1. IsLruOrder(order, Cache!Keys(l))
  <2>1. Lists!IsLruOrder(order, Lists!Keys(l)) /\ Lists!Keys(l) = Cache!Keys(l)
    BY SameOperators DEF Lists!Sound, Lists!Represents
  <2> QED
    BY <2>1 DEF Lists!IsLruOrder, IsLruOrder
<1>2. <<a, b>> \in Touch(order, k, Cache!Keys(l)) <=>
        (a # k /\ b # k /\ <<a, b>> \in order) \/ (a = k /\ b # k)
  BY <1>1, TouchPairs
<1> QED
  BY <1>2 DEF LookedUpOrder

\* the frame of the next round is the one the pool has to evict next
LEMMA NextVictim ==
  ASSUME IInv, Running, SoFar, Pool!OldestFirst(loop.key, loop.freed),
         NEW i \in GetPurgeableFrame(LookedUp(lru, loop.key))
  PROVE  \E v \in Cached :
           /\ i = FrameOf(v) /\ label[i] = v
           /\ v \in Pool!Unpinned \ loop.freed
           /\ Pool!OldestFirst(loop.key, loop.freed \cup {v})
           /\ Writable(i) <=> ~Pool!Stranded(v)
<1> DEFINE k == loop.key
           F == loop.freed
           l == LookedUp(lru, k)
           order == LookedUpOrder(newer, lru, k)
<1>1. /\ Lists!Sound(l, order) /\ Cache!Keys(l) = Cached
      /\ \A j \in Cached : l.node[j].value = FrameOf(j)
  BY Parts, LookedUpFrames DEF Cached, FrameOf
<1>2. IsFiniteSet(Cached) /\ IsLruOrder(order, Cached)
  <2>1. IsFiniteSet(Cached)
    BY CachedFrames
  <2>2. Lists!IsLruOrder(order, Lists!Keys(l)) /\ Lists!Keys(l) = Cached
    BY <1>1, SameOperators DEF Lists!Sound, Lists!Represents
  <2> QED
    BY <2>1, <2>2 DEF Lists!IsLruOrder, IsLruOrder
<1>3. PICK v \in Cached : LeastUsed(l, order, v) /\ i = FrameOf(v)
  <2>1. i \in GetPurgeableFrame(l)
    OBVIOUS
  <2> HIDE DEF l, order
  <2>2. \E v \in Cached : LeastUsed(l, order, v) /\ i = l.node[v].value
    BY <1>1, <1>2, <2>1, PurgeableIsOldest
  <2> QED
    BY <1>1, <2>2
<1>4. label[i] = v /\ v \in FrameId
  BY <1>3, Parts DEF Labelled
<1>5. /\ Cached = Pool!Cached \ F
      /\ IsLruOrder(loop.before.newer, Pool!Cached)
      /\ \A j \in Cached : /\ loop.before.node[j].pin = 0 <=> FrameOf(j) \notin pinned
                           /\ loop.before.node[j].dirty <=> FrameOf(j) \in dirty
      /\ \A a, b \in Cached \ {k} : <<a, b>> \in newer <=> <<a, b>> \in loop.before.newer
  BY DEF SoFar
<1>6. \A j \in Cached : Purgeable(l, j) <=> FrameOf(j) \notin pinned
  BY <1>1 DEF Purgeable
<1>7. v \in Pool!Unpinned \ F
  BY <1>3, <1>5, <1>6 DEF LeastUsed, Pool!Unpinned
<1>8. ASSUME NEW a \in Cached, NEW b \in Cached
      PROVE  <<a, b>> \in order <=>
               IF k \in Cached THEN (a # k /\ b # k /\ <<a, b>> \in newer) \/ (a = k /\ b # k)
                               ELSE <<a, b>> \in newer
  BY Parts, LookedUpPairs DEF Cached
<1>9. Pool!OldestFirst(k, F \cup {v})
  <2> SUFFICES ASSUME NEW a \in F \cup {v}, NEW b \in Pool!Unpinned \ (F \cup {v}), b # k
               PROVE  a # k /\ <<b, a>> \in loop.before.newer
    BY <1>7 DEF Pool!OldestFirst, Pool!Younger
  <2>1. CASE a \in F
    BY <2>1 DEF Pool!OldestFirst, Pool!Younger
  <2>2. CASE a = v
    <3>1. b \in Cached /\ b # v /\ FrameOf(b) \notin pinned
      BY <1>5 DEF Pool!Unpinned
    <3>2. <<v, b>> \notin order
      BY <1>1, <1>3, <1>6, <3>1 DEF LeastUsed
    <3>3. <<b, v>> \in order
      BY <1>2, <1>3, <3>1, <3>2 DEF IsLruOrder
    <3>4. v # k
      BY <1>3, <1>8, <3>1, <3>2
    <3>5. <<b, v>> \in newer
      BY <1>3, <1>8, <3>1, <3>3, <3>4
    <3> QED
      BY <1>3, <1>5, <2>2, <3>1, <3>4, <3>5
  <2> QED
    BY <2>1, <2>2
<1>10. Writable(i) <=> ~Pool!Stranded(v)
  <2>1. v[1] \in Fd /\ v[1] # Nil
    BY <1>4, NilFdAssumption DEF FrameId
  <2> QED
    BY <1>3, <1>4, <1>5, <2>1 DEF Writable, Pool!Stranded, Pool!IsOpen
<1> QED
  BY <1>3, <1>4, <1>7, <1>9, <1>10

\* with no frame to find everything the pool may evict is gone
LEMMA NoVictim ==
  ASSUME IInv, Running, SoFar, Pool!OldestFirst(loop.key, loop.freed),
         GetPurgeableFrame(LookedUp(lru, loop.key)) = {}
  PROVE  loop.freed = Pool!Unpinned
<1> DEFINE l == LookedUp(lru, loop.key)
           order == LookedUpOrder(newer, lru, loop.key)
<1>1. /\ Lists!Sound(l, order) /\ Cache!Keys(l) = Cached
      /\ \A j \in Cached : l.node[j].value = FrameOf(j)
  BY Parts, LookedUpFrames DEF Cached, FrameOf
<1>2. IsFiniteSet(Cached)
  BY CachedFrames
<1>3. GetPurgeableFrame(l) = {}
  OBVIOUS
<1> HIDE DEF l, order
<1>4. \A j \in Cached : FrameOf(j) \in pinned
  BY <1>1, <1>2, <1>3, PurgeableIsOldest DEF Purgeable
<1> QED
  BY <1>4 DEF SoFar, Pool!Unpinned, Pool!OldestFirst

\* the pool the loop started with stays what it was
LEMMA SamePool ==
  ASSUME loop'.before = loop.before, open' = open, NEW k, NEW E
  PROVE  /\ Pool!Cached' = Pool!Cached /\ Pool!Unpinned' = Pool!Unpinned
         /\ Pool!Stranded(k)' <=> Pool!Stranded(k)
         /\ Pool!OldestFirst(k, E)' <=> Pool!OldestFirst(k, E)
         /\ Pool!Full(k, E)' <=> Pool!Full(k, E)
         /\ Pool!Evicts(k, E)' <=> Pool!Evicts(k, E)
<1>1. Pool!Cached' = Pool!Cached /\ Pool!Unpinned' = Pool!Unpinned
  BY DEF Pool!Cached, Pool!Unpinned
<1>2. Pool!Stranded(k)' <=> Pool!Stranded(k)
  BY DEF Pool!Stranded, Pool!IsOpen
<1>3. Pool!OldestFirst(k, E)' <=> Pool!OldestFirst(k, E)
  BY <1>1 DEF Pool!OldestFirst, Pool!Younger
<1>4. Pool!Full(k, E)' <=> Pool!Full(k, E)
  BY <1>1 DEF Pool!Full
<1>5. Pool!Evicts(k, E)' <=> Pool!Evicts(k, E)
  BY DEF Pool!Evicts, Pool!OldestFirst, Pool!Full, Pool!Unpinned, Pool!Younger,
         Pool!Stranded, Pool!IsOpen, Pool!Cached
<1> QED
  BY <1>1, <1>2, <1>3, <1>4, <1>5

\* the frames freed in order are still so with the next one
LEMMA OneMore ==
  ASSUME NEW k, NEW F, NEW v \in Pool!Unpinned \ F, IsLruOrder(loop.before.newer, Pool!Cached),
         Pool!Evicts(k, F), Pool!Full(k, F), Pool!OldestFirst(k, F \cup {v}), ~Pool!Stranded(v)
  PROVE  Pool!Evicts(k, F \cup {v})
<1>1. ASSUME NEW D \in SUBSET (F \cup {v}), D # F \cup {v}, Pool!OldestFirst(k, D)
      PROVE  Pool!Full(k, D)
  <2>1. CASE v \notin D
    BY <1>1, <2>1 DEF Pool!Evicts
  <2>2. CASE v \in D
    <3>1. PICK a \in F : a \notin D
      BY <1>1, <2>2
    <3>2. F \subseteq Pool!Unpinned /\ Pool!Unpinned \subseteq Pool!Cached
      BY DEF Pool!Evicts, Pool!OldestFirst, Pool!Unpinned
    <3>3. v = k \/ (a # k /\ <<v, a>> \in loop.before.newer)
      BY <3>1 DEF Pool!Evicts, Pool!OldestFirst, Pool!Younger
    <3>4. a = k \/ (v # k /\ <<a, v>> \in loop.before.newer)
      BY <1>1, <2>2, <3>1, <3>2 DEF Pool!OldestFirst, Pool!Younger
    <3>5. a # v /\ a \in Pool!Cached /\ v \in Pool!Cached
      BY <3>1, <3>2
    <3> QED
      BY <3>3, <3>4, <3>5 DEF IsLruOrder
  <2> QED
    BY <2>1, <2>2
<1> QED
  BY <1>1 DEF Pool!Evicts

\* A call starts with nothing freed.
LEMMA CallRounds ==
  ASSUME IInv, NEW k \in FrameId, AllocateFrame(k)
  PROVE  Rounds' /\ LoopAnswers'
<1>1. /\ loop' = [status |-> "running", key |-> k, freed |-> {}, before |-> Before]
      /\ UNCHANGED <<lru, newer, pinned, dirty, open>>
  BY DEF AllocateFrame
<1>2. /\ Before.newer = newer /\ DOMAIN Before.node = Cached
      /\ \A j \in Cached : /\ Before.node[j].pin = 0 <=> FrameOf(j) \notin pinned
                           /\ Before.node[j].dirty <=> FrameOf(j) \in dirty
  <2>1. ASSUME NEW j \in Cached
        PROVE  /\ Before.node[j].pin = 0 <=> FrameOf(j) \notin pinned
               /\ Before.node[j].dirty <=> FrameOf(j) \in dirty
    <3> DEFINE i == FrameOf(j)
               r == Before.node[j]
    <3>1. r = [pin |-> IF i \in pinned THEN 1 ELSE 0, dirty |-> i \in dirty]
      BY DEF Before
    <3> HIDE DEF i, r
    <3>2. r.pin = 0 <=> i \notin pinned
      BY <3>1
    <3>3. r.dirty <=> i \in dirty
      BY <3>1
    <3> QED
      BY <3>2, <3>3 DEF i, r
  <2> QED
    BY <2>1 DEF Before
<1>3. IsLruOrder(newer, Cached)
  <2>1. Lists!IsLruOrder(newer, Lists!Keys(lru)) /\ Lists!Keys(lru) = Cached
    BY Parts, SameOperators DEF Lists!Sound, Lists!Represents, Cached
  <2> QED
    BY <2>1 DEF Lists!IsLruOrder, IsLruOrder
<1>4. Pool!Evicts(k, {})'
  BY DEF Pool!Evicts, Pool!OldestFirst
<1>5. Cached' = Cached /\ \A j \in Cached : FrameOf(j)' = FrameOf(j)
  BY <1>1 DEF Cached, FrameOf
<1>6. loop'.before.node = Before.node /\ loop'.before.newer = newer
  BY <1>1, <1>2
<1>7. Pool!Cached' = Cached
  BY <1>2, <1>6 DEF Pool!Cached
<1>8. SoFar'
  <2>1. /\ (loop.freed)' = {} /\ (loop.key)' = k
    BY <1>1
  <2> QED
    BY <1>1, <1>2, <1>3, <1>5, <1>6, <1>7, <2>1 DEF SoFar
<1> QED
  BY <1>1, <1>4, <1>8 DEF Rounds, LoopAnswers

\* The loop ends with a frame.
LEMMA GrantRounds ==
  ASSUME IInv, Rounds, Running, Grant(loop.key)
  PROVE  Rounds' /\ LoopAnswers'
<1>1. PICK k, F, b : loop = [status |-> "running", key |-> k, freed |-> F, before |-> b]
  BY Parts DEF LoopKnown, Running, Idle
<1>2. loop' = [status |-> "granted", key |-> k, freed |-> F, before |-> b] /\ open' = open
  BY <1>1 DEF Grant, Ends
<1>3. Pool!Evicts(k, F) /\ SoFar
  BY <1>1 DEF Rounds, Idle
<1>4. ~NothingFree(loop.key)
  BY DEF Grant, NothingFree
<1>5. ~Pool!Full(k, F)
  BY <1>1, <1>3, <1>4, FullMeans
<1>6. loop'.before = loop.before
  BY <1>1, <1>2
<1>7. Pool!Granted(k, F)'
  BY <1>2, <1>3, <1>5, <1>6, SamePool DEF Pool!Granted
<1> QED
  BY <1>2, <1>7 DEF Rounds, LoopAnswers, Running, Pool!Granted

\* The loop goes on without the frame of the oldest key.
LEMMA EvictRounds ==
  ASSUME IInv, Rounds, Running, Evict(loop.key)
  PROVE  Rounds' /\ LoopAnswers'
<1>1. PICK k, F, b : loop = [status |-> "running", key |-> k, freed |-> F, before |-> b]
  BY Parts DEF LoopKnown, Running, Idle
<1> DEFINE l == LookedUp(lru, k)
           order == LookedUpOrder(newer, lru, k)
<1>2. PICK i \in GetPurgeableFrame(l) :
        /\ Writable(i) /\ Free(l, order, label[i], i) /\ dirty' = dirty \ {i}
        /\ loop' = [loop EXCEPT !.freed = @ \cup {label[i]}]
  BY <1>1 DEF Evict
<1>3. NothingFree(loop.key) /\ UNCHANGED <<label, pinned, open>>
  BY DEF Evict
<1>4. Pool!Evicts(k, F) /\ SoFar /\ Pool!OldestFirst(loop.key, loop.freed)
  BY <1>1 DEF Rounds, Idle, Pool!Evicts
<1>5. PICK v \in Cached : /\ i = FrameOf(v) /\ label[i] = v
                          /\ v \in Pool!Unpinned \ F
                          /\ Pool!OldestFirst(k, F \cup {v})
                          /\ Writable(i) <=> ~Pool!Stranded(v)
  BY <1>1, <1>2, <1>4, NextVictim
<1>6. Pool!Evicts(k, F \cup {v}) /\ IsLruOrder(loop.before.newer, Pool!Cached)
  <2>1. Pool!Full(k, F) /\ IsLruOrder(loop.before.newer, Pool!Cached)
    BY <1>1, <1>3, <1>4, FullMeans DEF SoFar
  <2> QED
    BY <1>2, <1>4, <1>5, <2>1, OneMore
<1>7. loop' = [status |-> "running", key |-> k, freed |-> F \cup {v}, before |-> b]
  BY <1>1, <1>2, <1>5
<1>8. loop'.before = loop.before
  BY <1>1, <1>7
<1>9. /\ Lists!Sound(l, order) /\ Cache!Keys(l) = Cached
      /\ \A j \in Cached : l.node[j].value = FrameOf(j)
  BY Parts, LookedUpFrames DEF Cached, FrameOf
<1>10. ASSUME NEW x \in Cached, NEW y \in Cached, x # k, y # k
       PROVE  <<x, y>> \in order <=> <<x, y>> \in newer
  BY <1>10, Parts, LookedUpPairs DEF Cached
<1> HIDE DEF l, order
<1>11. lru' = Cache!Removed(l, v) /\ newer' = Without(order, {v})
  BY <1>2, <1>5, <1>9 DEF Free, Has
<1>12. Cached' = Cached \ {v} /\ \A j \in Cached' : FrameOf(j)' = FrameOf(j)
  BY <1>9, <1>11, RemovedFrames DEF Cached, FrameOf
<1>13. Pool!Evicts(k, F \cup {v})'
  BY <1>3, <1>6, <1>8, SamePool
<1>14. Pool!Cached' = Pool!Cached
  BY <1>8 DEF Pool!Cached
<1>15. /\ Cached = Pool!Cached \ F
       /\ \A j \in Cached : /\ loop.before.node[j].pin = 0 <=> FrameOf(j) \notin pinned
                            /\ loop.before.node[j].dirty <=> FrameOf(j) \in dirty
       /\ \A x, y \in Cached \ {k} : <<x, y>> \in newer <=> <<x, y>> \in loop.before.newer
  BY <1>1, <1>4 DEF SoFar
<1>16. ASSUME NEW j \in Cached' PROVE FrameOf(j)' \in dirty' <=> FrameOf(j) \in dirty
  <2>1. j \in Cached /\ FrameOf(j) # i
    BY <1>5, <1>12, Parts
  <2> QED
    BY <1>2, <1>12, <2>1
<1>17. ASSUME NEW x \in Cached' \ {k}, NEW y \in Cached' \ {k}
       PROVE  <<x, y>> \in newer' <=> <<x, y>> \in loop.before.newer
  <2>1. x \in Cached /\ y \in Cached /\ x # v /\ y # v /\ x # k /\ y # k
    BY <1>12
  <2>2. <<x, y>> \in newer' <=> <<x, y>> \in order
    BY <1>11, <2>1 DEF Without
  <2> QED
    BY <1>10, <1>15, <2>1, <2>2
<1>18. SoFar'
  <2>1. (loop.freed)' = F \cup {v} /\ (loop.key)' = k
    BY <1>7
  <2>2. Cached' = Pool!Cached' \ (F \cup {v})
    BY <1>12, <1>14, <1>15
  <2>3. IsLruOrder((loop.before.newer)', Pool!Cached')
    BY <1>6, <1>8, <1>14
  <2>4. \A j \in Cached' : /\ (loop.before.node[j].pin)' = 0 <=> FrameOf(j)' \notin pinned'
                           /\ (loop.before.node[j].dirty)' <=> FrameOf(j)' \in dirty'
    BY <1>3, <1>8, <1>12, <1>15, <1>16
  <2> QED
    BY <1>8, <1>17, <2>1, <2>2, <2>3, <2>4 DEF SoFar
<1> QED
  BY <1>7, <1>13, <1>18 DEF Rounds, LoopAnswers

\* The loop ends without a frame: nothing is left to evict, or the oldest
\* frame cannot be written.
LEMMA RefuseRounds ==
  ASSUME IInv, Rounds, Running, Refuse(loop.key)
  PROVE  Rounds' /\ LoopAnswers'
<1>1. PICK k, F, b : loop = [status |-> "running", key |-> k, freed |-> F, before |-> b]
  BY Parts DEF LoopKnown, Running, Idle
<1>2. loop' = [status |-> "refused", key |-> k, freed |-> F, before |-> b] /\ open' = open
  BY <1>1 DEF Refuse, Ends
<1>3. Pool!Evicts(k, F) /\ SoFar /\ Pool!OldestFirst(loop.key, loop.freed)
  BY <1>1 DEF Rounds, Idle, Pool!Evicts
<1>4. Pool!Full(k, F)
  BY <1>1, <1>3, FullMeans DEF Refuse
<1>5. F = Pool!Unpinned \/ \E v \in Pool!Unpinned \ F : Pool!Stranded(v) /\ Pool!OldestFirst(k, F \cup {v})
  <2> DEFINE G == GetPurgeableFrame(LookedUp(lru, loop.key))
  <2>1. CASE G = {}
    BY <1>1, <1>3, <2>1, NoVictim
  <2>2. ASSUME NEW i \in G
        PROVE  \E v \in Pool!Unpinned \ F : Pool!Stranded(v) /\ Pool!OldestFirst(k, F \cup {v})
    <3>1. ~Writable(i)
      BY DEF Refuse
    <3>2. PICK v \in Cached : /\ v \in Pool!Unpinned \ loop.freed
                              /\ Pool!OldestFirst(loop.key, loop.freed \cup {v})
                              /\ Writable(i) <=> ~Pool!Stranded(v)
      BY <1>3, NextVictim
    <3> QED
      BY <1>1, <3>1, <3>2
  <2> QED
    BY <2>1, <2>2
<1>6. loop'.before = loop.before
  BY <1>1, <1>2
<1>7. Pool!Refused(k, F)'
  <2>1. Pool!Evicts(k, F)' /\ Pool!Full(k, F)' /\ Pool!Unpinned' = Pool!Unpinned
    BY <1>2, <1>3, <1>4, <1>6, SamePool
  <2>2. CASE F = Pool!Unpinned
    BY <2>1, <2>2 DEF Pool!Refused
  <2>3. ASSUME NEW v \in Pool!Unpinned \ F, Pool!Stranded(v), Pool!OldestFirst(k, F \cup {v})
        PROVE  Pool!Refused(k, F)'
    <3>1. Pool!Stranded(v)' /\ Pool!OldestFirst(k, F \cup {v})' /\ v \in Pool!Unpinned' \ F
      BY <1>2, <1>6, <2>1, <2>3, SamePool
    <3> QED
      BY <2>1, <3>1 DEF Pool!Refused
  <2> QED
    BY <1>5, <2>2, <2>3
<1> QED
  BY <1>2, <1>7 DEF Rounds, LoopAnswers, Running, Pool!Refused

\* Everything else happens between two calls, or changes nothing.
LEMMA QuietRounds ==
  ASSUME Rounds, LoopAnswers, (loop' = Idle \/ UNCHANGED vars)
  PROVE  Rounds' /\ LoopAnswers'
<1>1. CASE loop' = Idle
  BY <1>1 DEF Rounds, LoopAnswers, Idle
<1>2. CASE UNCHANGED vars
  <2> PICK k, F : k = loop.key /\ F = loop.freed
    OBVIOUS
  <2>1. /\ UNCHANGED <<lru, newer, pinned, dirty, open, loop>>
        /\ loop'.key = k /\ loop'.freed = F /\ loop'.before = loop.before
    BY <1>2 DEF vars
  <2>2. /\ Cached' = Cached /\ Pool!Cached' = Pool!Cached /\ Pool!Unpinned' = Pool!Unpinned
        /\ \A j : FrameOf(j)' = FrameOf(j)
    BY <2>1, SamePool DEF Cached, FrameOf
  <2>3. SoFar' <=> SoFar
    BY <2>1, <2>2 DEF SoFar
  <2>4. /\ Pool!Evicts(k, F)' <=> Pool!Evicts(k, F)
        /\ Pool!Full(k, F)' <=> Pool!Full(k, F)
    BY <2>1, SamePool
  <2>5. Rounds'
    BY <2>1, <2>3, <2>4 DEF Rounds, Running
  <2>6. Pool!Granted(k, F)' <=> Pool!Granted(k, F)
    BY <2>4 DEF Pool!Granted
  <2>7. Pool!Refused(k, F)' <=> Pool!Refused(k, F)
    <3>1. ASSUME NEW v
          PROVE  /\ Pool!Stranded(v)' <=> Pool!Stranded(v)
                 /\ Pool!OldestFirst(k, F \cup {v})' <=> Pool!OldestFirst(k, F \cup {v})
      BY <2>1, SamePool
    <3> QED
      BY <2>2, <2>4, <3>1 DEF Pool!Refused
  <2> QED
    BY <2>1, <2>5, <2>6, <2>7 DEF LoopAnswers
<1> QED
  BY <1>1, <1>2

LEMMA NextRounds == LInv /\ [Next]_vars => LInv'
<1> SUFFICES ASSUME LInv, [Next]_vars PROVE LInv'
  OBVIOUS
<1>1. IInv' /\ IInv /\ Rounds /\ LoopAnswers
  BY NextIInv DEF LInv
<1>2. ASSUME NEW k \in FrameId, AllocateFrame(k) PROVE Rounds' /\ LoopAnswers'
  BY <1>1, <1>2, CallRounds
<1>3. ASSUME Round PROVE Rounds' /\ LoopAnswers'
  BY <1>1, <1>3, GrantRounds, EvictRounds, RefuseRounds DEF Round
<1>4. ASSUME \/ \E k \in FrameId : GetFrame(k) \/ PurgeFrame(k)
             \/ Return
             \/ \E i \in Item : Mark(i) \/ Unpin(i)
             \/ \E fd \in Fd : Open(fd)
             \/ UNCHANGED vars
      PROVE  Rounds' /\ LoopAnswers'
  <2>1. loop' = Idle \/ UNCHANGED vars
    BY <1>4 DEF GetFrame, PurgeFrame, Return, Mark, Unpin, Open
  <2> QED
    BY <1>1, <2>1, QuietRounds
<1>5. Rounds' /\ LoopAnswers'
  BY <1>2, <1>3, <1>4 DEF Next
<1> QED
  BY <1>1, <1>5 DEF LInv

LEMMA InitRounds == Init => LInv
<1> SUFFICES ASSUME Init PROVE LInv
  OBVIOUS
<1>1. loop = Idle
  BY DEF Init
<1> QED
  BY <1>1, InitIInv DEF LInv, Rounds, LoopAnswers, Idle

-----------------------------------------------------------------------------
(* Theorems *)

\* The strengthening is an invariant.
THEOREM FramesUnderTheirLabels == Spec => []IInv
<1> QED
  BY InitIInv, NextIInv, PTL DEF Spec

\* No frame is lost and none serves two pages: MemoryPool and the cache of
\* FrameManager together, for every number of frames.
THEOREM FramesStayAccounted == Spec => []FramesAccounted
<1>1. IInv => FramesAccounted
  BY DEF IInv
<1> QED
  BY FramesUnderTheirLabels, <1>1, PTL

\* What AllocateFrame was found to have done so far is an invariant.
THEOREM RoundsGoOn == Spec => []LInv
<1> QED
  BY InitRounds, NextRounds, PTL DEF Spec

\* AllocateFrame's loop of Alloc, GetPurgeableFrame, FlushPage and Free,
\* walking the linked list from its tail in every round, frees exactly the
\* frames that BufferPool's Granted and Refused name: the least recently used
\* unpinned ones, no more of them than it needs, and none past a dirty frame
\* that it cannot write.
THEOREM LoopIsOneAction == Spec => []LoopAnswers
<1>1. LInv => LoopAnswers
  BY DEF LInv
<1> QED
  BY RoundsGoOn, <1>1, PTL

=============================================================================
