-------------------------- MODULE RecordFileProofs --------------------------
(***************************************************************************)
(* The records of a table, proved for every number of pages, slots, bits   *)
(* of a byte and frames: no row is lost and every scan is exact.           *)
(***************************************************************************)
EXTENDS RecordFile, FiniteSetTheorems, WellFoundedInduction, TLAPS

\* The induction of the proofs about data: the numbers for which a claim
\* fails are a set, and its least member leads to a contradiction.
LEMMA LeastNatural ==
  ASSUME NEW T \in SUBSET Nat, T # {}
  PROVE  \E x \in T : \A y \in T : x <= y
<1> DEFINE R == OpToRel(<, Nat)
<1>1. \A x, y \in Nat : x < y => <<x, y>> \in R
  BY DEF OpToRel
<1>2. PICK x \in T : \A y \in T : <<y, x>> \notin R
  <2>1. IsWellFoundedOn(R, Nat)
    BY NatLessThanWellFounded
  <2> HIDE DEF R
  <2> QED
    BY <2>1, WFMin
<1> HIDE DEF R
<1>3. ASSUME NEW y \in T PROVE x <= y
  <2>1. ~(y < x)
    BY <1>1, <1>2
  <2> QED
    BY <2>1
<1> QED
  BY <1>3

LEMMA GreatestNatural ==
  ASSUME NEW n \in Nat, NEW T \in SUBSET (0 .. n), T # {}
  PROVE  \E x \in T : \A y \in T : y <= x
<1> DEFINE D == {n - x : x \in T}
<1>1. D \in SUBSET Nat /\ D # {}
  <2>1. \A x \in T : n - x \in Nat
    OBVIOUS
  <2>2. D \subseteq Nat
    BY <2>1
  <2>3. PICK x \in T : TRUE
    OBVIOUS
  <2>4. n - x \in D
    OBVIOUS
  <2> QED
    BY <2>2, <2>4
<1>2. PICK d \in D : \A e \in D : d <= e
  <2> HIDE DEF D
  <2> QED
    BY <1>1, LeastNatural
<1>3. PICK x \in T : d = n - x
  BY <1>2
<1>4. ASSUME NEW y \in T PROVE y <= x
  <2>1. n - y \in D
    OBVIOUS
  <2> QED
    BY <1>2, <1>3, <2>1
<1> QED
  BY <1>4

\* every set bit of a record page, allocated or not, is a row
SlotsAreRows == \A p \in Page : \A slot \in slots[p] : <<p, slot>> \in rows

\* ahead is the slot after next in the page of s
AheadOf(s) ==
  \/ s.ahead = None /\ \A slot \in slots[s.page] : slot <= s.next
  \/ /\ s.ahead \in slots[s.page] /\ s.next < s.ahead
     /\ \A slot \in slots[s.page] : slot <= s.next \/ s.ahead <= slot

\* the scanner s stands on a record of the file, or has reached its end
Placed(s) ==
  /\ s.page \in allocated \cup {0}
  /\ s.next # None => /\ s.page \in allocated
                      /\ s.next \in slots[s.page]
                      /\ AheadOf(s)

\* the records from next_record_ on
From(s) ==
  IF s.next = None THEN {}
  ELSE {rid \in Records : rid[1] > s.page \/ (rid[1] = s.page /\ rid[2] >= s.next)}

ScanPlace ==
  /\ Placed(scan)
  /\ ~scan.running => scan = NoScan
  /\ scan.running => scan.due = From(scan)
  /\ scan.next # None => disposed \subseteq held

IInv == TypeOK /\ RowsKept /\ SlotsAreRows /\ ScanPlace

-----------------------------------------------------------------------------
(* Least and greatest elements. *)

LEMMA MinIsLeast ==
  ASSUME NEW T \in SUBSET Nat, T # {}
  PROVE  Min(T) \in T /\ \A y \in T : Min(T) <= y
<1>1. \E x \in T : \A y \in T : x <= y
  BY LeastNatural
<1> QED
  BY <1>1 DEF Min

LEMMA MaxIsGreatest ==
  ASSUME NEW n \in Nat, NEW T \in SUBSET (0 .. n), T # {}
  PROVE  Max(T) \in T /\ \A y \in T : y <= Max(T)
<1>1. \E x \in T : \A y \in T : x >= y
  BY GreatestNatural
<1> QED
  BY <1>1 DEF Max

-----------------------------------------------------------------------------
(* Bitmaps. *)

LEMMA DivMod ==
  ASSUME NEW i \in Nat, NEW b \in Nat \ {0}
  PROVE  i = b * (i \div b) + (i % b) /\ i % b \in 0 .. b - 1 /\ i \div b \in Nat
OBVIOUS

LEMMA LaterByte ==
  ASSUME NEW i \in Nat, NEW s \in Nat, NEW b \in Nat \ {0}, i >= s, i \div b # s \div b
  PROVE  s \div b < i \div b
<1>1. i = b * (i \div b) + (i % b) /\ i % b \in 0 .. b - 1 /\ i \div b \in Nat
  BY DivMod
<1>2. s = b * (s \div b) + (s % b) /\ s % b \in 0 .. b - 1 /\ s \div b \in Nat
  BY DivMod
<1> QED
  BY <1>1, <1>2

LEMMA ByteBefore ==
  ASSUME NEW s \in Nat \ {0}, NEW b \in Nat \ {0}, s % b # 0
  PROVE  (s - 1) \div b = s \div b
<1>1. s = b * (s \div b) + (s % b) /\ s % b \in 0 .. b - 1 /\ s \div b \in Nat
  BY DivMod
<1> QED
  BY <1>1

(***************************************************************************)
(* The search of BitMap::NextSetBit misses bits, but not when it starts at *)
(* the first bit or after a bit that is set: the byte of that bit is not   *)
(* zero, so the bytes after it are searched from their first bit.          *)
(***************************************************************************)
LEMMA FoundAll ==
  ASSUME NEW S \in SUBSET Nat, NEW start \in Nat, start = 0 \/ start - 1 \in S
  PROVE  Found(S, start) = {i \in S : i >= start}
<1> DEFINE b == ByteBits
           reached(i) == \/ i \div b = start \div b
                         \/ i % b >= start % b
                         \/ \E j \in S : j \div b \in start \div b .. (i \div b) - 1
<1>1. Found(S, start) = {i \in S : i >= start /\ reached(i)}
  BY DEF Found
<1>2. ASSUME NEW i \in S, i >= start PROVE reached(i)
  <2>0. b \in Nat \ {0}
    BY RecordSizesAssumption
  <2>1. i \div b \in Nat /\ i % b \in 0 .. b - 1 /\ start \div b \in Nat /\ start % b \in 0 .. b - 1
    BY <2>0, DivMod
  <2> SUFFICES ASSUME i \div b # start \div b, i % b < start % b PROVE reached(i)
    BY <2>1
  <2>2. start \div b < i \div b
    BY <1>2, <2>0, LaterByte
  <2>3. start # 0 /\ start % b # 0
    BY <1>2, <2>0, <2>1
  <2>4. (start - 1) \div b = start \div b
    BY <2>0, <2>3, ByteBefore
  <2>5. (start - 1) \div b \in start \div b .. (i \div b) - 1
    BY <2>1, <2>2, <2>4
  <2> HIDE DEF b
  <2> QED
    BY <2>3, <2>5
<1> HIDE DEF reached
<1> QED
  BY <1>1, <1>2

\* the next set bit, when the search is exact
IsNextBit(n, S, size, start) ==
  \/ n = None /\ \A i \in S : i < start \/ i >= size
  \/ n \in S /\ n >= start /\ n < size /\ \A i \in S : i < start \/ n <= i

LEMMA NextSetBitExact ==
  ASSUME NEW S \in SUBSET Nat, NEW size \in Nat, NEW start \in Nat,
         start = 0 \/ start - 1 \in S
  PROVE  IsNextBit(NextSetBit(S, size, start), S, size, start)
<1> DEFINE found == {i \in Found(S, start) : i < size}
<1>1. found = {i \in S : i >= start /\ i < size}
  BY FoundAll
<1>2. NextSetBit(S, size, start) = IF found = {} THEN None ELSE Min(found)
  BY DEF NextSetBit
<1> HIDE DEF found
<1>3. CASE found = {}
  <2>1. ASSUME NEW i \in S PROVE i < start \/ i >= size
    BY <1>1, <1>3
  <2> QED
    BY <1>2, <1>3, <2>1 DEF IsNextBit
<1>4. CASE found # {}
  <2>1. found \in SUBSET Nat
    BY <1>1
  <2>2. PICK n : n = Min(found)
    OBVIOUS
  <2>3. n \in found /\ \A y \in found : n <= y
    BY <1>4, <2>1, <2>2, MinIsLeast
  <2>4. n \in S /\ n >= start /\ n < size
    BY <1>1, <2>3
  <2>5. ASSUME NEW i \in S PROVE i < start \/ n <= i
    <3>1. i \in found \/ i < start \/ i >= size
      BY <1>1
    <3> QED
      BY <2>3, <2>4, <3>1
  <2> QED
    BY <1>2, <1>4, <2>2, <2>4, <2>5 DEF IsNextBit
<1> QED
  BY <1>3, <1>4

-----------------------------------------------------------------------------
(* The scanner's way from page to page. *)

WalkDomain == 0 .. MaxPages - 1
WalkStep(w, q) ==
  IF PageAfter(q) = None THEN 0
  ELSE IF ~Gettable(PageAfter(q), held) THEN None
  ELSE IF slots[PageAfter(q)] # {} THEN PageAfter(q)
  ELSE w[PageAfter(q)]
Walk == CHOOSE w : w = [q \in WalkDomain |-> WalkStep(w, q)]

LEMMA NextPageIsWalk ==
  ASSUME NEW p
  PROVE  NextPage(p) = Walk[p]
BY DEF NextPage, Walk, WalkStep, WalkDomain

LEMMA PagesAreNaturals ==
  ASSUME TypeOK
  PROVE  /\ MaxPages \in Nat /\ pages \in Nat /\ pages <= MaxPages
         /\ allocated \cup {0} \in SUBSET Nat
         /\ \A r \in allocated \cup {0} : r < pages
         /\ allocated \cup {0} \subseteq WalkDomain /\ allocated \subseteq Page
BY RecordSizesAssumption DEF TypeOK, WalkDomain, Page

LEMMA PageAfterForward ==
  ASSUME TypeOK, NEW q \in WalkDomain, PageAfter(q) # None
  PROVE  PageAfter(q) \in WalkDomain /\ PageAfter(q) > q
<1> DEFINE S == allocated \cup {0}
           found == {i \in Found(S, q + 1) : i < pages}
<1>1. S \in SUBSET Nat /\ \A r \in S : r \in WalkDomain
  BY PagesAreNaturals
<1>2. found \subseteq {i \in S : i >= q + 1}
  BY DEF Found
<1>3. PageAfter(q) = IF found = {} THEN None ELSE Min(found)
  BY DEF PageAfter, NextSetBit
<1>4. found \in SUBSET Nat /\ found # {} /\ PageAfter(q) = Min(found)
  BY <1>1, <1>2, <1>3
<1>5. PageAfter(q) \in found
  <2> HIDE DEF found
  <2> QED
    BY <1>4, MinIsLeast
<1> QED
  BY <1>1, <1>2, <1>5 DEF WalkDomain

LEMMA PageAfterExact ==
  ASSUME TypeOK, NEW q \in allocated \cup {0}
  PROVE  \/ PageAfter(q) = None /\ \A r \in allocated : r <= q
         \/ /\ PageAfter(q) \in allocated /\ PageAfter(q) > q
            /\ \A r \in allocated : r <= q \/ PageAfter(q) <= r
<1> DEFINE S == allocated \cup {0}
<1>1. /\ S \in SUBSET Nat /\ pages \in Nat /\ q \in Nat
      /\ \A r \in S : r < pages
  BY PagesAreNaturals
<1>2. q + 1 \in Nat /\ (q + 1) - 1 \in S
  BY <1>1
<1>3. IsNextBit(PageAfter(q), S, pages, q + 1)
  <2> HIDE DEF S
  <2>1. IsNextBit(NextSetBit(S, pages, q + 1), S, pages, q + 1)
    BY <1>1, <1>2, NextSetBitExact
  <2> QED
    BY <2>1 DEF PageAfter, S
<1>4. CASE PageAfter(q) = None
  <2>1. \A r \in S : r < q + 1
    BY <1>1, <1>3, <1>4 DEF IsNextBit, None
  <2> QED
    BY <1>1, <1>4, <2>1
<1>5. CASE PageAfter(q) # None
  <2>1. /\ PageAfter(q) \in S /\ PageAfter(q) >= q + 1
        /\ \A r \in S : r < q + 1 \/ PageAfter(q) <= r
    BY <1>3, <1>5 DEF IsNextBit
  <2>2. PICK a : a = PageAfter(q)
    OBVIOUS
  <2>3. a \in allocated /\ a > q /\ \A r \in allocated : r <= q \/ a <= r
    <3>1. a \in S /\ a >= q + 1 /\ a \in Nat
      BY <1>1, <2>1, <2>2
    <3>2. a > q /\ a \in allocated
      BY <1>1, <3>1
    <3>3. ASSUME NEW r \in allocated PROVE r <= q \/ a <= r
      <4>1. r \in Nat /\ (r < q + 1 \/ a <= r)
        BY <1>1, <2>1, <2>2
      <4> QED
        BY <1>1, <4>1
    <3> QED
      BY <3>2, <3>3
  <2> QED
    BY <2>2, <2>3
<1> QED
  BY <1>4, <1>5

\* the walk is well founded: it goes forward and pages are bounded
LEMMA WalkDefined ==
  ASSUME TypeOK
  PROVE  Walk = [q \in WalkDomain |-> WalkStep(Walk, q)]
<1> DEFINE D(k) == MaxPages - k .. MaxPages - 1
           F(w, k) == w = [q \in D(k) |-> WalkStep(w, q)]
           T == {k \in 0 .. MaxPages : ~\E w : F(w, k)}
<1>0. MaxPages \in Nat
  BY PagesAreNaturals
<1>1. T = {}
  <2> SUFFICES ASSUME T # {} PROVE FALSE
    OBVIOUS
  <2>1. PICK k \in T : \A j \in T : k <= j
    <3>1. T \in SUBSET Nat
      BY <1>0
    <3> HIDE DEF T
    <3> QED
      BY <3>1, LeastNatural
  <2>2. k \in 0 .. MaxPages /\ ~\E w : F(w, k)
    BY <2>1
  <2>3. k # 0
    <3>1. F([q \in D(0) |-> 0], 0)
      BY <1>0
    <3> QED
      BY <2>2, <3>1
  <2>4. PICK g : F(g, k - 1)
    <3>1. k - 1 \in 0 .. MaxPages /\ ~(k <= k - 1)
      BY <1>0, <2>2, <2>3
    <3>2. k - 1 \notin T
      BY <2>1, <3>1
    <3> QED
      BY <3>1, <3>2
  <2> DEFINE h == [q \in D(k) |-> WalkStep(g, q)]
  <2>5. ASSUME NEW q \in D(k) PROVE WalkStep(h, q) = WalkStep(g, q)
    <3>1. q \in WalkDomain
      BY <1>0, <2>2 DEF WalkDomain
    <3>2. CASE PageAfter(q) = None
      BY <3>2 DEF WalkStep
    <3>3. CASE PageAfter(q) # None
      <4>1. PageAfter(q) \in D(k - 1) /\ PageAfter(q) \in D(k)
        BY <1>0, <2>2, <3>1, <3>3, PageAfterForward DEF WalkDomain
      <4>2. h[PageAfter(q)] = g[PageAfter(q)]
        BY <2>4, <4>1
      <4> QED
        BY <4>2 DEF WalkStep
    <3> QED
      BY <3>2, <3>3
  <2>6. F(h, k)
    BY <2>5
  <2> QED
    BY <2>2, <2>6
<1>2. \E w : F(w, MaxPages)
  BY <1>0, <1>1
<1>3. D(MaxPages) = WalkDomain
  BY <1>0 DEF WalkDomain
<1>4. \E w : w = [q \in WalkDomain |-> WalkStep(w, q)]
  BY <1>2, <1>3
<1> QED
  BY <1>4 DEF Walk

\* the page the scanner comes to from the page p
IsNextPage(q, p) ==
  \/ q = None
  \/ q = 0 /\ \A r \in allocated : r > p => slots[r] = {}
  \/ /\ q \in allocated /\ q > p /\ slots[q] # {}
     /\ \A r \in allocated : p < r /\ r < q => slots[r] = {}

LEMMA NextPageFinds ==
  ASSUME TypeOK, NEW p \in allocated \cup {0}
  PROVE  IsNextPage(NextPage(p), p)
<1> DEFINE P == allocated \cup {0}
           T == {k \in Nat : \E q \in P : k = MaxPages - q /\ ~IsNextPage(Walk[q], q)}
<1>0. /\ MaxPages \in Nat /\ \A r \in P : r \in WalkDomain /\ r \in Nat /\ r < MaxPages
      /\ \A r \in allocated : r # 0
  BY PagesAreNaturals DEF WalkDomain, Page
<1>1. T = {}
  <2> SUFFICES ASSUME T # {} PROVE FALSE
    OBVIOUS
  <2>1. PICK k \in T : \A j \in T : k <= j
    <3>1. T \in SUBSET Nat
      OBVIOUS
    <3> HIDE DEF T
    <3> QED
      BY <3>1, LeastNatural
  <2>2. PICK q \in P : k = MaxPages - q /\ ~IsNextPage(Walk[q], q)
    BY <2>1
  <2>3. Walk[q] = WalkStep(Walk, q)
    BY <1>0, WalkDefined
  <2>4. PageAfter(q) # None /\ Gettable(PageAfter(q), held) /\ slots[PageAfter(q)] = {}
    <3>1. \/ PageAfter(q) = None /\ \A r \in allocated : r <= q
          \/ /\ PageAfter(q) \in allocated /\ PageAfter(q) > q
             /\ \A r \in allocated : r <= q \/ PageAfter(q) <= r
      BY PageAfterExact
    <3>2. CASE PageAfter(q) = None
      <4>1. Walk[q] = 0
        BY <2>3, <3>2 DEF WalkStep
      <4>2. \A r \in allocated : r <= q
        BY <1>0, <3>1, <3>2 DEF None
      <4> QED
        BY <1>0, <2>2, <4>1, <4>2 DEF IsNextPage
    <3>3. CASE PageAfter(q) # None /\ ~Gettable(PageAfter(q), held)
      BY <2>2, <2>3, <3>3 DEF WalkStep, IsNextPage
    <3>4. CASE PageAfter(q) # None /\ Gettable(PageAfter(q), held) /\ slots[PageAfter(q)] # {}
      <4>1. Walk[q] = PageAfter(q)
        BY <2>3, <3>4 DEF WalkStep
      <4> QED
        BY <1>0, <2>2, <3>1, <3>4, <4>1 DEF IsNextPage
    <3> QED
      BY <3>2, <3>3, <3>4
  <2>5. /\ PageAfter(q) \in allocated /\ PageAfter(q) > q
        /\ \A r \in allocated : r <= q \/ PageAfter(q) <= r
    BY <2>4, PageAfterExact
  <2>6. PICK a \in allocated : a = PageAfter(q) /\ a > q
    BY <2>5
  <2>7. Walk[q] = Walk[a]
    BY <2>3, <2>4, <2>6 DEF WalkStep
  <2>8. IsNextPage(Walk[a], a)
    <3>1. MaxPages - a \in Nat /\ MaxPages - a < k
      BY <1>0, <2>2, <2>6
    <3>2. MaxPages - a \notin T
      BY <2>1, <3>1
    <3> QED
      BY <2>6, <3>1, <3>2
  <2>9. IsNextPage(Walk[q], q)
    <3>1. \A r \in allocated : r > q => r = a \/ r > a
      BY <1>0, <2>5, <2>6
    <3>2. slots[a] = {}
      BY <2>4, <2>6
    <3> QED
      BY <1>0, <2>6, <2>7, <2>8, <3>1, <3>2 DEF IsNextPage
  <2> QED
    BY <2>2, <2>9
<1>2. MaxPages - p \in Nat
  BY <1>0
<1>3. IsNextPage(Walk[p], p)
  BY <1>1, <1>2
<1> QED
  BY <1>3, NextPageIsWalk

-----------------------------------------------------------------------------
(* FetchNextRecord. *)

\* the records after next_record_; all of them before the first fetch
Beyond(s) ==
  {rid \in Records : \/ rid[1] > s.page
                     \/ rid[1] = s.page /\ s.next # None /\ rid[2] > s.next}

LEMMA SlotsAreNaturals ==
  ASSUME TypeOK, NEW p \in Page
  PROVE  /\ Capacity \in Nat /\ slots[p] \in SUBSET Nat /\ slots[p] \subseteq Slot
         /\ \A slot \in slots[p] : slot >= 0 /\ slot < Capacity /\ slot # None
BY RecordSizesAssumption DEF TypeOK, Slot, None

LEMMA SlotAfterExact ==
  ASSUME TypeOK, NEW s, s.page \in Page, s.next \in slots[s.page],
         s.ahead = SlotAfter(s.page, s.next)
  PROVE  AheadOf(s) /\ s.ahead \in Slot \cup {None}
<1> DEFINE S == slots[s.page]
<1>1. PICK n : n = s.next
  OBVIOUS
<1>2. PICK a : a = s.ahead
  OBVIOUS
<1>3. /\ Capacity \in Nat /\ S \in SUBSET Nat /\ S \subseteq Slot
      /\ \A slot \in S : slot < Capacity /\ slot # None
  BY SlotsAreNaturals
<1>4. n \in S /\ n + 1 \in Nat /\ (n + 1) - 1 \in S
  BY <1>1, <1>3
<1>5. a = NextSetBit(S, Capacity, n + 1)
  BY <1>1, <1>2 DEF SlotAfter
<1> HIDE DEF S
<1>6. IsNextBit(a, S, Capacity, n + 1)
  BY <1>3, <1>4, <1>5, NextSetBitExact
<1>7. CASE a = None
  <2>1. \A slot \in S : slot <= n
    <3>1. a = -1 /\ \A slot \in S : slot # None
      BY <1>3, <1>7 DEF None
    <3>2. a \notin S
      BY <1>7, <3>1
    <3>3. \A slot \in S : slot < n + 1 \/ slot >= Capacity
      BY <1>6, <3>2 DEF IsNextBit
    <3> QED
      BY <1>3, <1>4, <3>3
  <2> QED
    BY <1>1, <1>2, <1>7, <2>1 DEF AheadOf, S
<1>8. CASE a # None
  <2>1. a \in S /\ a >= n + 1 /\ \A slot \in S : slot < n + 1 \/ a <= slot
    BY <1>6, <1>8 DEF IsNextBit
  <2>2. a \in Slot /\ n < a /\ \A slot \in S : slot <= n \/ a <= slot
    BY <1>3, <1>4, <2>1
  <2> QED
    BY <1>1, <1>2, <2>1, <2>2 DEF AheadOf, S
<1> QED
  BY <1>7, <1>8

LEMMA FirstSlot ==
  ASSUME TypeOK, NEW p \in Page, slots[p] # {}
  PROVE  /\ NextSetBit(slots[p], Capacity, 0) \in slots[p]
         /\ \A slot \in slots[p] : NextSetBit(slots[p], Capacity, 0) <= slot
<1>1. /\ Capacity \in Nat /\ slots[p] \in SUBSET Nat
      /\ \A slot \in slots[p] : slot >= 0 /\ slot < Capacity
  BY SlotsAreNaturals
<1>2. IsNextBit(NextSetBit(slots[p], Capacity, 0), slots[p], Capacity, 0)
  BY <1>1, NextSetBitExact
<1> QED
  BY <1>1, <1>2 DEF IsNextBit

LEMMA LastPageExists ==
  ASSUME TypeOK
  PROVE  /\ LastPage \in allocated \cup {0}
         /\ allocated # {} => LastPage \in allocated
<1>1. allocated \in SUBSET (0 .. MaxPages) /\ MaxPages \in Nat
  BY PagesAreNaturals
<1> QED
  BY <1>1, MaxIsGreatest DEF LastPage

\* a scanner that is about to fetch: at a record, or before the first
Fetching(s) ==
  /\ s \in Scan
  /\ s.page \in allocated \cup {0}
  /\ s.next # None => s.page \in allocated /\ AheadOf(s)
  /\ s.next = None => s.page = 0 /\ s.ahead = None

\* f is the scanner s after it
IsFetched(f, s) ==
  /\ f \in Scan /\ f.running = s.running /\ f.due = s.due
  /\ Placed(f)
  /\ From(f) = Beyond(s)
  /\ allocated # {} => f.page \in allocated

LEMMA FetchAhead ==
  ASSUME TypeOK, NEW s, Fetching(s), s.ahead # None
  PROVE  IsFetched(Fetched(s), s)
<1>1. PICK f : f = Fetched(s)
  OBVIOUS
<1>2. /\ s.page \in Page /\ s.page \in allocated /\ s.next # None
      /\ s.ahead \in slots[s.page] /\ s.next < s.ahead
      /\ \A slot \in slots[s.page] : slot <= s.next \/ s.ahead <= slot
  BY PagesAreNaturals DEF Fetching, AheadOf
<1>3. f = [s EXCEPT !.next = s.ahead, !.ahead = SlotAfter(s.page, s.ahead)]
  BY <1>1 DEF Fetched
<1>4. /\ f.page = s.page /\ f.next = s.ahead /\ f.ahead = SlotAfter(f.page, f.next)
      /\ f.running = s.running /\ f.due = s.due
  BY <1>3 DEF Fetching, Scan
<1>5. AheadOf(f) /\ f.ahead \in Slot \cup {None}
  BY <1>2, <1>4, SlotAfterExact
<1>6. f \in Scan
  <2>1. s.ahead \in Slot
    BY <1>2, SlotsAreNaturals
  <2> QED
    BY <1>3, <1>4, <1>5, <2>1 DEF Fetching, Scan
<1>7. Placed(f)
  BY <1>2, <1>4, <1>5 DEF Placed
<1>8. From(f) = Beyond(s)
  <2>1. ASSUME NEW rid \in Records, rid[1] = s.page
        PROVE  rid[2] >= s.ahead <=> rid[2] > s.next
    <3>1. rid[2] \in slots[s.page]
      BY <2>1 DEF Records
    <3>2. rid[2] \in Nat /\ s.ahead \in Nat /\ s.next \in Int
      BY <1>2, <3>1, SlotsAreNaturals, RecordSizesAssumption DEF Fetching, Scan, Slot, None
    <3> QED
      BY <1>2, <3>1, <3>2
  <2>2. f.next # None
    BY <1>4
  <2>3. From(f) = {rid \in Records : rid[1] > s.page \/ (rid[1] = s.page /\ rid[2] >= s.ahead)}
    BY <1>4, <2>2 DEF From
  <2> QED
    BY <1>2, <2>1, <2>3 DEF Beyond
<1> QED
  BY <1>1, <1>2, <1>4, <1>6, <1>7, <1>8 DEF IsFetched

LEMMA FetchNextPage ==
  ASSUME TypeOK, NEW s, Fetching(s), s.ahead = None, ~FetchFails(s)
  PROVE  IsFetched(Fetched(s), s)
<1>1. PICK f : f = Fetched(s)
  OBVIOUS
<1>2. PICK q : q = NextPage(s.page)
  OBVIOUS
<1>3. f = IF q = 0 THEN AtEnd(s) ELSE At(s, q)
  BY <1>1, <1>2 DEF Fetched
<1>4. q # None /\ IsNextPage(q, s.page)
  BY <1>2, NextPageFinds DEF FetchFails, Fetching
<1>5. \A rid \in Beyond(s) : /\ rid[1] \in allocated /\ rid[1] > s.page
                             /\ rid[2] \in slots[rid[1]]
  <2>1. ASSUME NEW rid \in Records, rid[1] = s.page, s.next # None
        PROVE  rid[2] <= s.next
    BY <2>1, PagesAreNaturals, SlotsAreNaturals DEF Records, Fetching, AheadOf
  <2>2. ASSUME NEW rid \in Records
        PROVE  /\ rid[1] \in allocated /\ rid[2] \in slots[rid[1]] /\ rid[2] \in Nat
    BY PagesAreNaturals, SlotsAreNaturals DEF Records
  <2>3. s.next \in Int
    BY RecordSizesAssumption DEF Fetching, Scan, Slot, None
  <2>4. ASSUME NEW rid \in Records, rid[1] = s.page, s.next # None, rid[2] > s.next
        PROVE  FALSE
    BY <2>1, <2>2, <2>3, <2>4
  <2> QED
    BY <2>2, <2>4 DEF Beyond
<1>6. CASE q = 0
  <2>1. f = [s EXCEPT !.page = LastPage, !.next = None, !.ahead = None]
    BY <1>3, <1>6 DEF AtEnd
  <2>2. /\ f.page = LastPage /\ f.next = None /\ f.ahead = None
        /\ f.running = s.running /\ f.due = s.due
    BY <2>1 DEF Fetching, Scan
  <2>3. /\ LastPage \in allocated \cup {0} /\ (allocated # {} => LastPage \in allocated)
        /\ LastPage \in 0 .. MaxPages - 1
    BY LastPageExists, PagesAreNaturals DEF WalkDomain
  <2>4. f \in Scan
    BY <2>1, <2>3 DEF Fetching, Scan
  <2>5. \A r \in allocated : r > s.page => slots[r] = {}
    BY <1>4, <1>6, PagesAreNaturals DEF IsNextPage, None, Page
  <2>6. Beyond(s) = {}
    BY <1>5, <2>5
  <2> QED
    BY <1>1, <2>2, <2>3, <2>4, <2>6 DEF IsFetched, Placed, From
<1>7. CASE q # 0
  <2>1. /\ q \in allocated /\ q > s.page /\ slots[q] # {} /\ q \in Page
        /\ \A r \in allocated : s.page < r /\ r < q => slots[r] = {}
    BY <1>4, <1>7, PagesAreNaturals DEF IsNextPage
  <2>2. PICK n : n = NextSetBit(slots[q], Capacity, 0)
    OBVIOUS
  <2>3. n \in slots[q] /\ \A slot \in slots[q] : n <= slot
    BY <2>1, <2>2, FirstSlot
  <2>4. f = [s EXCEPT !.page = q, !.next = n, !.ahead = SlotAfter(q, n)]
    BY <1>3, <1>7, <2>2 DEF At
  <2>5. /\ f.page = q /\ f.next = n /\ f.ahead = SlotAfter(f.page, f.next)
        /\ f.running = s.running /\ f.due = s.due
    BY <2>4 DEF Fetching, Scan
  <2>6. AheadOf(f) /\ f.ahead \in Slot \cup {None}
    BY <2>1, <2>3, <2>5, SlotAfterExact
  <2>7. n \in Slot /\ n # None /\ q \in 0 .. MaxPages - 1
    BY <2>1, <2>3, SlotsAreNaturals DEF Page
  <2>8. f \in Scan
    BY <2>4, <2>5, <2>6, <2>7 DEF Fetching, Scan
  <2>9. From(f) = Beyond(s)
    <3>1. ASSUME NEW rid \in Records
          PROVE  (rid[1] > q \/ (rid[1] = q /\ rid[2] >= n)) <=> rid \in Beyond(s)
      <4>1. /\ rid[1] \in allocated /\ rid[1] \in Nat /\ rid[2] \in slots[rid[1]]
            /\ s.page \in Nat /\ q \in Nat
        BY <2>1, PagesAreNaturals DEF Records, Fetching
      <4>2. ASSUME rid[1] > q \/ rid[1] = q PROVE rid \in Beyond(s)
        BY <2>1, <4>1, <4>2 DEF Beyond
      <4>3. ASSUME rid \in Beyond(s) PROVE rid[1] > q \/ (rid[1] = q /\ rid[2] >= n)
        <5>1. rid[1] > s.page
          BY <1>5, <4>3
        <5>2. ~(rid[1] < q)
          BY <2>1, <4>1, <5>1
        <5>3. rid[1] = q => n <= rid[2] /\ rid[2] \in Nat /\ n \in Nat
          BY <2>1, <2>3, <4>1, SlotsAreNaturals
        <5> QED
          BY <4>1, <5>2, <5>3
      <4> QED
        BY <4>2, <4>3
    <3>2. From(f) = {rid \in Records : rid[1] > q \/ (rid[1] = q /\ rid[2] >= n)}
      BY <2>5, <2>7 DEF From
    <3>3. Beyond(s) \subseteq Records
      BY DEF Beyond
    <3> QED
      BY <3>1, <3>2, <3>3
  <2>10. Placed(f)
    BY <2>1, <2>3, <2>5, <2>6 DEF Placed
  <2> QED
    BY <1>1, <2>1, <2>5, <2>8, <2>9, <2>10 DEF IsFetched
<1> QED
  BY <1>6, <1>7

-----------------------------------------------------------------------------
(* Disposals are carried out where no record is: in fact none of those that *)
(* wait is carried out at all, as a pin of the page is left for ever.       *)

\* while a handler that is gone pins every waiting page, none goes
LEMMA NoDisposals ==
  ASSUME disposed \subseteq held, NEW S
  PROVE  /\ Disposals(S, held) = {} /\ Disposals(S, Pinned) = {} /\ Left(S) = allocated
BY DEF Disposals, Pinned, Left

LEMMA IdleScan ==
  ASSUME IInv, ~scan.running
  PROVE  /\ scan = NoScan /\ scan.page = 0 /\ scan.next = None
         /\ Pinned = held /\ disposed \subseteq held
BY DEF IInv, ScanPlace, NoScan, Pinned, RowsKept

\* an idle scanner is where it should be, whatever the file becomes
LEMMA IdlePlace ==
  ASSUME IInv, ~scan.running, scan' = scan
  PROVE  ScanPlace' /\ Pinned' = held'
<1>1. scan' = NoScan
  BY IdleScan
<1> QED
  BY <1>1 DEF ScanPlace, Placed, NoScan, Pinned

LEMMA FreeSlot ==
  ASSUME TypeOK, NEW p \in Page, ~Full(p)
  PROVE  Min(Slot \ slots[p]) \in Slot \ slots[p]
<1>1. IsFiniteSet(Slot) /\ Cardinality(Slot) = Capacity
  BY RecordSizesAssumption, FS_Interval DEF Slot
<1>2. Slot \ slots[p] # {}
  <2>1. slots[p] # Slot
    BY <1>1 DEF Full
  <2> QED
    BY <2>1 DEF TypeOK
<1> QED
  BY <1>2, MinIsLeast, RecordSizesAssumption DEF Slot

LEMMA FirstSlotIsFree == Min(Slot \ {}) \in Slot
<1>1. 0 \in Slot /\ Slot \ {} \in SUBSET Nat
  BY RecordSizesAssumption DEF Slot
<1> QED
  BY <1>1, MinIsLeast

\* what Put does: taken are the slots it leaves as they are
LEMMA PutKeeps ==
  ASSUME TypeOK, RowsKept, SlotsAreRows, NEW p \in Page, NEW taken \in SUBSET slots[p],
         Min(Slot \ taken) \in Slot, Put(p, taken),
         \/ taken = slots[p] /\ allocated' = allocated
         \/ p \notin allocated /\ allocated' = allocated \cup {p}
  PROVE  /\ slots' \in [Page -> SUBSET Slot] /\ rows' \subseteq RecordId /\ stray' \subseteq rows'
         /\ SlotsAreRows'
         /\ Records' \subseteq rows' /\ rows' \ stray' \subseteq Records'
<1> DEFINE slot == Min(Slot \ taken)
           new == <<p, slot>>
<1>1. /\ slots' = [slots EXCEPT ![p] = taken \cup {slot}]
      /\ rows' = rows \cup {new}
      /\ stray' = IF p \in allocated' THEN stray \ {new} ELSE stray \cup {new}
      /\ slot \in Slot
  BY DEF Put
<1> HIDE DEF slot
<1>2. slots' \in [Page -> SUBSET Slot] /\ rows' \subseteq RecordId /\ stray' \subseteq rows'
  BY <1>1 DEF TypeOK, RecordId
<1>3. \A r \in Page : slots'[r] = IF r = p THEN taken \cup {slot} ELSE slots[r]
  BY <1>1 DEF TypeOK
<1>4. SlotsAreRows'
  <2>1. ASSUME NEW r \in Page, NEW i \in slots'[r] PROVE <<r, i>> \in rows'
    <3>1. CASE r = p /\ i = slot
      BY <1>1, <3>1
    <3>2. CASE ~(r = p /\ i = slot)
      <4>1. i \in slots[r]
        BY <1>3, <2>1, <3>2
      <4> QED
        BY <1>1, <4>1 DEF SlotsAreRows
    <3> QED
      BY <3>1, <3>2
  <2> QED
    BY <2>1 DEF SlotsAreRows
<1>5. Records' \subseteq rows'
  <2> SUFFICES ASSUME NEW rid \in Records' PROVE rid \in rows'
    OBVIOUS
  <2>1. rid \in RecordId /\ rid[2] \in slots'[rid[1]]
    BY DEF Records
  <2> QED
    BY <1>4, <2>1 DEF SlotsAreRows, RecordId
<1>6. rows' \ stray' \subseteq Records'
  <2> SUFFICES ASSUME NEW rid \in rows', rid \notin stray' PROVE rid \in Records'
    OBVIOUS
  <2>1. CASE rid = new
    <3>1. p \in allocated'
      BY <1>1, <2>1
    <3>2. new \in RecordId /\ new[1] = p /\ new[2] = slot
      BY <1>1 DEF RecordId
    <3> QED
      BY <1>3, <2>1, <3>1, <3>2 DEF Records
  <2>2. CASE rid # new
    <3>1. rid \in rows /\ rid \notin stray
      BY <1>1, <2>2
    <3>2. rid \in RecordId /\ rid[1] \in allocated /\ rid[2] \in slots[rid[1]] /\ rid[1] \in Page
      BY <3>1 DEF RowsKept, Records, RecordId
    <3>3. rid[2] \in slots'[rid[1]] /\ rid[1] \in allocated'
      BY <1>3, <3>2
    <3> QED
      BY <3>2, <3>3 DEF Records
  <2> QED
    BY <2>1, <2>2
<1> QED
  BY <1>2, <1>4, <1>5, <1>6

\* the waiting pages while no scan runs: a handler that is gone pins each
LEMMA HeldDisposals ==
  ASSUME disposed' \subseteq held'
  PROVE  /\ disposed' \subseteq Pinned'
         /\ \A p \in disposed' \ held' : p \in allocated' /\ slots'[p] = {}
BY DEF Pinned

LEMMA TakesFreePageKeeps ==
  ASSUME IInv, NEW p \in Page, NEW E \in SUBSET Page, TakesFreePage(p, E)
  PROVE  /\ ~Full(p) /\ p \in held' /\ held \subseteq held' /\ allocated' = allocated
         /\ disposed \subseteq held /\ disposed \ Disposals(E, Pinned) = disposed
         /\ ScanPlace'
         /\ pages' \in 1 .. MaxPages /\ allocated' \subseteq 1 .. pages' - 1
         /\ held' \subseteq Page /\ freePages' \subseteq Page /\ scan' \in Scan
<1>1. TypeOK /\ ~scan.running /\ disposed \subseteq held
  BY IdleScan DEF IInv, TakesFreePage
<1>2. /\ ~Full(p) /\ freePages' = freePages \ E /\ held' = held \cup {p}
      /\ pages' = pages /\ scan' = scan
  BY DEF TakesFreePage
<1>3. allocated' = allocated /\ disposed \ Disposals(E, Pinned) = disposed
  BY <1>1, NoDisposals DEF TakesFreePage
<1>4. ScanPlace'
  BY <1>1, <1>2, IdlePlace
<1> QED
  BY <1>1, <1>2, <1>3, <1>4 DEF TypeOK

LEMMA InsertIntoFreePageKeeps ==
  ASSUME IInv, NEW p \in Page, NEW E \in SUBSET Page, InsertIntoFreePage(p, E)
  PROVE  IInv'
<1>1. TypeOK /\ RowsKept /\ SlotsAreRows
  BY DEF IInv
<1>2. TakesFreePage(p, E) /\ Put(p, slots[p]) /\ disposed' = disposed \ Disposals(E, Pinned)
  BY DEF InsertIntoFreePage
<1>3. /\ ~Full(p) /\ held \subseteq held' /\ allocated' = allocated
      /\ disposed \subseteq held /\ disposed' = disposed /\ ScanPlace'
      /\ pages' \in 1 .. MaxPages /\ allocated' \subseteq 1 .. pages' - 1
      /\ held' \subseteq Page /\ freePages' \subseteq Page /\ scan' \in Scan
  BY <1>2, TakesFreePageKeeps
<1>4. /\ slots' \in [Page -> SUBSET Slot] /\ rows' \subseteq RecordId /\ stray' \subseteq rows'
      /\ SlotsAreRows' /\ Records' \subseteq rows' /\ rows' \ stray' \subseteq Records'
  <2>1. Min(Slot \ slots[p]) \in Slot
    BY <1>1, <1>3, FreeSlot
  <2>2. slots[p] \in SUBSET slots[p]
    OBVIOUS
  <2> QED
    BY <1>1, <1>2, <1>3, <2>1, <2>2, PutKeeps
<1>5. TypeOK'
  BY <1>1, <1>3, <1>4 DEF TypeOK
<1>6. disposed' \subseteq held'
  BY <1>3
<1> QED
  BY <1>3, <1>4, <1>5, <1>6, HeldDisposals DEF IInv, RowsKept

LEMMA TakenBackFromFreePageKeeps ==
  ASSUME IInv, NEW p \in Page, NEW E \in SUBSET Page, TakenBackFromFreePage(p, E)
  PROVE  IInv'
<1>1. TypeOK /\ RowsKept /\ SlotsAreRows
  BY DEF IInv
<1>2. /\ TakesFreePage(p, E) /\ UNCHANGED <<slots, rows, stray>>
      /\ disposed' = (disposed \ Disposals(E, Pinned)) \cup (IF slots[p] = {} THEN {p} ELSE {})
  BY DEF TakenBackFromFreePage
<1>3. /\ p \in held' /\ held \subseteq held' /\ allocated' = allocated /\ disposed \subseteq held
      /\ disposed \ Disposals(E, Pinned) = disposed /\ ScanPlace'
      /\ pages' \in 1 .. MaxPages /\ allocated' \subseteq 1 .. pages' - 1
      /\ held' \subseteq Page /\ freePages' \subseteq Page /\ scan' \in Scan
  BY <1>2, TakesFreePageKeeps
<1>4. disposed' \subseteq held'
  BY <1>2, <1>3
<1>5. TypeOK'
  BY <1>1, <1>2, <1>3, <1>4 DEF TypeOK
<1>6. Records' = Records
  BY <1>2, <1>3 DEF Records
<1> QED
  BY <1>1, <1>2, <1>3, <1>4, <1>5, <1>6, HeldDisposals DEF IInv, RowsKept, SlotsAreRows

LEMMA InsertFindsNoFrameKeeps ==
  ASSUME IInv, NEW E \in SUBSET Page, InsertFindsNoFrame(E)
  PROVE  IInv'
<1>1. /\ TypeOK /\ RowsKept /\ SlotsAreRows /\ ~scan.running
      /\ disposed \subseteq held /\ Pinned = held
  BY IdleScan DEF IInv, InsertFindsNoFrame, RowsKept
<1>2. /\ freePages' = freePages \ E
      /\ UNCHANGED <<pages, slots, held, scan, rows, stray>>
  BY DEF InsertFindsNoFrame
<1>3. allocated' = allocated /\ disposed' = disposed
  BY <1>1, NoDisposals DEF InsertFindsNoFrame
<1>4. ScanPlace' /\ Pinned' = held'
  BY <1>1, <1>2, IdlePlace
<1>5. TypeOK'
  BY <1>1, <1>2, <1>3 DEF TypeOK
<1>6. Records' = Records
  BY <1>2, <1>3 DEF Records
<1> QED
  BY <1>1, <1>2, <1>3, <1>4, <1>5, <1>6 DEF IInv, RowsKept, SlotsAreRows

LEMMA AllocatableIsFree ==
  ASSUME TypeOK, disposed \subseteq held, NEW p \in Allocatable(freePages)
  PROVE  /\ p \in Page /\ p \notin allocated /\ Grown(p) \in 1 .. MaxPages
         /\ pages <= Grown(p) /\ p < Grown(p)
         /\ p # pages => p \in 1 .. pages - 1
<1>1. MaxPages \in Nat /\ pages \in 1 .. MaxPages /\ allocated \subseteq 1 .. pages - 1
  BY PagesAreNaturals DEF TypeOK
<1> DEFINE unset == (1 .. pages - 1) \ allocated
<1>2. p \in IF unset # {} THEN {Min(unset)} ELSE NewPages
  BY NoDisposals DEF Allocatable
<1>3. CASE unset # {}
  <2>1. p \in unset
    <3>1. unset \in SUBSET Nat
      BY <1>1
    <3> HIDE DEF unset
    <3> QED
      BY <1>2, <1>3, <3>1, MinIsLeast
  <2> QED
    BY <1>1, <2>1 DEF Page, Grown
<1>4. CASE unset = {}
  <2>1. p = pages /\ pages < MaxPages
    BY <1>2, <1>4 DEF NewPages
  <2> QED
    BY <1>1, <2>1 DEF Page, Grown
<1> QED
  BY <1>3, <1>4

LEMMA TakesNewPageKeeps ==
  ASSUME IInv, NEW p \in Page, TakesNewPage(p)
  PROVE  /\ p \in held' /\ held \subseteq held'
         /\ p \notin allocated /\ allocated' = allocated \cup {p}
         /\ disposed \subseteq held /\ disposed \ Disposals(freePages, Pinned) = disposed
         /\ ScanPlace'
         /\ pages' \in 1 .. MaxPages /\ allocated' \subseteq 1 .. pages' - 1
         /\ held' \subseteq Page /\ freePages' \subseteq Page /\ scan' \in Scan
<1>1. TypeOK /\ ~scan.running /\ disposed \subseteq held
  BY IdleScan DEF IInv, TakesNewPage
<1>2. /\ p \in Allocatable(freePages) /\ pages' = Grown(p)
      /\ freePages' = {p} /\ held' = held \cup {p} /\ scan' = scan
  BY DEF TakesNewPage
<1>3. allocated' = allocated \cup {p} /\ disposed \ Disposals(freePages, Pinned) = disposed
  BY <1>1, NoDisposals DEF TakesNewPage
<1>4. p \notin allocated /\ Grown(p) \in 1 .. MaxPages /\ pages <= Grown(p) /\ p < Grown(p)
  BY <1>1, <1>2, AllocatableIsFree
<1>5. ScanPlace'
  BY <1>1, <1>2, IdlePlace
<1>6. allocated' \subseteq 1 .. pages' - 1
  <2>1. PICK n : n = pages'
    OBVIOUS
  <2>2. n \in Nat /\ pages \in Nat /\ pages <= n /\ p \in Nat /\ p >= 1 /\ p < n
    BY <1>1, <1>2, <1>4, <2>1, PagesAreNaturals DEF Page
  <2>3. 1 .. pages - 1 \subseteq 1 .. n - 1 /\ p \in 1 .. n - 1
    BY <2>2
  <2> QED
    BY <1>1, <1>3, <2>1, <2>3 DEF TypeOK
<1> QED
  BY <1>1, <1>2, <1>3, <1>4, <1>5, <1>6 DEF TypeOK

LEMMA InsertIntoNewPageKeeps ==
  ASSUME IInv, NEW p \in Page, InsertIntoNewPage(p)
  PROVE  IInv'
<1>1. TypeOK /\ RowsKept /\ SlotsAreRows
  BY DEF IInv
<1>2. TakesNewPage(p) /\ Put(p, {}) /\ disposed' = disposed \ Disposals(freePages, Pinned)
  BY DEF InsertIntoNewPage
<1>3. /\ held \subseteq held' /\ p \notin allocated /\ allocated' = allocated \cup {p}
      /\ disposed \subseteq held /\ disposed' = disposed /\ ScanPlace'
      /\ pages' \in 1 .. MaxPages /\ allocated' \subseteq 1 .. pages' - 1
      /\ held' \subseteq Page /\ freePages' \subseteq Page /\ scan' \in Scan
  BY <1>2, TakesNewPageKeeps
<1>4. /\ slots' \in [Page -> SUBSET Slot] /\ rows' \subseteq RecordId /\ stray' \subseteq rows'
      /\ SlotsAreRows' /\ Records' \subseteq rows' /\ rows' \ stray' \subseteq Records'
  <2>1. {} \in SUBSET slots[p]
    OBVIOUS
  <2> QED
    BY <1>1, <1>2, <1>3, <2>1, FirstSlotIsFree, PutKeeps
<1>5. TypeOK'
  BY <1>1, <1>3, <1>4 DEF TypeOK
<1>6. disposed' \subseteq held'
  BY <1>3
<1> QED
  BY <1>3, <1>4, <1>5, <1>6, HeldDisposals DEF IInv, RowsKept

\* what was in the slots of the page before are at most strays
LEMMA TakenBackFromNewPageKeeps ==
  ASSUME IInv, NEW p \in Page, TakenBackFromNewPage(p)
  PROVE  IInv'
<1>1. TypeOK /\ RowsKept /\ SlotsAreRows
  BY DEF IInv
<1>2. /\ TakesNewPage(p) /\ slots' = [slots EXCEPT ![p] = {}] /\ UNCHANGED <<rows, stray>>
      /\ disposed' = (disposed \ Disposals(freePages, Pinned)) \cup {p}
  BY DEF TakenBackFromNewPage
<1>3. /\ p \in held' /\ held \subseteq held' /\ p \notin allocated /\ allocated' = allocated \cup {p}
      /\ disposed \subseteq held /\ disposed \ Disposals(freePages, Pinned) = disposed /\ ScanPlace'
      /\ pages' \in 1 .. MaxPages /\ allocated' \subseteq 1 .. pages' - 1
      /\ held' \subseteq Page /\ freePages' \subseteq Page /\ scan' \in Scan
  BY <1>2, TakesNewPageKeeps
<1>4. /\ slots' \in [Page -> SUBSET Slot]
      /\ \A r \in Page : slots'[r] = IF r = p THEN {} ELSE slots[r]
  BY <1>1, <1>2 DEF TypeOK
<1>5. SlotsAreRows'
  BY <1>1, <1>2, <1>4 DEF SlotsAreRows
<1>6. Records' = Records
  <2>1. ASSUME NEW rid \in RecordId PROVE rid \in Records' <=> rid \in Records
    <3>1. rid[1] \in Page
      BY DEF RecordId
    <3> QED
      BY <1>3, <1>4, <3>1 DEF Records
  <2> QED
    BY <2>1 DEF Records
<1>7. disposed' \subseteq held'
  BY <1>2, <1>3
<1>8. TypeOK'
  BY <1>1, <1>2, <1>3, <1>4, <1>7 DEF TypeOK
<1> QED
  BY <1>1, <1>2, <1>3, <1>5, <1>6, <1>7, <1>8, HeldDisposals DEF IInv, RowsKept

\* the bit of an old page is set, and what is in its slots are rows
LEMMA InsertFindsNoPageKeeps ==
  ASSUME IInv, InsertFindsNoPage
  PROVE  IInv'
<1>1. /\ TypeOK /\ RowsKept /\ SlotsAreRows /\ ~scan.running
      /\ disposed \subseteq held /\ Pinned = held
  BY IdleScan DEF IInv, InsertFindsNoPage, RowsKept
<1> DEFINE more == Allocatable(freePages) \ {pages}
<1>2. /\ freePages' = {}
      /\ UNCHANGED <<pages, slots, held, scan, rows, stray>>
  BY DEF InsertFindsNoPage
<1>3. allocated' = allocated \cup more /\ disposed' = disposed
  BY <1>1, NoDisposals DEF InsertFindsNoPage
<1>4. more \subseteq 1 .. pages - 1
  BY <1>1, AllocatableIsFree
<1> HIDE DEF more
<1>5. ScanPlace' /\ Pinned' = held'
  BY <1>1, <1>2, IdlePlace
<1>6. TypeOK'
  BY <1>1, <1>2, <1>3, <1>4 DEF TypeOK
<1>7. SlotsAreRows'
  BY <1>1, <1>2 DEF SlotsAreRows
<1>8. Records' \subseteq rows' /\ rows' \ stray' \subseteq Records'
  <2>1. Records \subseteq Records'
    BY <1>2, <1>3 DEF Records
  <2>2. \A rid \in Records' : rid \in rows'
    BY <1>7 DEF Records, SlotsAreRows, RecordId
  <2> QED
    BY <1>1, <1>2, <2>1, <2>2 DEF RowsKept
<1> QED
  BY <1>1, <1>2, <1>3, <1>5, <1>6, <1>7, <1>8 DEF IInv, RowsKept

-----------------------------------------------------------------------------
(* The scan. *)

LEMMA FetchedNext ==
  ASSUME TypeOK, NEW s, Fetching(s), ~FetchFails(s)
  PROVE  IsFetched(Fetched(s), s)
BY FetchAhead, FetchNextPage

LEMMA BeginScanKeeps ==
  ASSUME IInv, NEW deletes \in BOOLEAN, BeginScan(deletes)
  PROVE  IInv'
<1> DEFINE s == [NoScan EXCEPT !.running = TRUE, !.deletes = deletes, !.due = Records]
<1>1. /\ TypeOK /\ RowsKept /\ SlotsAreRows /\ ~scan.running
      /\ disposed \subseteq held /\ Pinned = held
  BY IdleScan DEF IInv, BeginScan, RowsKept
<1>2. /\ ~FetchFails(s) /\ scan' = Fetched(s)
      /\ UNCHANGED <<pages, slots, held, freePages, rows, stray>>
  BY DEF BeginScan
<1>3. allocated' = allocated /\ disposed' = disposed
  BY <1>1, NoDisposals DEF BeginScan
<1>4. /\ s.running = TRUE /\ s.due = Records /\ s.page = 0 /\ s.next = None /\ s.ahead = None
      /\ s \in Scan
  <2>1. Records \in SUBSET RecordId /\ 0 \in 0 .. MaxPages - 1
    BY RecordSizesAssumption DEF Records
  <2>2. /\ NoScan \in Scan
        /\ NoScan.page = 0 /\ NoScan.next = None /\ NoScan.ahead = None
    BY <2>1 DEF NoScan, Scan
  <2> QED
    BY <2>1, <2>2 DEF Scan
<1> HIDE DEF s
<1>5. Fetching(s)
  BY <1>4 DEF Fetching
<1>6. IsFetched(scan', s)
  BY <1>1, <1>2, <1>5, FetchedNext
<1>7. Beyond(s) = Records
  <2>1. \A rid \in Records : rid[1] > 0
    BY DEF Records, RecordId, Page
  <2> QED
    BY <1>4, <2>1 DEF Beyond
<1>8. scan' \in Scan /\ scan'.running = TRUE /\ scan'.due = From(scan') /\ Placed(scan')
  BY <1>4, <1>6, <1>7 DEF IsFetched
<1>9. Records' = Records
  BY <1>2, <1>3 DEF Records
<1>10. ScanPlace'
  BY <1>1, <1>2, <1>3, <1>8, <1>9 DEF ScanPlace, Placed, AheadOf, From
<1>11. TypeOK'
  BY <1>1, <1>2, <1>3, <1>8 DEF TypeOK
<1>12. disposed' \subseteq held'
  BY <1>1, <1>2, <1>3
<1> QED
  BY <1>1, <1>2, <1>9, <1>10, <1>11, <1>12, HeldDisposals DEF IInv, RowsKept, SlotsAreRows

\* a scanner at a record
LEMMA RunningScan ==
  ASSUME IInv, scan.next # None
  PROVE  /\ scan.running /\ Fetching(scan) /\ disposed \subseteq held
         /\ scan.page \in allocated /\ scan.page \in Page /\ scan.page # 0
         /\ scan.next \in slots[scan.page] /\ scan.next \in Slot
         /\ scan.due \ {<<scan.page, scan.next>>} = Beyond(scan)
<1>1. /\ TypeOK /\ ScanPlace /\ Placed(scan)
  BY DEF IInv, ScanPlace
<1>2. scan.running
  BY <1>1 DEF ScanPlace, NoScan
<1>3. /\ scan \in Scan /\ scan.page \in allocated /\ scan.next \in slots[scan.page] /\ AheadOf(scan)
      /\ disposed \subseteq held
  BY <1>1 DEF ScanPlace, Placed, TypeOK
<1>4. scan.page \in Page /\ scan.page # 0 /\ scan.next \in Slot /\ scan.next \in Nat
  BY <1>1, <1>3, PagesAreNaturals, SlotsAreNaturals DEF Page
<1>5. scan.due \ {<<scan.page, scan.next>>} = Beyond(scan)
  <2> DEFINE here == <<scan.page, scan.next>>
  <2>1. scan.due = {rid \in Records : rid[1] > scan.page \/ (rid[1] = scan.page /\ rid[2] >= scan.next)}
    BY <1>1, <1>2 DEF ScanPlace, From
  <2>2. ASSUME NEW rid \in Records
        PROVE  /\ rid[2] \in Nat /\ rid[1] \in Nat /\ scan.page \in Nat
               /\ rid = here <=> rid[1] = scan.page /\ rid[2] = scan.next
    BY <1>3, PagesAreNaturals, <1>1, SlotsAreNaturals DEF Records, RecordId
  <2>3. ASSUME NEW rid \in Records
        PROVE  (/\ rid[1] > scan.page \/ (rid[1] = scan.page /\ rid[2] >= scan.next)
                /\ rid # here)
               <=> (rid[1] > scan.page \/ (rid[1] = scan.page /\ rid[2] > scan.next))
    BY <1>4, <2>2
  <2>4. Beyond(scan) = {rid \in Records : rid[1] > scan.page \/ (rid[1] = scan.page /\ rid[2] > scan.next)}
    BY DEF Beyond
  <2> HIDE DEF here
  <2> QED
    BY <2>1, <2>3, <2>4 DEF here
<1> QED
  BY <1>2, <1>3, <1>4, <1>5 DEF Fetching

\* the step of the scanner that NextRecord and DeleteRecord share
LEMMA ScanStep ==
  ASSUME IInv, scan.next # None, ~FetchFails(scan),
         NEW t, t = [Fetched(scan) EXCEPT !.due = @ \ {<<scan.page, scan.next>>}]
  PROVE  /\ t \in Scan /\ t.running = TRUE /\ t.due = Beyond(scan) /\ From(t) = Beyond(scan)
         /\ Placed(t) /\ t.page \in allocated
<1> DEFINE here == <<scan.page, scan.next>>
<1>1. PICK f : f = Fetched(scan)
  OBVIOUS
<1>2. IsFetched(f, scan)
  BY <1>1, RunningScan, FetchedNext DEF IInv
<1>3. f \in Scan /\ f.running = TRUE /\ f.due = scan.due /\ Placed(f) /\ From(f) = Beyond(scan)
      /\ f.page \in allocated
  BY <1>2, RunningScan DEF IsFetched, Scan, Fetching
<1>4. t = [f EXCEPT !.due = f.due \ {here}]
  BY <1>1
<1> HIDE DEF here
<1>5. /\ t.page = f.page /\ t.next = f.next /\ t.ahead = f.ahead /\ t.running = f.running
      /\ t.due = f.due \ {here}
  BY <1>3, <1>4 DEF Scan
<1>6. t \in Scan
  BY <1>3, <1>4 DEF Scan
<1>7. Placed(t) /\ From(t) = From(f)
  BY <1>3, <1>5 DEF Placed, AheadOf, From
<1> QED
  BY <1>3, <1>5, <1>6, <1>7, RunningScan DEF here

LEMMA NextRecordKeeps ==
  ASSUME IInv, NextRecord
  PROVE  IInv'
<1>1. /\ TypeOK /\ RowsKept /\ SlotsAreRows /\ scan.next # None /\ ~FetchFails(scan)
      /\ disposed \subseteq held
  BY RunningScan DEF IInv, NextRecord, RowsKept
<1>2. /\ scan' = [Fetched(scan) EXCEPT !.due = @ \ {<<scan.page, scan.next>>}]
      /\ UNCHANGED <<pages, slots, held, freePages, rows, stray>>
  BY DEF NextRecord
<1>3. allocated' = allocated /\ disposed' = disposed
  BY <1>1, NoDisposals DEF NextRecord
<1>4. scan' \in Scan /\ scan'.running = TRUE /\ scan'.due = From(scan') /\ Placed(scan')
  BY <1>1, <1>2, ScanStep
<1>5. Records' = Records
  BY <1>2, <1>3 DEF Records
<1>6. ScanPlace'
  BY <1>1, <1>2, <1>3, <1>4, <1>5 DEF ScanPlace, Placed, AheadOf, From
<1>7. TypeOK'
  BY <1>1, <1>2, <1>3, <1>4 DEF TypeOK
<1>8. disposed' \subseteq held'
  BY <1>1, <1>2, <1>3
<1> QED
  BY <1>1, <1>2, <1>5, <1>6, <1>7, <1>8, HeldDisposals DEF IInv, RowsKept, SlotsAreRows

(***************************************************************************)
(* The scanner fetched ahead before the record is deleted, and stands on a *)
(* later one: neither its slot nor its page is what the delete takes away. *)
(***************************************************************************)
LEMMA DeleteRecordKeeps ==
  ASSUME IInv, DeleteRecord
  PROVE  IInv'
<1> DEFINE p == scan.page
           here == <<scan.page, scan.next>>
           emptied == Emptied(p, scan.next)
           waits == p \in held \cup {scan'.page}
           gone == IF emptied /\ ~waits THEN {p} ELSE {}
           later == IF emptied /\ waits THEN {p} ELSE {}
<1>1. /\ TypeOK /\ RowsKept /\ SlotsAreRows /\ scan.next # None /\ ~FetchFails(scan)
      /\ disposed \subseteq held
  BY RunningScan DEF IInv, DeleteRecord, RowsKept
<1>2. /\ p \in allocated /\ p \in Page /\ p # 0 /\ scan.next \in slots[p] /\ scan.next \in Slot
      /\ scan.next \in Nat /\ here \in RecordId /\ here[1] = p /\ here[2] = scan.next
  BY <1>1, RunningScan, RecordSizesAssumption DEF RecordId, Slot
<1>3. /\ scan' = [Fetched(scan) EXCEPT !.due = @ \ {here}]
      /\ slots' = [slots EXCEPT ![p] = @ \ {scan.next}]
      /\ held' = IF emptied THEN held ELSE held \cup {p}
      /\ freePages' = freePages \cup {p}
      /\ rows' = rows \ {here} /\ stray' = stray \ {here}
      /\ pages' = pages
  BY DEF DeleteRecord
<1>4. allocated' = allocated \ gone /\ disposed' = disposed \cup later
  BY <1>1, NoDisposals DEF DeleteRecord
<1>5. /\ scan' \in Scan /\ scan'.running = TRUE /\ scan'.due = Beyond(scan)
      /\ From(scan') = Beyond(scan) /\ Placed(scan') /\ scan'.page \in allocated
  BY <1>1, <1>3, ScanStep
<1>6. /\ emptied <=> slots[p] \ {scan.next} = {}
      /\ gone = IF emptied /\ ~(p \in held \cup {scan'.page}) THEN {p} ELSE {}
      /\ later = IF emptied /\ p \in held \cup {scan'.page} THEN {p} ELSE {}
  BY DEF Emptied
<1> HIDE DEF emptied, waits, gone, later, here
<1>7. slots' \in [Page -> SUBSET Slot]
      /\ \A r \in Page : slots'[r] = IF r = p THEN slots[r] \ {scan.next} ELSE slots[r]
  BY <1>1, <1>2, <1>3 DEF TypeOK
\* where the scanner stands now
<1>8. ASSUME scan'.next # None
      PROVE  /\ scan'.page = p => scan'.next > scan.next
             /\ scan'.page \in Page /\ scan'.next \in slots[scan'.page] /\ scan'.next \in Nat
             /\ AheadOf(scan')
  <2>1. /\ scan'.page \in allocated /\ scan'.next \in slots[scan'.page] /\ AheadOf(scan')
    BY <1>5, <1>8 DEF Placed
  <2>2. scan'.page \in Page /\ scan'.next \in Slot /\ scan'.next \in Nat
    BY <1>1, <2>1, PagesAreNaturals, SlotsAreNaturals
  <2>3. <<scan'.page, scan'.next>> \in From(scan')
    BY <1>8, <2>1, <2>2 DEF From, Records, RecordId, Page
  <2>4. <<scan'.page, scan'.next>> \in Beyond(scan)
    BY <1>5, <2>3
  <2>5. scan'.page = p => scan'.next > scan.next
    BY <1>2, <2>2, <2>4 DEF Beyond, Page
  <2> QED
    BY <2>1, <2>2, <2>5
<1>9. scan'.next # None /\ scan'.page = p => ~emptied
  BY <1>2, <1>6, <1>8
<1>10. Records' = Records \ {here}
  <2>1. ASSUME NEW rid \in RecordId
        PROVE  rid \in Records' <=> rid \in Records /\ rid # here
    <3>1. rid[1] \in Page /\ (rid = here <=> rid[1] = p /\ rid[2] = scan.next)
      BY <1>2 DEF RecordId, here
    <3>2. CASE rid[1] # p
      BY <1>4, <1>6, <1>7, <3>1, <3>2 DEF Records
    <3>3. CASE rid[1] = p
      <4>1. rid \in Records /\ rid # here <=> rid[2] \in slots'[p]
        BY <1>2, <1>7, <3>1, <3>3 DEF Records
      <4>2. rid[2] \in slots'[p] => ~emptied
        BY <1>2, <1>6, <1>7
      <4>3. rid \in Records' <=> rid[2] \in slots'[p]
        BY <1>2, <1>4, <1>6, <3>3, <4>2 DEF Records
      <4> QED
        BY <4>1, <4>3
    <3> QED
      BY <3>2, <3>3
  <2> QED
    BY <2>1 DEF Records
<1>11. Placed(scan)'
  <2>1. scan'.page \in allocated'
    BY <1>4, <1>5, <1>6
  <2>2. CASE scan'.next = None
    BY <2>1, <2>2 DEF Placed
  <2>3. CASE scan'.next # None
    <3>1. scan'.page # p => slots'[scan'.page] = slots[scan'.page]
      BY <1>7, <1>8, <2>3
    <3>2. scan'.page = p => slots'[scan'.page] = slots[scan'.page] \ {scan.next} /\ scan'.next > scan.next
      BY <1>7, <1>8, <2>3
    <3>3. scan'.next \in slots'[scan'.page]
      BY <1>2, <1>8, <2>3, <3>1, <3>2
    <3>4. AheadOf(scan')
      BY <1>8, <2>3
    <3>5. scan'.ahead # None => scan'.ahead \in Nat
      BY <1>5, RecordSizesAssumption DEF Scan, Slot
    <3>6. \A slot \in slots'[scan'.page] : slot \in slots[scan'.page]
      BY <3>1, <3>2
    <3>7. CASE scan'.ahead = None
      BY <3>4, <3>6, <3>7, <1>1, <1>8, <2>3, SlotsAreNaturals, <2>1, <3>3 DEF AheadOf, Placed
    <3>8. CASE scan'.ahead # None
      <4>1. /\ scan'.ahead \in slots[scan'.page] /\ scan'.next < scan'.ahead
            /\ \A slot \in slots[scan'.page] : slot <= scan'.next \/ scan'.ahead <= slot
        BY <3>4, <3>8 DEF AheadOf
      <4>2. scan'.ahead \in slots'[scan'.page]
        BY <1>2, <1>8, <2>3, <3>1, <3>2, <3>5, <3>8, <4>1
      <4> QED
        BY <2>1, <3>3, <3>6, <4>1, <4>2 DEF AheadOf, Placed
    <3> QED
      BY <3>7, <3>8
  <2> QED
    BY <2>2, <2>3
<1>12. scan'.due = From(scan)'
  <2>1. here \notin Beyond(scan)
    BY <1>2, PagesAreNaturals, <1>1 DEF Beyond
  <2>2. From(scan)' = From(scan') \ {here}
    BY <1>10 DEF From
  <2> QED
    BY <1>5, <2>1, <2>2
<1>13. scan'.next # None => disposed' \subseteq held'
  BY <1>1, <1>3, <1>4, <1>6, <1>9
<1>14. ScanPlace'
  BY <1>5, <1>11, <1>12, <1>13 DEF ScanPlace
<1>15. /\ disposed' \subseteq Pinned'
       /\ \A q \in disposed' \ held' : q \in allocated' /\ slots'[q] = {}
  <2>1. disposed' \subseteq Pinned'
    BY <1>1, <1>2, <1>3, <1>4, <1>6 DEF Pinned
  <2>2. ASSUME NEW q \in disposed' \ held' PROVE q \in allocated' /\ slots'[q] = {}
    <3>1. q = p /\ emptied
      BY <1>1, <1>3, <1>4, <1>6
    <3>2. q \in allocated'
      BY <1>1, <1>2, <1>3, <1>4, <1>6, <3>1
    <3> QED
      BY <1>2, <1>6, <1>7, <3>1, <3>2
  <2> QED
    BY <2>1, <2>2
<1>16. SlotsAreRows'
  <2>1. ASSUME NEW r \in Page, NEW i \in slots'[r] PROVE <<r, i>> \in rows'
    <3>1. i \in slots[r] /\ ~(r = p /\ i = scan.next)
      BY <1>7, <2>1
    <3>2. <<r, i>> \in rows /\ <<r, i>> # here
      BY <1>1, <3>1 DEF SlotsAreRows, here
    <3> QED
      BY <1>3, <3>2
  <2> QED
    BY <2>1 DEF SlotsAreRows
<1>17. Records' \subseteq rows' /\ rows' \ stray' \subseteq Records'
  BY <1>1, <1>3, <1>10 DEF RowsKept
<1>18. TypeOK'
  <2>1. held' \subseteq Page /\ disposed' \subseteq Page /\ freePages' \subseteq Page
    BY <1>1, <1>2, <1>3, <1>4, <1>6 DEF TypeOK
  <2>2. allocated' \subseteq 1 .. pages' - 1 /\ pages' \in 1 .. MaxPages
    BY <1>1, <1>3, <1>4, <1>6 DEF TypeOK
  <2>3. rows' \subseteq RecordId /\ stray' \subseteq rows'
    BY <1>1, <1>3 DEF TypeOK
  <2> QED
    BY <1>5, <1>7, <2>1, <2>2, <2>3 DEF TypeOK
<1> QED
  BY <1>14, <1>15, <1>16, <1>17, <1>18 DEF IInv, RowsKept

\* a scanner that has gone, and what it leaves pinned
LEMMA GoneScan ==
  ASSUME IInv, scan' = NoScan, UNCHANGED <<pages, slots, freePages, rows, stray>>,
         allocated' = allocated, disposed' = disposed,
         held' \subseteq Page, disposed \subseteq held'
  PROVE  IInv'
<1>1. TypeOK /\ RowsKept /\ SlotsAreRows
  BY DEF IInv
<1>2. NoScan \in Scan
  BY RecordSizesAssumption DEF NoScan, Scan
<1>3. TypeOK'
  BY <1>1, <1>2 DEF TypeOK
<1>4. ScanPlace'
  BY DEF ScanPlace, Placed, NoScan
<1>5. Records' = Records
  BY DEF Records
<1> QED
  BY <1>1, <1>3, <1>4, <1>5, HeldDisposals DEF IInv, RowsKept, SlotsAreRows

LEMMA EndScanKeeps ==
  ASSUME IInv, EndScan
  PROVE  IInv'
<1>1. held' = held \cup ({scan.page} \ {0}) /\ disposed \subseteq held'
  BY DEF IInv, RowsKept, Pinned, EndScan
<1>2. held \subseteq Page /\ {scan.page} \ {0} \subseteq Page
  BY PagesAreNaturals DEF IInv, TypeOK, ScanPlace, Placed
<1> QED
  BY <1>1, <1>2, GoneScan DEF EndScan

LEMMA ScanFailsKeeps ==
  ASSUME IInv, ScanFails
  PROVE  IInv'
<1>1. /\ scan.next # None /\ disposed \subseteq held /\ TypeOK /\ held \subseteq Page
      /\ UNCHANGED <<pages, slots, freePages, rows, stray>> /\ scan' = NoScan
  BY RunningScan DEF ScanFails, IInv, TypeOK
<1>2. CASE UNCHANGED <<allocated, disposed, held>>
  BY <1>1, <1>2, GoneScan
<1>3. CASE /\ ~FetchFails(scan)
           /\ LET q == Fetched(scan).page
              IN  /\ held' = held \cup {q}
                  /\ allocated' = allocated \ Disposals(Unpinned(scan.page, q), held)
                  /\ disposed' = disposed \ Disposals(Unpinned(scan.page, q), held)
  <2>1. PICK q : q = Fetched(scan).page
    OBVIOUS
  <2>2. IsFetched(Fetched(scan), scan)
    BY <1>1, <1>3, RunningScan, FetchedNext
  <2>3. q \in Page
    BY <1>1, <2>1, <2>2, RunningScan, PagesAreNaturals DEF IsFetched
  <2>4. held' = held \cup {q} /\ allocated' = allocated /\ disposed' = disposed
    BY <1>1, <1>3, <2>1, NoDisposals
  <2> QED
    BY <1>1, <2>3, <2>4, GoneScan
<1> QED
  BY <1>2, <1>3 DEF ScanFails

LEMMA RestartKeeps ==
  ASSUME IInv, Restart
  PROVE  IInv'
<1>1. /\ TypeOK /\ RowsKept /\ SlotsAreRows /\ ~scan.running
      /\ held' = {} /\ disposed' = {} /\ freePages' = {p \in allocated : ~Full(p)}
      /\ UNCHANGED <<pages, allocated, slots, scan, rows, stray>>
  BY DEF IInv, Restart
<1>2. ScanPlace'
  BY <1>1, IdlePlace
<1>3. freePages' \subseteq Page
  BY <1>1, PagesAreNaturals
<1>4. TypeOK'
  BY <1>1, <1>3 DEF TypeOK
<1>5. Records' = Records
  BY <1>1 DEF Records
<1> QED
  BY <1>1, <1>2, <1>4, <1>5 DEF IInv, RowsKept, SlotsAreRows

-----------------------------------------------------------------------------
LEMMA RecordFileInit == Init => IInv
<1> SUFFICES ASSUME Init PROVE IInv
  OBVIOUS
<1>1. NoScan \in Scan
  BY RecordSizesAssumption DEF NoScan, Scan
<1>2. TypeOK
  BY <1>1, RecordSizesAssumption DEF Init, TypeOK
<1>3. Records = {}
  BY DEF Init, Records
<1>4. ScanPlace
  BY DEF Init, ScanPlace, Placed, NoScan
<1> QED
  BY <1>2, <1>3, <1>4 DEF Init, IInv, RowsKept, SlotsAreRows

LEMMA RecordFileStep == IInv /\ [Next]_vars => IInv'
<1> SUFFICES ASSUME IInv, [Next]_vars PROVE IInv'
  OBVIOUS
<1>1. ASSUME NEW E \in SUBSET Page, NEW p \in Page, InsertIntoFreePage(p, E) PROVE IInv'
  BY <1>1, InsertIntoFreePageKeeps
<1>12. ASSUME NEW E \in SUBSET Page, NEW p \in Page, TakenBackFromFreePage(p, E) PROVE IInv'
  BY <1>12, TakenBackFromFreePageKeeps
<1>2. ASSUME NEW E \in SUBSET Page, InsertFindsNoFrame(E) PROVE IInv'
  BY <1>2, InsertFindsNoFrameKeeps
<1>3. ASSUME NEW p \in Page, InsertIntoNewPage(p) PROVE IInv'
  BY <1>3, InsertIntoNewPageKeeps
<1>13. ASSUME NEW p \in Page, TakenBackFromNewPage(p) PROVE IInv'
  BY <1>13, TakenBackFromNewPageKeeps
<1>4. CASE InsertFindsNoPage
  BY <1>4, InsertFindsNoPageKeeps
<1>5. ASSUME NEW deletes \in BOOLEAN, BeginScan(deletes) PROVE IInv'
  BY <1>5, BeginScanKeeps
<1>6. CASE NextRecord
  BY <1>6, NextRecordKeeps
<1>7. CASE DeleteRecord
  BY <1>7, DeleteRecordKeeps
<1>8. CASE EndScan
  BY <1>8, EndScanKeeps
<1>9. CASE ScanFails
  BY <1>9, ScanFailsKeeps
<1>10. CASE Restart
  BY <1>10, RestartKeeps
<1>11. CASE UNCHANGED vars
  BY <1>11 DEF vars, IInv, TypeOK, RowsKept, SlotsAreRows, ScanPlace, Placed, AheadOf, From,
     Records, Pinned
<1> QED
  BY <1>1, <1>2, <1>3, <1>4, <1>5, <1>6, <1>7, <1>8, <1>9, <1>10, <1>11, <1>12, <1>13
  DEF Next

(***************************************************************************)
(* The inductive invariant of the record file: every set bit is a row, no  *)
(* page waits for its disposal without a pin, none by the scanner's alone  *)
(* unless it is empty and has its bit, also after an INSERT that an index  *)
(* refused; and a running scanner stands on a record, knows the one after  *)
(* it and still owes exactly the records from there on.                    *)
(***************************************************************************)
THEOREM RecordsAndScanner == Spec => []IInv
BY RecordFileInit, RecordFileStep, PTL DEF Spec

(***************************************************************************)
(* The state of RecordFileHandler and RecordFileScanner is well typed, and *)
(* no page beyond the file has a bit.                                      *)
(***************************************************************************)
THEOREM TypesHold == Spec => []TypeOK
<1>1. IInv => TypeOK
  BY DEF IInv
<1> QED
  BY <1>1, RecordsAndScanner, PTL

(***************************************************************************)
(* InsertRecord, DeleteRecord of a scan and of an INSERT that is taken     *)
(* back, deferred disposals, reused pages and restarts lose no row and     *)
(* bring no deleted one back.                                              *)
(***************************************************************************)
THEOREM RowsStay == Spec => []RowsKept
<1>1. IInv => RowsKept
  BY DEF IInv
<1> QED
  BY <1>1, RecordsAndScanner, PTL

(***************************************************************************)
(* A scan returns every record it started with exactly once, also the scan *)
(* of a DELETE that clears slots and disposes pages behind its scanner,    *)
(* although NextSetBit may miss bits.                                      *)
(***************************************************************************)
THEOREM ScansAreComplete == Spec => []ScanComplete
<1>1. IInv => ScanComplete
  <2> SUFFICES ASSUME IInv, scan.running
               PROVE  /\ scan.next # None => <<scan.page, scan.next>> \in scan.due
                      /\ scan.next = None => scan.due = {}
                      /\ scan.due \subseteq Records
    BY DEF ScanComplete
  <2>1. scan.due = From(scan)
    BY DEF IInv, ScanPlace
  <2>2. ASSUME scan.next # None PROVE <<scan.page, scan.next>> \in From(scan)
    <3>1. /\ scan.page \in allocated /\ scan.page \in Page /\ scan.next \in Slot
          /\ scan.next \in slots[scan.page] /\ scan.next \in Nat
      BY <2>2, RunningScan, RecordSizesAssumption DEF Slot
    <3> QED
      BY <2>2, <3>1 DEF From, Records, RecordId
  <2> QED
    BY <2>1, <2>2 DEF From
<1> QED
  BY <1>1, RecordsAndScanner, PTL
=============================================================================
