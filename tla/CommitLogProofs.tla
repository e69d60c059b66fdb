---------------------------- MODULE CommitLogProofs ----------------------------
(***************************************************************************)
(* The redo log, proved for every size of blocks, of the buffer and of     *)
(* records, every number of records and runs, and every share of a write   *)
(* that stdio keeps: the log is spelled once and in order, commits leave   *)
(* the buffer, a crash leaves a beginning.  First what the sequences are   *)
(* made of (flattened blocks, prefixes, writes to a file), then            *)
(* AppendCLogRecord pass by pass, then what AppendRecord does to buffer    *)
(* and file, then the inductive invariant.                                 *)
(***************************************************************************)
EXTENDS CommitLog, SequenceTheorems, WellFoundedInduction, TLAPS

\* The induction of the proofs about data: the numbers for which a claim
\* fails are a set, and its least member leads to a contradiction.
LEMMA LeastNatural ==
  ASSUME NEW T \in SUBSET Nat, T # {}
  PROVE  \E x \in T : \A y \in T : x <= y
<1> DEFINE R == OpToRel(<, Nat)
<1>1. \A x, y \in Nat : x < y => <<x, y>> \in R
  BY DEF OpToRel
<1>2. PICK x \in T : \A y \in T : <<y, x>> \notin R
  <2>1. IsWellFoundedOn(R, Nat)
    BY NatLessThanWellFounded
  <2> HIDE DEF R
  <2> QED
    BY <2>1, WFMin
<1> HIDE DEF R
<1>3. ASSUME NEW y \in T PROVE x <= y
  <2>1. ~(y < x)
    BY <1>1, <1>2
  <2> QED
    BY <2>1
<1> QED
  BY <1>3

-----------------------------------------------------------------------------
(* Flattening a sequence of sequences. *)

FlatStep(s, w, i) == IF i = 1 THEN s[i] ELSE w[i - 1] \o s[i]
Flat(s) == CHOOSE w : w = [i \in 1 .. Len(s) |-> FlatStep(s, w, i)]

LEMMA FlattenIsFlat ==
  ASSUME NEW s, Len(s) # 0
  PROVE  FlattenSeq(s) = Flat(s)[Len(s)]
BY DEF FlattenSeq, Flat, FlatStep

LEMMA FlatDefined ==
  ASSUME NEW s, Len(s) \in Nat
  PROVE  Flat(s) = [i \in 1 .. Len(s) |-> FlatStep(s, Flat(s), i)]
<1> DEFINE N == Len(s)
           F(w, k) == w = [i \in 1 .. k |-> FlatStep(s, w, i)]
           T == {k \in 0 .. N : ~\E w : F(w, k)}
<1>1. N \in Nat
  OBVIOUS
<1> HIDE DEF N
<1>2. T = {}
  <2> SUFFICES ASSUME T # {} PROVE FALSE
    OBVIOUS
  <2>1. PICK k \in T : \A j \in T : k <= j
    <3>1. T \in SUBSET Nat
      BY <1>1
    <3> HIDE DEF T
    <3> QED
      BY <3>1, LeastNatural
  <2>2. k \in 0 .. N /\ ~\E w : F(w, k)
    BY <2>1
  <2>3. k # 0
    <3>1. F([i \in 1 .. 0 |-> 0], 0)
      OBVIOUS
    <3> QED
      BY <2>2, <3>1
  <2>4. PICK g : F(g, k - 1)
    <3>1. k - 1 \in 0 .. N /\ ~(k <= k - 1)
      BY <1>1, <2>2, <2>3
    <3>2. k - 1 \notin T
      BY <2>1, <3>1
    <3> QED
      BY <3>1, <3>2
  <2> DEFINE h == [i \in 1 .. k |-> FlatStep(s, g, i)]
  <2>5. ASSUME NEW i \in 1 .. k PROVE FlatStep(s, h, i) = FlatStep(s, g, i)
    <3>1. CASE i = 1
      BY <3>1 DEF FlatStep
    <3>2. CASE i # 1
      <4>1. i - 1 \in 1 .. k - 1 /\ i - 1 \in 1 .. k
        BY <1>1, <2>2, <3>2
      <4>2. h[i - 1] = g[i - 1]
        BY <2>4, <4>1
      <4> HIDE DEF h
      <4> QED
        BY <3>2, <4>2 DEF FlatStep
    <3> QED
      BY <3>1, <3>2
  <2>6. F(h, k)
    BY <2>5
  <2> QED
    BY <2>2, <2>6
<1>3. \E w : F(w, N)
  <2>1. N \in 0 .. N
    BY <1>1
  <2> HIDE DEF F
  <2> QED
    BY <1>2, <2>1
<1>4. \E w : w = [i \in 1 .. Len(s) |-> FlatStep(s, w, i)]
  BY <1>3 DEF N
<1> HIDE DEF F, T
<1> QED
  BY <1>4 DEF Flat

LEMMA FlattenEmpty == FlattenSeq(<<>>) = <<>>
BY DEF FlattenSeq

LEMMA FlattenAppend ==
  ASSUME NEW S, NEW s \in Seq(Seq(S)), NEW x \in Seq(S)
  PROVE  FlattenSeq(Append(s, x)) = FlattenSeq(s) \o x
<1> DEFINE N == Len(s)
           t == Append(s, x)
<1>1. N \in Nat /\ t \in Seq(Seq(S)) /\ Len(t) = N + 1 /\ t[N + 1] = x
      /\ \A i \in 1 .. N : t[i] = s[i]
  OBVIOUS
<1> HIDE DEF t
<1>2. FlattenSeq(t) = Flat(t)[N + 1]
  BY <1>1, FlattenIsFlat
<1>3. \A i \in 1 .. N + 1 : Flat(t)[i] = FlatStep(t, Flat(t), i)
  BY <1>1, FlatDefined
<1>4. CASE N = 0
  <2>1. FlattenSeq(t) = x
    BY <1>1, <1>2, <1>3, <1>4 DEF FlatStep
  <2>2. FlattenSeq(s) = <<>>
    BY <1>4 DEF FlattenSeq
  <2> QED
    BY <2>1, <2>2 DEF t
<1>5. CASE N # 0
  <2>1. FlattenSeq(s) = Flat(s)[N]
    BY <1>1, <1>5, FlattenIsFlat
  <2>2. \A i \in 1 .. N : Flat(s)[i] = FlatStep(s, Flat(s), i)
    BY <1>1, FlatDefined
  <2> DEFINE T == {i \in 1 .. N : Flat(s)[i] # Flat(t)[i]}
  <2>3. ASSUME T # {} PROVE FALSE
    <3>1. PICK i \in T : \A j \in T : i <= j
      <4>1. T \in SUBSET Nat
        BY <1>1
      <4> HIDE DEF T
      <4> QED
        BY <2>3, <4>1, LeastNatural
    <3>2. i \in 1 .. N /\ i \in 1 .. N + 1 /\ t[i] = s[i] /\ Flat(s)[i] # Flat(t)[i]
      BY <1>1, <3>1
    <3>3. FlatStep(s, Flat(s), i) = FlatStep(t, Flat(t), i)
      <4>1. CASE i = 1
        BY <3>2, <4>1 DEF FlatStep
      <4>2. CASE i # 1
        <5>1. i - 1 \in 1 .. N /\ ~(i <= i - 1)
          BY <1>1, <3>2, <4>2
        <5>2. Flat(s)[i - 1] = Flat(t)[i - 1]
          BY <3>1, <5>1
        <5> QED
          BY <3>2, <4>2, <5>2 DEF FlatStep
      <4> QED
        BY <4>1, <4>2
    <3> QED
      BY <1>3, <2>2, <3>2, <3>3
  <2>4. Flat(s)[N] = Flat(t)[N]
    <3>1. N \in 1 .. N
      BY <1>1, <1>5
    <3>2. T = {}
      BY <2>3
    <3>3. Flat(s)[N] # Flat(t)[N] => N \in T
      BY <3>1
    <3> HIDE DEF T
    <3> QED
      BY <3>2, <3>3
  <2>5. Flat(t)[N + 1] = Flat(t)[N] \o x
    <3>1. N + 1 \in 1 .. N + 1 /\ N + 1 # 1 /\ (N + 1) - 1 = N
      BY <1>1, <1>5
    <3>2. FlatStep(t, Flat(t), N + 1) = Flat(t)[(N + 1) - 1] \o t[N + 1]
      BY <3>1 DEF FlatStep
    <3> QED
      BY <1>1, <1>3, <3>1, <3>2
  <2> QED
    BY <1>2, <2>1, <2>4, <2>5 DEF t
<1> QED
  BY <1>4, <1>5

\* a sequence is empty, or what comes before its last element and that element
LEMMA AppendForm ==
  ASSUME NEW S, NEW s \in Seq(S), s # <<>>
  PROVE  /\ Len(s) \in Nat \ {0} /\ s[Len(s)] \in S
         /\ SubSeq(s, 1, Len(s) - 1) \in Seq(S) /\ Len(SubSeq(s, 1, Len(s) - 1)) = Len(s) - 1
         /\ s = Append(SubSeq(s, 1, Len(s) - 1), s[Len(s)])
<1> DEFINE n == Len(s) - 1
           f == SubSeq(s, 1, n)
<1>1. Len(s) \in Nat /\ Len(s) # 0
  BY EmptySeq
<1>2. n \in Nat /\ n + 1 = Len(s) /\ n <= Len(s)
  BY <1>1
<1>3. f \in Seq(S) /\ Len(f) = n /\ \A i \in 1 .. n : f[i] = s[i]
  BY <1>2, SubSeqProperties
<1>4. s[Len(s)] \in S
  BY <1>1
<1>5. Append(f, s[Len(s)]) = s
  <2> HIDE DEF f, n
  <2>1. /\ Append(f, s[Len(s)]) \in Seq(S) /\ Len(Append(f, s[Len(s)])) = Len(s)
        /\ \A i \in 1 .. Len(s) : Append(f, s[Len(s)])[i] = s[i]
    BY <1>2, <1>3, <1>4
  <2> QED
    BY <2>1, SeqEqual
<1> QED
  BY <1>1, <1>3, <1>4, <1>5

LEMMA FlattenType ==
  ASSUME NEW S, NEW s \in Seq(Seq(S))
  PROVE  FlattenSeq(s) \in Seq(S)
<1> DEFINE T == {k \in Nat : \E t \in Seq(Seq(S)) : Len(t) = k /\ FlattenSeq(t) \notin Seq(S)}
<1>1. ASSUME T # {} PROVE FALSE
  <2>1. PICK k \in T : \A j \in T : k <= j
    <3>1. T \in SUBSET Nat
      OBVIOUS
    <3> HIDE DEF T
    <3> QED
      BY <1>1, <3>1, LeastNatural
  <2>2. PICK t \in Seq(Seq(S)) : Len(t) = k /\ FlattenSeq(t) \notin Seq(S)
    BY <2>1
  <2>3. t # <<>>
    BY <2>2, FlattenEmpty
  <2> DEFINE f == SubSeq(t, 1, Len(t) - 1)
  <2>4. /\ Len(t) \in Nat \ {0} /\ t[Len(t)] \in Seq(S)
        /\ f \in Seq(Seq(S)) /\ Len(f) = k - 1 /\ t = Append(f, t[Len(t)])
    BY <2>2, <2>3, AppendForm
  <2> HIDE DEF f
  <2>5. FlattenSeq(f) \in Seq(S)
    <3>1. k - 1 \notin T /\ k - 1 \in Nat
      BY <2>1, <2>2, <2>4
    <3> QED
      BY <2>4, <3>1
  <2>6. FlattenSeq(t) = FlattenSeq(f) \o t[Len(t)]
    BY <2>4, FlattenAppend
  <2> QED
    BY <2>2, <2>4, <2>5, <2>6, ConcatProperties
<1>2. Len(s) \notin T /\ Len(s) \in Nat
  BY <1>1
<1> QED
  BY <1>2

LEMMA ConcatAppend ==
  ASSUME NEW S, NEW s \in Seq(S), NEW f \in Seq(S), NEW x \in S
  PROVE  s \o Append(f, x) = Append(s \o f, x)
<1> DEFINE l == s \o Append(f, x)
           r == Append(s \o f, x)
           g == Append(f, x)
           h == s \o f
           m == Len(s)
           n == Len(f)
<1>1. m \in Nat /\ n \in Nat
  OBVIOUS
<1>2. g \in Seq(S) /\ h \in Seq(S) /\ Len(g) = n + 1 /\ Len(h) = m + n
  BY ConcatProperties
<1>3. g[n + 1] = x /\ \A i \in 1 .. n : g[i] = f[i]
  OBVIOUS
<1>4. \A i \in 1 .. m + n : h[i] = IF i <= m THEN s[i] ELSE f[i - m]
  BY ConcatProperties
<1> HIDE DEF g, h
<1>5. \A i \in 1 .. m + (n + 1) : l[i] = IF i <= m THEN s[i] ELSE g[i - m]
  <2>1. \A i \in 1 .. m + Len(g) : (s \o g)[i] = IF i <= m THEN s[i] ELSE g[i - m]
    BY <1>2, ConcatProperties
  <2> QED
    BY <1>2, <2>1 DEF g
<1>6. l \in Seq(S) /\ r \in Seq(S) /\ Len(l) = m + (n + 1) /\ Len(r) = (m + n) + 1
  BY <1>2, ConcatProperties DEF g, h
<1>7. r[(m + n) + 1] = x /\ \A i \in 1 .. m + n : r[i] = h[i]
  BY <1>2 DEF h
<1> HIDE DEF l, r, m, n
<1>8. \A i \in 1 .. m + (n + 1) : l[i] = r[i]
  <2> SUFFICES ASSUME NEW i \in 1 .. m + (n + 1) PROVE l[i] = r[i]
    OBVIOUS
  <2>1. CASE i <= m
    BY <1>1, <1>4, <1>5, <1>7, <2>1
  <2>2. CASE i > m /\ i <= m + n
    <3>1. i - m \in 1 .. n /\ i \in 1 .. m + n /\ ~(i <= m)
      BY <1>1, <2>2
    <3> QED
      BY <1>3, <1>4, <1>5, <1>7, <3>1
  <2>3. CASE i = (m + n) + 1
    <3>1. i - m = n + 1 /\ ~(i <= m)
      BY <1>1, <2>3
    <3> QED
      BY <1>3, <1>5, <1>7, <2>3, <3>1
  <2> QED
    BY <1>1, <2>1, <2>2, <2>3
<1>9. l = r
  <2>1. Len(l) = Len(r) /\ \A i \in 1 .. Len(l) : l[i] = r[i]
    BY <1>1, <1>6, <1>8
  <2> QED
    BY <1>6, <2>1, SeqEqual
<1> QED
  BY <1>9 DEF l, r

LEMMA FlattenConcatStep ==
  ASSUME NEW S, NEW s \in Seq(Seq(S)), NEW f \in Seq(Seq(S)), NEW x \in Seq(S),
         FlattenSeq(s \o f) = FlattenSeq(s) \o FlattenSeq(f)
  PROVE  FlattenSeq(s \o Append(f, x)) = FlattenSeq(s) \o FlattenSeq(Append(f, x))
<1> DEFINE a == FlattenSeq(s)
           b == FlattenSeq(f)
<1>1. a \in Seq(S) /\ b \in Seq(S) /\ s \o f \in Seq(Seq(S))
  BY FlattenType, ConcatProperties
<1>2. FlattenSeq(Append(f, x)) = b \o x
  BY FlattenAppend
<1>3. FlattenSeq(Append(s \o f, x)) = (a \o b) \o x
  BY <1>1, FlattenAppend
<1>4. s \o Append(f, x) = Append(s \o f, x)
  BY ConcatAppend
<1> HIDE DEF a, b
<1>5. (a \o b) \o x = a \o (b \o x)
  BY <1>1, ConcatAssociative
<1> QED
  BY <1>2, <1>3, <1>4, <1>5 DEF a

LEMMA FlattenConcat ==
  ASSUME NEW S, NEW s \in Seq(Seq(S)), NEW u \in Seq(Seq(S))
  PROVE  FlattenSeq(s \o u) = FlattenSeq(s) \o FlattenSeq(u)
<1> DEFINE Fails(t) == FlattenSeq(s \o t) # FlattenSeq(s) \o FlattenSeq(t)
           T == {k \in Nat : \E t \in Seq(Seq(S)) : Len(t) = k /\ Fails(t)}
<1>1. ASSUME T # {} PROVE FALSE
  <2>1. PICK k \in T : \A j \in T : k <= j
    <3>1. T \in SUBSET Nat
      OBVIOUS
    <3> HIDE DEF T
    <3> QED
      BY <1>1, <3>1, LeastNatural
  <2>2. PICK t \in Seq(Seq(S)) : Len(t) = k /\ Fails(t)
    BY <2>1
  <2>3. t # <<>>
    <3>1. s \o <<>> = s
      BY ConcatEmptySeq
    <3>2. FlattenSeq(s) \o <<>> = FlattenSeq(s)
      BY FlattenType, ConcatEmptySeq
    <3> QED
      BY <2>2, <3>1, <3>2, FlattenEmpty
  <2> DEFINE f == SubSeq(t, 1, Len(t) - 1)
             x == t[Len(t)]
  <2>4. /\ Len(t) \in Nat \ {0} /\ x \in Seq(S)
        /\ f \in Seq(Seq(S)) /\ Len(f) = k - 1 /\ t = Append(f, x)
    BY <2>2, <2>3, AppendForm
  <2> HIDE DEF f, x
  <2>5. FlattenSeq(s \o f) = FlattenSeq(s) \o FlattenSeq(f)
    <3>1. k - 1 \notin T /\ k - 1 \in Nat
      BY <2>1, <2>2, <2>4
    <3> QED
      BY <2>4, <3>1
  <2> QED
    BY <2>2, <2>4, <2>5, FlattenConcatStep
<1>2. Fails(u) => Len(u) \in T
  OBVIOUS
<1>3. T = {}
  BY <1>1
<1> HIDE DEF T
<1> QED
  BY <1>2, <1>3

LEMMA ConcatSet ==
  ASSUME NEW S, NEW a \in Seq(S), NEW b \in Seq(S)
  PROVE  ToSet(a \o b) = ToSet(a) \cup ToSet(b)
<1> DEFINE m == Len(a)
           n == Len(b)
           c == a \o b
<1>1. m \in Nat /\ n \in Nat /\ DOMAIN a = 1 .. m /\ DOMAIN b = 1 .. n /\ DOMAIN c = 1 .. m + n
      /\ \A i \in 1 .. m + n : c[i] = IF i <= m THEN a[i] ELSE b[i - m]
  BY ConcatProperties
<1> HIDE DEF m, n, c
<1>2. ASSUME NEW i \in 1 .. m + n PROVE c[i] \in ToSet(a) \cup ToSet(b)
  <2>1. CASE i <= m
    BY <1>1, <2>1 DEF ToSet
  <2>2. CASE ~(i <= m)
    <3>1. i - m \in 1 .. n
      BY <1>1, <2>2
    <3> QED
      BY <1>1, <2>2, <3>1 DEF ToSet
  <2> QED
    BY <2>1, <2>2
<1>3. ASSUME NEW i \in 1 .. m PROVE a[i] \in ToSet(c)
  BY <1>1 DEF ToSet
<1>4. ASSUME NEW i \in 1 .. n PROVE b[i] \in ToSet(c)
  <2>1. m + i \in 1 .. m + n /\ ~(m + i <= m) /\ (m + i) - m = i
    BY <1>1
  <2>2. c[m + i] = b[i]
    BY <1>1, <2>1
  <2> QED
    BY <1>1, <2>1, <2>2 DEF ToSet
<1>5. ToSet(c) = ToSet(a) \cup ToSet(b)
  BY <1>1, <1>2, <1>3, <1>4 DEF ToSet
<1> QED
  BY <1>5 DEF c

LEMMA InFlattenedStep ==
  ASSUME NEW S, NEW f \in Seq(Seq(S)), NEW x \in Seq(S), NEW u,
         u \in ToSet(FlattenSeq(f)) <=> \E i \in 1 .. Len(f) : u \in ToSet(f[i])
  PROVE  u \in ToSet(FlattenSeq(Append(f, x))) <=>
           \E i \in 1 .. Len(Append(f, x)) : u \in ToSet(Append(f, x)[i])
<1> DEFINE g == Append(f, x)
           n == Len(f)
<1>1. n \in Nat /\ Len(g) = n + 1 /\ g[n + 1] = x /\ \A i \in 1 .. n : g[i] = f[i]
  OBVIOUS
<1>2. FlattenSeq(f) \in Seq(S)
  BY FlattenType
<1>3. FlattenSeq(g) = FlattenSeq(f) \o x
  BY FlattenAppend
<1>4. ToSet(FlattenSeq(g)) = ToSet(FlattenSeq(f)) \cup ToSet(x)
  BY <1>2, <1>3, ConcatSet
<1> HIDE DEF g, n
<1>5. (\E i \in 1 .. n + 1 : u \in ToSet(g[i])) <=>
        (\E i \in 1 .. n : u \in ToSet(f[i])) \/ u \in ToSet(x)
  <2>1. n \in Nat
    BY <1>1
  <2>2. 1 .. n + 1 = (1 .. n) \cup {n + 1}
    BY <2>1
  <2> QED
    BY <1>1, <2>2, Zenon
<1> QED
  BY <1>1, <1>4, <1>5 DEF g, n

\* what is in a flattened sequence is in one of its parts
LEMMA InFlattened ==
  ASSUME NEW S, NEW s \in Seq(Seq(S)), NEW u
  PROVE  u \in ToSet(FlattenSeq(s)) <=> \E i \in 1 .. Len(s) : u \in ToSet(s[i])
<1> DEFINE Holds(t) == u \in ToSet(FlattenSeq(t)) <=> \E i \in 1 .. Len(t) : u \in ToSet(t[i])
           T == {k \in Nat : \E t \in Seq(Seq(S)) : Len(t) = k /\ ~Holds(t)}
<1>1. ASSUME T # {} PROVE FALSE
  <2>1. PICK k \in T : \A j \in T : k <= j
    <3>1. T \in SUBSET Nat
      OBVIOUS
    <3> HIDE DEF T
    <3> QED
      BY <1>1, <3>1, LeastNatural
  <2>2. PICK t \in Seq(Seq(S)) : Len(t) = k /\ ~Holds(t)
    BY <2>1
  <2>3. t # <<>>
    <3>1. Holds(<<>>)
      BY FlattenEmpty DEF ToSet
    <3> HIDE DEF Holds
    <3> QED
      BY <2>2, <3>1
  <2> DEFINE f == SubSeq(t, 1, Len(t) - 1)
             x == t[Len(t)]
  <2>4. /\ Len(t) \in Nat \ {0} /\ x \in Seq(S)
        /\ f \in Seq(Seq(S)) /\ Len(f) = k - 1 /\ t = Append(f, x)
    BY <2>2, <2>3, AppendForm
  <2> HIDE DEF f, x
  <2>5. Holds(f)
    <3>1. k - 1 \in Nat /\ ~(k <= k - 1)
      BY <2>2, <2>4
    <3> HIDE DEF Holds
    <3>2. k - 1 \notin T
      <4> HIDE DEF T
      <4> QED
        BY <2>1, <3>1
    <3> QED
      BY <2>4, <3>1, <3>2
  <2>6. Holds(Append(f, x))
    BY <2>4, <2>5, InFlattenedStep
  <2> QED
    BY <2>2, <2>4, <2>6
<1>2. ~Holds(s) => Len(s) \in T
  <2> HIDE DEF Holds
  <2> QED
    OBVIOUS
<1>3. T = {}
  BY <1>1
<1> HIDE DEF T
<1> QED
  BY <1>2, <1>3

-----------------------------------------------------------------------------
(* What blocks contain. *)

Datas(blocks) == [i \in DOMAIN blocks |-> blocks[i].data]

LEMMA ContentIsFlat ==
  ASSUME NEW blocks
  PROVE  Content(blocks) = FlattenSeq(Datas(blocks))
BY DEF Content, Datas

LEMMA DatasType ==
  ASSUME NEW b \in Seq(Block)
  PROVE  Datas(b) \in Seq(Seq(Unit)) /\ Len(Datas(b)) = Len(b)
<1>1. DOMAIN b = 1 .. Len(b) /\ Len(b) \in Nat
  OBVIOUS
<1>2. \A i \in 1 .. Len(b) : b[i].data \in Seq(Unit)
  <2>1. \A i \in 1 .. Len(b) : b[i] \in Block
    OBVIOUS
  <2>2. \A x \in Block : x.data \in Seq(Unit)
    BY DEF Block
  <2> QED
    BY <2>1, <2>2
<1>3. Datas(b) \in [1 .. Len(b) -> Seq(Unit)]
  BY <1>1, <1>2 DEF Datas
<1> HIDE DEF Datas
<1> QED
  BY <1>1, <1>3

LEMMA DatasAppend ==
  ASSUME NEW b \in Seq(Block), NEW x \in Block
  PROVE  Datas(Append(b, x)) = Append(Datas(b), x.data)
<1> DEFINE n == Len(b)
           c == Append(b, x)
           d == Datas(b)
           l == Datas(c)
           r == Append(d, x.data)
<1>1. n \in Nat /\ c[n + 1] = x /\ \A i \in 1 .. n : c[i] = b[i]
  OBVIOUS
<1>2. x.data \in Seq(Unit) /\ c \in Seq(Block) /\ Len(c) = n + 1
  BY DEF Block
<1> HIDE DEF c
<1>3. l \in Seq(Seq(Unit)) /\ Len(l) = n + 1 /\ d \in Seq(Seq(Unit)) /\ Len(d) = n
  BY <1>1, <1>2, DatasType
<1>4. \A i \in 1 .. n + 1 : l[i] = c[i].data
  BY <1>1, <1>2 DEF Datas
<1>5. \A i \in 1 .. n : d[i] = b[i].data
  BY DEF Datas
<1> HIDE DEF d, l
<1>6. r \in Seq(Seq(Unit)) /\ Len(r) = n + 1
  BY <1>2, <1>3
<1>7. r[n + 1] = x.data /\ \A i \in 1 .. n : r[i] = d[i]
  BY <1>2, <1>3
<1> HIDE DEF n, r
<1>8. \A i \in 1 .. n + 1 : l[i] = r[i]
  <2>1. \A i \in 1 .. n + 1 : i \in 1 .. n \/ i = n + 1
    BY <1>1
  <2> QED
    BY <1>1, <1>4, <1>5, <1>7, <2>1
<1>9. l = r
  BY <1>3, <1>6, <1>8, SeqEqual
<1> QED
  BY <1>9 DEF l, r, c, d

LEMMA DatasConcat ==
  ASSUME NEW a \in Seq(Block), NEW b \in Seq(Block)
  PROVE  Datas(a \o b) = Datas(a) \o Datas(b)
<1> DEFINE m == Len(a)
           n == Len(b)
           c == a \o b
           d == Datas(a)
           e == Datas(b)
           l == Datas(c)
           r == d \o e
<1>1. m \in Nat /\ n \in Nat
  OBVIOUS
<1>2. \A i \in 1 .. m + n : c[i] = IF i <= m THEN a[i] ELSE b[i - m]
  BY ConcatProperties
<1>3. c \in Seq(Block) /\ Len(c) = m + n
  BY ConcatProperties
<1> HIDE DEF c
<1>4. /\ l \in Seq(Seq(Unit)) /\ Len(l) = m + n
      /\ d \in Seq(Seq(Unit)) /\ Len(d) = m
      /\ e \in Seq(Seq(Unit)) /\ Len(e) = n
  BY <1>3, DatasType
<1>5. \A i \in 1 .. m + n : l[i] = c[i].data
  BY <1>3 DEF Datas
<1>6. /\ \A i \in 1 .. m : d[i] = a[i].data
      /\ \A i \in 1 .. n : e[i] = b[i].data
  BY DEF Datas
<1> HIDE DEF d, e, l
<1>7. r \in Seq(Seq(Unit)) /\ Len(r) = m + n
  <2>1. d \in Seq(Seq(Unit)) /\ e \in Seq(Seq(Unit))
    BY <1>4
  <2>2. d \o e \in Seq(Seq(Unit)) /\ Len(d \o e) = Len(d) + Len(e)
    BY <2>1, ConcatProperties
  <2> QED
    BY <1>4, <2>2
<1>8. \A i \in 1 .. m + n : r[i] = IF i <= m THEN d[i] ELSE e[i - m]
  <2>1. \A i \in 1 .. Len(d) + Len(e) : (d \o e)[i] = IF i <= Len(d) THEN d[i] ELSE e[i - Len(d)]
    BY <1>4, ConcatProperties
  <2> QED
    BY <1>4, <2>1
<1> HIDE DEF m, n, r
<1>9. \A i \in 1 .. m + n : l[i] = r[i]
  <2> SUFFICES ASSUME NEW i \in 1 .. m + n PROVE l[i] = r[i]
    OBVIOUS
  <2>1. CASE i <= m
    <3>1. i \in 1 .. m
      BY <1>1, <2>1
    <3> QED
      BY <1>2, <1>5, <1>6, <1>8, <2>1, <3>1
  <2>2. CASE ~(i <= m)
    <3>1. i - m \in 1 .. n
      BY <1>1, <2>2
    <3> QED
      BY <1>2, <1>5, <1>6, <1>8, <2>2, <3>1
  <2> QED
    BY <2>1, <2>2
<1>10. l = r
  BY <1>4, <1>7, <1>9, SeqEqual
<1> QED
  BY <1>10 DEF l, r, c, d, e

LEMMA ContentType ==
  ASSUME NEW b \in Seq(Block)
  PROVE  Content(b) \in Seq(Unit)
BY DatasType, FlattenType, ContentIsFlat

LEMMA ContentEmpty == Content(<<>>) = <<>>
<1>1. Datas(<<>>) = <<>>
  BY DEF Datas
<1> QED
  BY <1>1, ContentIsFlat, FlattenEmpty

LEMMA ContentAppend ==
  ASSUME NEW b \in Seq(Block), NEW x \in Block
  PROVE  Content(Append(b, x)) = Content(b) \o x.data
<1>1. x.data \in Seq(Unit)
  BY DEF Block
<1> QED
  BY <1>1, DatasType, DatasAppend, FlattenAppend, ContentIsFlat

LEMMA ContentConcat ==
  ASSUME NEW a \in Seq(Block), NEW b \in Seq(Block)
  PROVE  Content(a \o b) = Content(a) \o Content(b)
BY DatasType, DatasConcat, FlattenConcat, ContentIsFlat

LEMMA ContentSet ==
  ASSUME NEW b \in Seq(Block), NEW u
  PROVE  u \in ToSet(Content(b)) <=> \E i \in 1 .. Len(b) : u \in ToSet(b[i].data)
<1>1. Datas(b) \in Seq(Seq(Unit)) /\ Len(Datas(b)) = Len(b)
  BY DatasType
<1>2. \A i \in 1 .. Len(b) : Datas(b)[i] = b[i].data
  BY DEF Datas
<1>3. u \in ToSet(FlattenSeq(Datas(b))) <=> \E i \in 1 .. Len(Datas(b)) : u \in ToSet(Datas(b)[i])
  BY <1>1, InFlattened
<1> QED
  BY <1>1, <1>2, <1>3, ContentIsFlat

-----------------------------------------------------------------------------
(* Parts of sequences, and beginnings. *)

LEMMA Cut ==
  ASSUME NEW S, NEW s \in Seq(S), NEW k \in 0 .. Len(s)
  PROVE  /\ SubSeq(s, 1, k) \in Seq(S) /\ Len(SubSeq(s, 1, k)) = k
         /\ SubSeq(s, k + 1, Len(s)) \in Seq(S) /\ Len(SubSeq(s, k + 1, Len(s))) = Len(s) - k
         /\ \A i \in 1 .. k : SubSeq(s, 1, k)[i] = s[i]
         /\ \A i \in 1 .. Len(s) - k : SubSeq(s, k + 1, Len(s))[i] = s[k + i]
         /\ s = SubSeq(s, 1, k) \o SubSeq(s, k + 1, Len(s))
<1>1. s = SubSeq(s, 1, k) \o SubSeq(s, k + 1, Len(s))
  <2>1. 1 \in 1 .. Len(s) + 1 /\ k \in 1 - 1 .. Len(s) /\ Len(s) \in k .. Len(s)
    OBVIOUS
  <2>2. SubSeq(s, 1, k) \o SubSeq(s, k + 1, Len(s)) = SubSeq(s, 1, Len(s))
    BY <2>1, ConcatAdjacentSubSeq
  <2>3. SubSeq(s, 1, Len(s)) = s
    BY SubSeqFull
  <2> QED
    BY <2>2, <2>3, Zenon
<1> DEFINE n == Len(s)
           a == SubSeq(s, 1, k)
           b == SubSeq(s, k + 1, n)
<1>2. n \in Nat /\ \A i \in 1 .. n : s[i] \in S
  OBVIOUS
<1> HIDE DEF n
<1>3. k \in 0 .. n
  BY DEF n
<1>4. /\ a \in Seq(S) /\ Len(a) = IF 1 <= k THEN k - 1 + 1 ELSE 0
      /\ \A i \in 1 .. k - 1 + 1 : a[i] = s[1 + i - 1]
  <2>1. k \in Int /\ 1 \in Int /\ \A i \in 1 .. k : s[i] \in S
    BY <1>2, <1>3
  <2> QED
    BY <2>1, SubSeqProperties
<1>5. /\ b \in Seq(S) /\ Len(b) = IF k + 1 <= n THEN n - (k + 1) + 1 ELSE 0
      /\ \A i \in 1 .. n - (k + 1) + 1 : b[i] = s[(k + 1) + i - 1]
  <2>1. k + 1 \in Int /\ n \in Int /\ \A i \in k + 1 .. n : s[i] \in S
    BY <1>2, <1>3
  <2> QED
    BY <2>1, SubSeqProperties
<1>6. Len(a) = k /\ \A i \in 1 .. k : a[i] = s[i]
  <2> HIDE DEF a
  <2>1. k - 1 + 1 = k /\ \A i \in 1 .. k : 1 + i - 1 = i
    BY <1>3
  <2> QED
    BY <1>3, <1>4, <2>1
<1>7. Len(b) = n - k /\ \A i \in 1 .. n - k : b[i] = s[k + i]
  <2> HIDE DEF b
  <2>1. n - (k + 1) + 1 = n - k /\ \A i \in 1 .. n - k : (k + 1) + i - 1 = k + i
    BY <1>2, <1>3
  <2> QED
    BY <1>2, <1>3, <1>5, <2>1
<1>8. a \in Seq(S) /\ b \in Seq(S)
  BY <1>4, <1>5
<1>9. s = a \o b
  BY <1>1 DEF n
<1> HIDE DEF a, b
<1>10. /\ a \in Seq(S) /\ Len(a) = k
       /\ b \in Seq(S) /\ Len(b) = n - k
       /\ \A i \in 1 .. k : a[i] = s[i]
       /\ \A i \in 1 .. n - k : b[i] = s[k + i]
       /\ s = a \o b
  BY <1>6, <1>7, <1>8, <1>9
<1> QED
  BY <1>10, Zenon DEF n, a, b

LEMMA ConcatStarts ==
  ASSUME NEW S, NEW a \in Seq(S), NEW c \in Seq(S)
  PROVE  /\ SubSeq(a \o c, 1, Len(a)) = a
         /\ IsPrefix(a, a \o c)
<1> DEFINE n == Len(a)
           b == a \o c
           d == SubSeq(b, 1, n)
<1>1. n \in Nat /\ Len(c) \in Nat
  OBVIOUS
<1>2. b \in Seq(S) /\ Len(b) = n + Len(c)
  BY ConcatProperties
<1>3. \A i \in 1 .. n : b[i] = a[i]
  <2>1. \A i \in 1 .. n + Len(c) : b[i] = IF i <= n THEN a[i] ELSE c[i - n]
    BY ConcatProperties
  <2> HIDE DEF b, n
  <2>2. \A i \in 1 .. n : i \in 1 .. n + Len(c) /\ i <= n
    BY <1>1
  <2> QED
    BY <2>1, <2>2
<1> HIDE DEF b
<1>4. d \in Seq(S) /\ Len(d) = n /\ \A i \in 1 .. n : d[i] = b[i]
  <2>1. n \in 0 .. Len(b)
    BY <1>1, <1>2
  <2> QED
    BY <1>2, <2>1, Cut
<1> HIDE DEF d
<1>5. d = a
  BY <1>3, <1>4, SeqEqual
<1>6. SubSeq(a, 1, n) = a
  BY SubSeqFull
<1>7. n <= Len(b)
  BY <1>1, <1>2
<1> QED
  BY <1>5, <1>6, <1>7 DEF IsPrefix, b, d

LEMMA PrefixGoesOn ==
  ASSUME NEW S, NEW a \in Seq(S), NEW b \in Seq(S), IsPrefix(a, b)
  PROVE  \E c \in Seq(S) : b = a \o c
<1>1. Len(a) <= Len(b) /\ SubSeq(a, 1, Len(a)) = SubSeq(b, 1, Len(a))
  BY DEF IsPrefix
<1>2. SubSeq(a, 1, Len(a)) = a
  BY SubSeqFull
<1> DEFINE k == Len(a)
           c == SubSeq(b, k + 1, Len(b))
<1>3. k \in 0 .. Len(b)
  BY <1>1
<1>4. c \in Seq(S) /\ b = SubSeq(b, 1, k) \o c
  BY <1>3, Cut
<1> QED
  BY <1>1, <1>2, <1>4

LEMMA PrefixExtends ==
  ASSUME NEW S, NEW a \in Seq(S), NEW b \in Seq(S), NEW d \in Seq(S), IsPrefix(a, b)
  PROVE  IsPrefix(a, b \o d)
<1>1. PICK c \in Seq(S) : b = a \o c
  BY PrefixGoesOn
<1>2. (a \o c) \o d = a \o (c \o d)
  BY ConcatAssociative
<1>3. c \o d \in Seq(S)
  BY ConcatProperties
<1> QED
  BY <1>1, <1>2, <1>3, ConcatStarts

LEMMA PrefixTransitive ==
  ASSUME NEW S, NEW a \in Seq(S), NEW b \in Seq(S), NEW c \in Seq(S),
         IsPrefix(a, b), IsPrefix(b, c)
  PROVE  IsPrefix(a, c)
<1>1. PICK d \in Seq(S) : c = b \o d
  BY PrefixGoesOn
<1> QED
  BY <1>1, PrefixExtends

\* after the same beginning
LEMMA PrefixAfter ==
  ASSUME NEW S, NEW a \in Seq(S), NEW b \in Seq(S), NEW c \in Seq(S), IsPrefix(b, c)
  PROVE  IsPrefix(a \o b, a \o c)
<1>1. PICK d \in Seq(S) : c = b \o d
  BY PrefixGoesOn
<1>2. (a \o b) \o d = a \o (b \o d)
  BY ConcatAssociative
<1>3. a \o b \in Seq(S)
  BY ConcatProperties
<1> QED
  BY <1>1, <1>2, <1>3, ConcatStarts

LEMMA PrefixReflexive ==
  ASSUME NEW S, NEW a \in Seq(S)
  PROVE  IsPrefix(a, a)
BY DEF IsPrefix

-----------------------------------------------------------------------------
(* Writes to the file. *)

LEMMA NewBlockType == NewBlock \in Block /\ NewBlock.first = 0 /\ NewBlock.data = <<>>
BY SizesAssumption DEF NewBlock, Block

WrittenLen(m, at, n) == IF m >= at + n THEN m ELSE at + n - 1

\* the block at i after the write of n blocks b to the m blocks of f
BlockAt(i, f, m, at, b, n) ==
  IF i \in at .. at + n - 1 THEN b[i - at + 1]
  ELSE IF i \in 1 .. m THEN f[i] ELSE NewBlock

IsWritten(w, f, m, at, b, n) ==
  /\ w \in Seq(Block) /\ Len(w) = WrittenLen(m, at, n) /\ WrittenLen(m, at, n) \in Nat
  /\ \A i \in 1 .. WrittenLen(m, at, n) : w[i] = BlockAt(i, f, m, at, b, n)

LEMMA WrittenShape ==
  ASSUME NEW f \in Seq(Block), NEW at \in Nat \ {0}, NEW b \in Seq(Block)
  PROVE  IsWritten(Written(f, at, b), f, Len(f), at, b, Len(b))
<1> DEFINE m == Len(f)
           n == Len(b)
           k == WrittenLen(m, at, n)
           w == Written(f, at, b)
           e(i) == BlockAt(i, f, m, at, b, n)
<1>1. m \in Nat /\ n \in Nat /\ (\A i \in 1 .. m : f[i] \in Block) /\ \A i \in 1 .. n : b[i] \in Block
  OBVIOUS
<1>2. w = [i \in 1 .. k |-> e(i)]
  <2>1. DOMAIN f = 1 .. m
    OBVIOUS
  <2> QED
    BY <2>1 DEF Written, WrittenLen, BlockAt
<1> HIDE DEF m, n
<1>3. k \in Nat
  BY <1>1 DEF WrittenLen
<1> HIDE DEF k
<1>4. ASSUME NEW i \in 1 .. k PROVE e(i) \in Block
  <2>1. CASE i \in at .. at + n - 1
    <3>1. i - at + 1 \in 1 .. n
      BY <1>1, <2>1
    <3> QED
      BY <1>1, <2>1, <3>1 DEF BlockAt
  <2>2. CASE i \notin at .. at + n - 1
    BY <1>1, <2>2, NewBlockType DEF BlockAt
  <2> QED
    BY <2>1, <2>2
<1> HIDE DEF e
<1>5. w \in [1 .. k -> Block]
  BY <1>2, <1>4
<1>6. \A i \in 1 .. k : w[i] = e(i)
  BY <1>2
<1> HIDE DEF w
<1>7. w \in Seq(Block) /\ Len(w) = k
  BY <1>3, <1>5
<1> QED
  BY <1>3, <1>6, <1>7 DEF m, n, k, w, e, IsWritten

\* a write that leaves no gap, up to the end of what was written
LEMMA WrittenFront ==
  ASSUME NEW f \in Seq(Block), NEW at \in Nat \ {0}, NEW b \in Seq(Block), at <= Len(f) + 1
  PROVE  SubSeq(Written(f, at, b), 1, at + Len(b) - 1) = SubSeq(f, 1, at - 1) \o b
<1> DEFINE m == Len(f)
           n == Len(b)
           k == WrittenLen(m, at, n)
           w == Written(f, at, b)
           z == at + n - 1
           a == SubSeq(f, 1, at - 1)
           l == SubSeq(w, 1, z)
           r == a \o b
<1>1. m \in Nat /\ n \in Nat /\ at <= m + 1 /\ at \in Nat /\ at > 0
  OBVIOUS
<1>2. /\ w \in Seq(Block) /\ Len(w) = k
      /\ \A i \in 1 .. k : w[i] = IF i \in at .. at + n - 1 THEN b[i - at + 1]
                                  ELSE IF i \in 1 .. m THEN f[i] ELSE NewBlock
  <2>1. IsWritten(w, f, m, at, b, n)
    BY WrittenShape
  <2> HIDE DEF w, m, n
  <2> QED
    BY <2>1 DEF IsWritten, BlockAt
<1>3. a \in Seq(Block) /\ Len(a) = at - 1 /\ \A i \in 1 .. at - 1 : a[i] = f[i]
  <2>1. at - 1 \in 0 .. Len(f)
    BY <1>1
  <2> QED
    BY <2>1, Cut
<1> HIDE DEF w, a
<1>4. /\ r \in Seq(Block) /\ Len(r) = Len(a) + n
      /\ \A i \in 1 .. Len(a) + n : r[i] = IF i <= Len(a) THEN a[i] ELSE b[i - Len(a)]
  BY <1>3, ConcatProperties
<1> HIDE DEF m, n
<1>5. k \in Nat /\ z \in 0 .. k /\ Len(a) = at - 1
  BY <1>1, <1>3 DEF WrittenLen
<1> HIDE DEF k
<1>6. l \in Seq(Block) /\ Len(l) = z /\ \A i \in 1 .. z : l[i] = w[i]
  <2>1. z \in 0 .. Len(w)
    BY <1>2, <1>5
  <2> HIDE DEF z
  <2> QED
    BY <1>2, <2>1, Cut
<1> HIDE DEF l, r
<1>7. ASSUME NEW i \in 1 .. z PROVE l[i] = r[i]
  <2>1. i \in 1 .. k /\ i \in 1 .. Len(a) + n
    BY <1>1, <1>5
  <2>2. CASE i <= at - 1
    <3>1. i \notin at .. at + n - 1 /\ i \in 1 .. m /\ i <= Len(a) /\ i \in 1 .. at - 1
      BY <1>1, <1>5, <2>2
    <3> QED
      BY <1>2, <1>3, <1>4, <1>6, <2>1, <3>1
  <2>3. CASE ~(i <= at - 1)
    <3>1. i \in at .. at + n - 1 /\ ~(i <= Len(a)) /\ i - at + 1 = i - Len(a)
      BY <1>1, <1>5, <2>3
    <3> QED
      BY <1>2, <1>4, <1>6, <2>1, <3>1
  <2> QED
    BY <2>2, <2>3
<1>8. Len(r) = z
  BY <1>1, <1>4, <1>5
<1>9. l = r
  BY <1>4, <1>6, <1>7, <1>8, SeqEqual
<1> QED
  BY <1>9 DEF l, r, w, a, n

LEMMA WrittenNothing ==
  ASSUME NEW f \in Seq(Block), NEW at \in Nat \ {0}, at <= Len(f) + 1
  PROVE  Written(f, at, <<>>) = f
<1> DEFINE m == Len(f)
           e == <<>>
           w == Written(f, at, e)
           k == WrittenLen(m, at, 0)
<1>1. m \in Nat /\ e \in Seq(Block) /\ Len(e) = 0 /\ at <= m + 1
  OBVIOUS
<1> HIDE DEF e
<1>2. IsWritten(w, f, m, at, e, 0)
  BY <1>1, WrittenShape
<1> HIDE DEF w, m
<1>3. k = m
  BY <1>1 DEF WrittenLen
<1>4. /\ w \in Seq(Block) /\ Len(w) = k
      /\ \A i \in 1 .. k : w[i] = BlockAt(i, f, m, at, e, 0)
  BY <1>2 DEF IsWritten
<1> HIDE DEF k
<1>5. ASSUME NEW i \in 1 .. m PROVE w[i] = f[i]
  <2>1. w[i] = BlockAt(i, f, m, at, e, 0)
    BY <1>3, <1>4
  <2>2. i \notin at .. at + 0 - 1
    OBVIOUS
  <2> QED
    BY <2>1, <2>2 DEF BlockAt
<1>6. w = f
  BY <1>4, <1>3, <1>5, SeqEqual DEF m
<1> QED
  BY <1>6 DEF w, e

\* two writes, one after the other, are one
LEMMA WrittenTwice ==
  ASSUME NEW f \in Seq(Block), NEW at \in Nat \ {0}, NEW b \in Seq(Block), NEW j \in 0 .. Len(b)
  PROVE  Written(Written(f, at, SubSeq(b, 1, j)), at + j, SubSeq(b, j + 1, Len(b))) = Written(f, at, b)
<1> DEFINE m == Len(f)
           n == Len(b)
           p == SubSeq(b, 1, j)
           q == SubSeq(b, j + 1, n)
           g == Written(f, at, p)
           l == Written(g, at + j, q)
           r == Written(f, at, b)
           k == WrittenLen(m, at, n)
           h == WrittenLen(m, at, j)
<1>1. m \in Nat /\ n \in Nat /\ j \in 0 .. n /\ at \in Nat /\ at > 0
  OBVIOUS
<1>2. /\ p \in Seq(Block) /\ Len(p) = j /\ \A i \in 1 .. j : p[i] = b[i]
      /\ q \in Seq(Block) /\ Len(q) = n - j /\ \A i \in 1 .. n - j : q[i] = b[j + i]
  BY Cut
<1> HIDE DEF p, q
<1>3. /\ g \in Seq(Block) /\ Len(g) = h /\ h \in Nat
      /\ \A i \in 1 .. h : g[i] = IF i \in at .. at + j - 1 THEN p[i - at + 1]
                                  ELSE IF i \in 1 .. m THEN f[i] ELSE NewBlock
  <2>1. IsWritten(g, f, m, at, p, j)
    BY <1>2, WrittenShape
  <2> HIDE DEF g, m
  <2> QED
    BY <2>1 DEF IsWritten, BlockAt
<1> HIDE DEF g
<1>4. /\ l \in Seq(Block) /\ Len(l) = WrittenLen(h, at + j, n - j)
      /\ \A i \in 1 .. WrittenLen(h, at + j, n - j) :
           l[i] = IF i \in at + j .. (at + j) + (n - j) - 1 THEN q[i - (at + j) + 1]
                  ELSE IF i \in 1 .. h THEN g[i] ELSE NewBlock
  <2> DEFINE z == at + j
             y == n - j
  <2>1. z \in Nat \ {0}
    BY <1>1
  <2> HIDE DEF z, h
  <2>2. IsWritten(Written(g, z, q), g, h, z, q, y)
    BY <1>2, <1>3, <2>1, WrittenShape
  <2>3. l = Written(g, z, q)
    BY DEF z
  <2> HIDE DEF l, y
  <2>4. /\ l \in Seq(Block) /\ Len(l) = WrittenLen(h, z, y)
        /\ \A i \in 1 .. WrittenLen(h, z, y) :
           l[i] = IF i \in z .. z + y - 1 THEN q[i - z + 1]
                  ELSE IF i \in 1 .. h THEN g[i] ELSE NewBlock
    BY <2>2, <2>3 DEF IsWritten, BlockAt
  <2> QED
    BY <2>4 DEF z, y
<1>5. /\ r \in Seq(Block) /\ Len(r) = k
      /\ \A i \in 1 .. k : r[i] = IF i \in at .. at + n - 1 THEN b[i - at + 1]
                                  ELSE IF i \in 1 .. m THEN f[i] ELSE NewBlock
  <2>1. IsWritten(r, f, m, at, b, n)
    BY WrittenShape
  <2> HIDE DEF r, m, n
  <2> QED
    BY <2>1 DEF IsWritten, BlockAt
<1> HIDE DEF l, r, m, n
<1>6. WrittenLen(h, at + j, n - j) = k
  BY <1>1 DEF WrittenLen
<1>7. ASSUME NEW i \in 1 .. k PROVE l[i] = r[i]
  <2>1. k \in Nat /\ i \in Nat /\ (at + j) + (n - j) - 1 = at + n - 1
    BY <1>1 DEF WrittenLen
  <2>2. CASE i \in at + j .. at + n - 1
    <3>1. i \in at .. at + n - 1 /\ i - (at + j) + 1 \in 1 .. n - j
          /\ j + (i - (at + j) + 1) = i - at + 1
      BY <1>1, <2>1, <2>2
    <3>2. l[i] = q[i - (at + j) + 1]
      BY <1>4, <1>6, <2>1, <2>2
    <3>3. r[i] = b[i - at + 1]
      BY <1>5, <3>1
    <3>4. q[i - (at + j) + 1] = b[j + (i - (at + j) + 1)]
      BY <1>2, <3>1
    <3> QED
      BY <3>1, <3>2, <3>3, <3>4
  <2>3. CASE i \in at .. at + j - 1
    <3>1. i \notin at + j .. at + n - 1 /\ i \in at .. at + n - 1 /\ i \in 1 .. h /\ i - at + 1 \in 1 .. j
      BY <1>1, <2>1, <2>3 DEF WrittenLen
    <3>2. l[i] = g[i]
      BY <1>4, <1>6, <2>1, <3>1
    <3>3. g[i] = p[i - at + 1]
      BY <1>3, <2>3, <3>1
    <3>4. p[i - at + 1] = b[i - at + 1]
      BY <1>2, <3>1
    <3> QED
      BY <1>5, <3>1, <3>2, <3>3, <3>4
  <2>4. CASE i \notin at .. at + n - 1
    <3>1. i \notin at + j .. at + n - 1 /\ i \notin at .. at + j - 1
      BY <1>1, <2>1, <2>4
    <3>2. r[i] = IF i \in 1 .. m THEN f[i] ELSE NewBlock
      BY <1>5, <2>4
    <3>3. l[i] = IF i \in 1 .. h THEN g[i] ELSE NewBlock
      BY <1>4, <1>6, <2>1, <3>1
    <3>4. i \in 1 .. h => g[i] = IF i \in 1 .. m THEN f[i] ELSE NewBlock
      BY <1>3, <3>1
    <3>5. i \in 1 .. m => i \in 1 .. h
      BY <1>1 DEF WrittenLen
    <3> QED
      BY <3>2, <3>3, <3>4, <3>5
  <2> QED
    BY <1>1, <2>1, <2>2, <2>3, <2>4
<1>8. l = r
  BY <1>4, <1>5, <1>6, <1>7, SeqEqual
<1> QED
  BY <1>8 DEF l, r, g, p, q, n

-----------------------------------------------------------------------------
(* The blocks of the log buffer.  The record k of run r has the units that   *)
(* are its alone.                                                            *)

UnitsIn(k, n, record) == [i \in 1 .. record.len |-> <<k, n, i>>]
AppendedIn(k, records) == FlattenSeq([n \in DOMAIN records |-> UnitsIn(k, n, records[n])])

LEMMA RecordType ==
  ASSUME NEW record \in Record
  PROVE  record.len \in Lengths /\ record.len \in 1 .. DataSize * Blocks
         /\ DataSize * Blocks \in Nat /\ DataSize \in Nat \ {0} /\ Blocks \in Nat \ {0}
<1>1. DataSize \in Nat \ {0} /\ Blocks \in Nat \ {0}
  BY SizesAssumption
<1>2. record.len \in Lengths
  BY DEF Record
<1>3. record.len \in 1 .. DataSize * Blocks
  BY <1>2, SizesAssumption
<1>4. \A a, b \in Nat : a * b \in Nat
  OBVIOUS
<1>5. DataSize * Blocks \in Nat
  BY <1>1, <1>4
<1> QED
  BY <1>1, <1>2, <1>3, <1>5

LEMMA UnitsType ==
  ASSUME NEW k \in 1 .. MaxRuns, NEW n \in 1 .. MaxRecords, NEW record \in Record
  PROVE  /\ UnitsIn(k, n, record) \in Seq(Unit) /\ Len(UnitsIn(k, n, record)) = record.len
         /\ \A i \in 1 .. record.len : UnitsIn(k, n, record)[i] = <<k, n, i>>
<1> DEFINE L == record.len
           u == UnitsIn(k, n, record)
<1>1. L \in Nat /\ 1 .. L \subseteq 1 .. DataSize * Blocks
  BY RecordType
<1>2. u = [i \in 1 .. L |-> <<k, n, i>>]
  BY DEF UnitsIn
<1> HIDE DEF L, u
<1>3. \A i \in 1 .. L : <<k, n, i>> \in Unit
  BY <1>1 DEF Unit
<1>4. u \in [1 .. L -> Unit]
  BY <1>2, <1>3
<1>5. u \in Seq(Unit) /\ Len(u) = L
  BY <1>1, <1>4
<1>6. \A i \in 1 .. L : u[i] = <<k, n, i>>
  BY <1>2
<1> QED
  BY <1>5, <1>6 DEF L, u

\* where a record starts, as first_record_offset tells it
PointsInto(block, lg) ==
  /\ Starts(block) = {} => block.first = Len(block.data)
  /\ \A p \in Starts(block) :
       (\A q \in Starts(block) : p <= q) => \/ block.first = p - 1
                                            \/ lg[block.data[p][2]].len > DataSize

BlockOk(block, lg) ==
  /\ block \in Block /\ Len(block.data) \in 1 .. DataSize
  /\ \A p \in 1 .. Len(block.data) : block.data[p] \in Unit /\ block.data[p][2] \in 1 .. Len(lg)
  /\ PointsInto(block, lg)

LEMMA BlockGrows ==
  ASSUME NEW lg \in Seq(Record), NEW record \in Record, NEW block, BlockOk(block, lg)
  PROVE  BlockOk(block, Append(lg, record))
<1> DEFINE l == Append(lg, record)
           m == Len(lg)
<1>1. m \in Nat /\ Len(l) = m + 1 /\ \A i \in 1 .. m : l[i] = lg[i]
  OBVIOUS
<1> HIDE DEF l
<1>2. \A p \in 1 .. Len(block.data) : block.data[p][2] \in 1 .. m
  BY DEF BlockOk
<1>3. \A p \in Starts(block) : p \in 1 .. Len(block.data)
  <2>1. block.data \in Seq(Unit)
    BY DEF BlockOk, Block
  <2> QED
    BY <2>1 DEF Starts
<1>4. \A p \in Starts(block) : l[block.data[p][2]] = lg[block.data[p][2]]
  BY <1>1, <1>2, <1>3
<1>5. \A p \in 1 .. Len(block.data) : block.data[p][2] \in 1 .. Len(l)
  BY <1>1, <1>2
<1>6. PointsInto(block, l)
  BY <1>4 DEF BlockOk, PointsInto
<1> QED
  BY <1>5, <1>6 DEF BlockOk, l

\* A block that takes part of the last record: it is new, or it has room and
\* the record starts in it.
Filled(block, units, o, n) ==
  [first |-> FirstRecordOffset(block, Len(units) - o, o),
   data  |-> block.data \o SubSeq(units, o + 1, o + n)]

\* how much of what is left of the record a block with m units takes
Taken(left, m) == IF left <= DataSize - m THEN left ELSE DataSize - m

LEMMA FilledData ==
  ASSUME NEW S, NEW d \in Seq(S), NEW units \in Seq(S),
         NEW o \in Nat, NEW n \in Nat, o + n <= Len(units)
  PROVE  /\ SubSeq(units, o + 1, o + n) \in Seq(S) /\ Len(SubSeq(units, o + 1, o + n)) = n
         /\ d \o SubSeq(units, o + 1, o + n) \in Seq(S)
         /\ Len(d \o SubSeq(units, o + 1, o + n)) = Len(d) + n
         /\ \A p \in 1 .. Len(d) + n :
              (d \o SubSeq(units, o + 1, o + n))[p] = IF p <= Len(d) THEN d[p] ELSE units[o + (p - Len(d))]
<1> DEFINE c == SubSeq(units, o + 1, o + n)
           L == Len(units)
           m == Len(d)
           e == d \o c
<1>1. L \in Nat /\ m \in Nat /\ o + n <= L /\ \A i \in 1 .. L : units[i] \in S
  OBVIOUS
<1> HIDE DEF L, m
<1>2. /\ c \in Seq(S) /\ Len(c) = IF o + 1 <= o + n THEN o + n - (o + 1) + 1 ELSE 0
      /\ \A i \in 1 .. o + n - (o + 1) + 1 : c[i] = units[(o + 1) + i - 1]
  <2>1. o + 1 \in Int /\ o + n \in Int /\ \A i \in o + 1 .. o + n : units[i] \in S
    BY <1>1
  <2> QED
    BY <2>1, SubSeqProperties
<1> HIDE DEF c
<1>3. Len(c) = n /\ \A i \in 1 .. n : c[i] = units[o + i]
  <2>1. o + n - (o + 1) + 1 = n /\ \A i \in 1 .. n : (o + 1) + i - 1 = o + i
    OBVIOUS
  <2> QED
    BY <1>2, <2>1
<1>4. /\ e \in Seq(S) /\ Len(e) = m + n
      /\ \A p \in 1 .. m + n : e[p] = IF p <= m THEN d[p] ELSE c[p - m]
  BY <1>2, <1>3, ConcatProperties DEF m
<1> HIDE DEF e
<1>5. ASSUME NEW p \in 1 .. m + n PROVE e[p] = IF p <= m THEN d[p] ELSE units[o + (p - m)]
  <2>1. CASE p <= m
    BY <1>4, <2>1
  <2>2. CASE ~(p <= m)
    <3>1. p - m \in 1 .. n
      BY <1>1, <2>2
    <3> QED
      BY <1>3, <1>4, <2>2, <3>1
  <2> QED
    BY <2>1, <2>2
<1>6. c \in Seq(S) /\ Len(c) = n /\ e \in Seq(S) /\ Len(e) = m + n
  BY <1>2, <1>3, <1>4
<1> QED
  BY <1>5, <1>6, Zenon DEF c, e, m

Filling(lg, k, record, units, o, block, m, n) ==
  /\ lg \in Seq(Record) /\ Len(lg) \in 1 .. MaxRecords /\ k \in 1 .. MaxRuns
  /\ record = lg[Len(lg)] /\ units = UnitsIn(k, Len(lg), record)
  /\ o \in Nat /\ o < Len(units)
  /\ block \in Block /\ m = Len(block.data) /\ m < DataSize
  /\ m # 0 => o = 0 /\ BlockOk(block, lg)
  /\ n = Taken(Len(units) - o, m)

LEMMA FilledOk ==
  ASSUME NEW lg, NEW k, NEW record, NEW units, NEW o, NEW block, NEW m, NEW n,
         Filling(lg, k, record, units, o, block, m, n)
  PROVE  /\ n \in Nat \ {0} /\ o + n <= Len(units) /\ m + n <= DataSize
         /\ o + n = Len(units) \/ m + n = DataSize
         /\ Len(Filled(block, units, o, n).data) = m + n
         /\ BlockOk(Filled(block, units, o, n), lg)
<1> DEFINE r == Len(lg)
           L == Len(units)
           d == block.data
           c == Filled(block, units, o, n)
           e == c.data
<1>1. o \in Nat /\ o < L /\ m < DataSize /\ n = Taken(L - o, m)
  BY DEF Filling
<1>2. r \in 1 .. MaxRecords /\ record \in Record
  BY DEF Filling
<1>3. /\ units \in Seq(Unit) /\ L = record.len
      /\ \A i \in 1 .. L : units[i] = <<k, r, i>>
  <2>1. k \in 1 .. MaxRuns /\ units = UnitsIn(k, r, record)
    BY DEF Filling
  <2> HIDE DEF r
  <2> QED
    BY <1>2, <2>1, UnitsType
<1>4. DataSize \in Nat \ {0} /\ L \in Nat
  BY <1>2, <1>3, RecordType
<1>5. d \in Seq(Unit) /\ block.first \in 0 .. DataSize /\ m \in Nat /\ DOMAIN d = 1 .. m
  BY DEF Filling, Block
<1>6. m = Len(block.data)
  BY DEF Filling
<1>7. /\ n \in Nat \ {0} /\ o + n <= L /\ m + n <= DataSize
      /\ o + n = L \/ m + n = DataSize
  <2> HIDE DEF L, d
  <2> QED
    BY <1>1, <1>4, <1>5 DEF Taken
<1>8. /\ e \in Seq(Unit) /\ Len(e) = m + n
      /\ \A p \in 1 .. m + n : e[p] = IF p <= m THEN d[p] ELSE units[o + (p - m)]
  <2>1. e = d \o SubSeq(units, o + 1, o + n)
    BY DEF Filled
  <2> HIDE DEF d, e
  <2>2. m = Len(d)
    BY DEF d, Filling
  <2>3. o \in Nat /\ n \in Nat /\ o + n <= Len(units) /\ d \in Seq(Unit) /\ units \in Seq(Unit)
    BY <1>1, <1>3, <1>5, <1>7
  <2> QED
    BY <2>1, <2>2, <2>3, FilledData
<1>9. c.first = FirstRecordOffset(block, L - o, o)
  BY DEF Filled
<1>10. c.first \in 0 .. DataSize
  BY <1>1, <1>4, <1>5, <1>9 DEF FirstRecordOffset
<1>11. c \in Block
  <2>1. c = [first |-> c.first, data |-> e]
    BY DEF Filled
  <2> HIDE DEF c, e
  <2> QED
    BY <1>8, <1>10, <2>1 DEF Block
<1>12. d = <<>> <=> m = 0
  BY <1>5, EmptySeq
<1> HIDE DEF c, L, d
<1>13. \A p \in 1 .. m + n : ~(p <= m) => o + (p - m) \in 1 .. L /\ e[p] = <<k, r, o + (p - m)>>
  <2> HIDE DEF e, r
  <2>1. \A p \in 1 .. m + n : ~(p <= m) => o + (p - m) \in 1 .. L
    BY <1>1, <1>4, <1>5, <1>7
  <2> QED
    BY <1>3, <1>8, <2>1
<1>14. \A p \in 1 .. m + n : p <= m => e[p] = d[p] /\ p \in 1 .. m
  <2> HIDE DEF e
  <2> QED
    BY <1>5, <1>8
<1> HIDE DEF e, r
<1>15. \A p \in 1 .. m + n : e[p] \in Unit /\ e[p][2] \in 1 .. r
  <2>1. ASSUME NEW p \in 1 .. m + n PROVE e[p] \in Unit /\ e[p][2] \in 1 .. r
    <3>1. e[p] \in Unit
      BY <1>8, <2>1
    <3>2. CASE p <= m
      <4>1. m # 0 /\ e[p] = d[p] /\ p \in 1 .. m
        BY <1>5, <1>14, <2>1, <3>2
      <4>2. BlockOk(block, lg)
        BY <4>1 DEF Filling
      <4>3. d[p][2] \in 1 .. r
        BY <1>6, <4>1, <4>2 DEF BlockOk, d, r
      <4> QED
        BY <3>1, <4>1, <4>3
    <3>3. CASE ~(p <= m)
      <4>1. e[p] = <<k, r, o + (p - m)>>
        BY <1>13, <2>1, <3>3
      <4>2. e[p][2] = r
        BY <4>1
      <4>3. r \in 1 .. r
        BY <1>2
      <4> QED
        BY <3>1, <4>2, <4>3
    <3> QED
      BY <3>2, <3>3
  <2> QED
    BY <2>1
<1>16. \A p : p \in Starts(c) <=> p \in 1 .. m + n /\ (IF p <= m THEN p \in Starts(block) ELSE o = 0 /\ p = m + 1)
  <2>1. ASSUME NEW p \in 1 .. m + n
        PROVE  e[p][3] = 1 <=> IF p <= m THEN p \in Starts(block) ELSE o = 0 /\ p = m + 1
    <3>1. CASE p <= m
      <4>1. e[p] = d[p] /\ p \in DOMAIN d
        BY <1>5, <1>14, <3>1
      <4> QED
        BY <3>1, <4>1 DEF Starts, d
    <3>2. CASE ~(p <= m)
      <4>1. e[p] = <<k, r, o + (p - m)>>
        BY <1>13, <3>2
      <4>2. e[p][3] = o + (p - m)
        BY <4>1
      <4>3. o + (p - m) = 1 <=> o = 0 /\ p = m + 1
        BY <1>1, <1>5, <1>7, <3>2
      <4> QED
        BY <3>2, <4>2, <4>3
    <3> QED
      BY <3>1, <3>2
  <2>2. DOMAIN e = 1 .. m + n
    BY <1>8
  <2>3. \A p : p \in Starts(c) <=> p \in 1 .. m + n /\ e[p][3] = 1
    BY <2>2 DEF Starts, e
  <2> QED
    BY <2>1, <2>3
<1>17. PointsInto(c, lg)
  <2>1. CASE m = 0
    <3>1. c.first = IF L - o <= DataSize THEN (IF o = 0 THEN 0 ELSE L - o) ELSE DataSize
      BY <1>9, <1>12, <2>1 DEF FirstRecordOffset, d
    <3>2. CASE o = 0
      <4>1. \A p : p \in Starts(c) <=> p = 1
        BY <1>7, <1>16, <2>1, <3>2
      <4>2. e[1] = <<k, r, 1>>
        BY <1>7, <1>13, <2>1, <3>2
      <4>3. e[1][2] = r
        BY <4>2
      <4>4. lg[e[1][2]].len = L
        BY <1>3, <4>3 DEF r, Filling
      <4>5. c.first = 1 - 1 \/ lg[e[1][2]].len > DataSize
        BY <1>4, <3>1, <3>2, <4>4
      <4> QED
        BY <4>1, <4>5 DEF PointsInto, e
    <3>3. CASE o # 0
      <4>1. Starts(c) = {}
        BY <1>1, <1>5, <1>16, <2>1, <3>3
      <4>2. c.first = m + n
        BY <1>1, <1>4, <3>1, <3>3, <2>1 DEF Taken, L
      <4> QED
        BY <1>8, <4>1, <4>2 DEF PointsInto, e
    <3> QED
      BY <3>2, <3>3
  <2>2. CASE m # 0
    <3>1. o = 0 /\ BlockOk(block, lg) /\ c.first = block.first
      BY <1>9, <1>12, <2>2 DEF FirstRecordOffset, d, Filling
    <3>2. PointsInto(block, lg)
      BY <3>1 DEF BlockOk
    <3>3. m + 1 \in Starts(c)
      BY <1>5, <1>7, <1>16, <3>1
    <3>4. \A q \in Starts(block) : q \in 1 .. m /\ q \in Starts(c)
      <4>1. \A q \in Starts(block) : q \in 1 .. m
        BY <1>5 DEF Starts, d
      <4> QED
        BY <1>5, <1>7, <1>16, <4>1
    <3>5. ASSUME NEW p \in Starts(c), \A q \in Starts(c) : p <= q
          PROVE  c.first = p - 1 \/ lg[e[p][2]].len > DataSize
      <4>1. CASE p <= m
        <5>1. p \in Starts(block) /\ \A q \in Starts(block) : p <= q
          BY <1>16, <3>4, <3>5, <4>1
        <5>2. block.first = p - 1 \/ lg[d[p][2]].len > DataSize
          BY <3>2, <5>1 DEF PointsInto, d
        <5>3. e[p] = d[p]
          BY <1>14, <1>16, <4>1
        <5> QED
          BY <3>1, <5>2, <5>3
      <4>2. CASE ~(p <= m)
        <5>1. p = m + 1
          BY <1>16, <4>2
        <5>2. Starts(block) = {}
          <6>1. ASSUME NEW q \in Starts(block) PROVE FALSE
            <7>1. q \in 1 .. m /\ p <= q
              BY <3>4, <3>5
            <7> QED
              BY <1>5, <5>1, <7>1
          <6> QED
            BY <6>1
        <5>3. block.first = m
          BY <1>6, <3>2, <5>2 DEF PointsInto
        <5> QED
          BY <1>5, <3>1, <5>1, <5>3
      <4> QED
        BY <4>1, <4>2
    <3> QED
      BY <3>3, <3>5 DEF PointsInto, e
  <2> QED
    BY <2>1, <2>2
<1>18. Len(e) \in 1 .. DataSize
  BY <1>4, <1>5, <1>7, <1>8
<1>19. BlockOk(c, lg)
  BY <1>8, <1>11, <1>15, <1>17, <1>18 DEF BlockOk, e, r
<1> QED
  BY <1>7, <1>8, <1>19 DEF c, e, L

-----------------------------------------------------------------------------
(* One pass of AppendCLogRecord. *)

BufferOk(b, lg) ==
  /\ b \in Seq(Block) /\ Len(b) <= Blocks
  /\ \A i \in 1 .. Len(b) : BlockOk(b[i], lg)
  /\ \A i \in 1 .. Len(b) - 1 : Full(b[i])

\* the room in the last block
Room(b) == IF b = <<>> THEN 0 ELSE DataSize - Len(Last(b).data)

\* A buffer with the place it has come to and the offset in the record: the
\* record has not begun, or it has ended, or it goes on in a new block.
Good(s, units, lg) ==
  /\ s \in [buffer : Seq(Block), current : Nat, offset : Nat]
  /\ s.offset <= Len(units) /\ Len(s.buffer) <= s.current
  /\ BufferOk(s.buffer, lg)
  /\ s.offset = 0 \/ s.offset = Len(units) \/ Room(s.buffer) = 0

\* the open block, the blocks before it and where it is in the file
Opened(s, pre, block, c, lg) ==
  /\ InOpenBlock(s) = [buffer |-> Append(pre, block), current |-> c, offset |-> s.offset]
  /\ pre \in Seq(Block) /\ block \in Block /\ c \in Nat
  /\ Len(pre) < Blocks /\ \A i \in 1 .. Len(pre) : BlockOk(pre[i], lg) /\ Full(pre[i])
  /\ Len(block.data) < DataSize
  /\ Len(block.data) # 0 => s.offset = 0 /\ BlockOk(block, lg)
  /\ Content(s.buffer) = Content(pre) \o block.data
  /\ c + Len(s.buffer) = s.current + Len(pre) + 1
  /\ c * DataSize + Room(s.buffer) = s.current * DataSize + (DataSize - Len(block.data))
  /\ Room(s.buffer) = 0 => Len(pre) = Len(s.buffer)

LEMMA LastFull ==
  ASSUME NEW b \in Seq(Block), b # <<>>
  PROVE  /\ Last(b) = b[Len(b)] /\ Len(b) \in Nat \ {0} /\ Last(b) \in Block
         /\ Full(Last(b)) <=> Room(b) = 0
<1>1. Len(b) \in Nat \ {0} /\ Last(b) = b[Len(b)] /\ Last(b) \in Block
  BY AppendForm DEF Last
<1>2. Len(Last(b).data) \in Nat
  BY <1>1 DEF Block
<1>3. DataSize \in Nat
  BY SizesAssumption
<1> QED
  BY <1>1, <1>2, <1>3 DEF Full, Room

LEMMA OpensAnother ==
  ASSUME NEW s, NEW units, NEW lg, Good(s, units, lg), ~BufFull(s.buffer), Room(s.buffer) = 0
  PROVE  Opened(s, s.buffer, NewBlock, s.current + 1, lg)
<1> DEFINE b == s.buffer
           c == s.current
<1>1. b \in Seq(Block) /\ c \in Nat /\ s = [buffer |-> b, current |-> c, offset |-> s.offset]
      /\ Len(b) <= Blocks /\ \A i \in 1 .. Len(b) : BlockOk(b[i], lg)
  BY DEF Good, BufferOk
<1>2. \A i \in 1 .. Len(b) - 1 : Full(b[i])
  BY DEF Good, BufferOk
<1>3. Room(b) = 0 /\ ~BufFull(b)
  OBVIOUS
<1>4. DataSize \in Nat \ {0} /\ Blocks \in Nat \ {0} /\ Len(b) \in Nat
  BY <1>1, SizesAssumption
<1>5. InOpenBlock(s) = [buffer |-> Append(b, NewBlock), current |-> c + 1, offset |-> s.offset]
  <2>1. b = <<>> \/ Full(Last(b))
    BY <1>1, <1>3, LastFull
  <2>2. InOpenBlock(s) = [s EXCEPT !.buffer = Append(@, NewBlock), !.current = @ + 1]
    BY <2>1 DEF InOpenBlock
  <2> HIDE DEF b, c
  <2>3. s.buffer = b /\ s.current = c
    BY DEF b, c
  <2> QED
    BY <1>1, <2>2, <2>3
<1> HIDE DEF b, c
<1>6. Len(b) < Blocks
  <2>1. CASE b = <<>>
    BY <1>4, <2>1
  <2>2. CASE b # <<>>
    <3>1. Full(Last(b))
      BY <1>1, <1>3, <2>2, LastFull
    <3>2. Len(b) # Blocks
      BY <1>3, <3>1 DEF BufFull
    <3> QED
      BY <1>1, <1>4, <3>2
  <2> QED
    BY <2>1, <2>2
<1>7. ASSUME NEW i \in 1 .. Len(b) PROVE Full(b[i])
  <2>1. CASE i \in 1 .. Len(b) - 1
    BY <1>2, <2>1
  <2>2. CASE i = Len(b)
    <3>1. b # <<>>
      BY <2>2
    <3> QED
      BY <1>1, <1>3, <2>2, <3>1, LastFull
  <2> QED
    BY <1>4, <2>1, <2>2
<1>8. Content(b) = Content(b) \o <<>>
  BY <1>1, ContentType, ConcatEmptySeq
<1>9. NewBlock \in Block /\ NewBlock.data = <<>> /\ Len(<<>>) = 0
  BY NewBlockType
<1>10. Len(NewBlock.data) = 0
  BY <1>9
<1>11. (c + 1) * DataSize + Room(b) = c * DataSize + (DataSize - Len(NewBlock.data))
  <2>1. \A x, y \in Nat : (x + 1) * y + 0 = x * y + (y - 0)
    OBVIOUS
  <2> QED
    BY <1>1, <1>3, <1>4, <1>10, <2>1
<1>12. (c + 1) + Len(b) = c + Len(b) + 1 /\ c + 1 \in Nat
  BY <1>1, <1>4
<1>13. s.buffer = b /\ s.current = c
  BY DEF b, c
<1>14. Content(b) = Content(b) \o NewBlock.data /\ Len(NewBlock.data) < DataSize
  BY <1>4, <1>8, <1>9, <1>10
<1>15. Opened(s, b, NewBlock, c + 1, lg)
  BY <1>1, <1>5, <1>6, <1>7, <1>9, <1>10, <1>11, <1>12, <1>13, <1>14 DEF Opened
<1> QED
  BY <1>13, <1>15

LEMMA OpensLast ==
  ASSUME NEW s, NEW units, NEW lg, Good(s, units, lg), s.offset < Len(units), Room(s.buffer) # 0
  PROVE  Opened(s, SubSeq(s.buffer, 1, Len(s.buffer) - 1), Last(s.buffer), s.current, lg)
<1> DEFINE b == s.buffer
           c == s.current
           p == SubSeq(b, 1, Len(b) - 1)
           l == Last(b)
<1>1. b \in Seq(Block) /\ c \in Nat /\ s = [buffer |-> b, current |-> c, offset |-> s.offset]
      /\ Len(b) <= Blocks /\ \A i \in 1 .. Len(b) : BlockOk(b[i], lg)
  BY DEF Good, BufferOk
<1>2. \A i \in 1 .. Len(b) - 1 : Full(b[i])
  BY DEF Good, BufferOk
<1>3. s.offset = 0
  BY DEF Good
<1>4. Room(b) # 0 /\ b # <<>>
  BY DEF Room
<1>5. DataSize \in Nat \ {0} /\ Blocks \in Nat \ {0}
  BY SizesAssumption
<1>6. ~Full(l) /\ l = b[Len(b)] /\ Len(b) \in Nat \ {0} /\ l \in Block
  BY <1>1, <1>4, LastFull
<1>7. InOpenBlock(s) = s
  BY <1>4, <1>6 DEF InOpenBlock
<1> HIDE DEF b, c, l
<1>8. p \in Seq(Block) /\ Len(p) = Len(b) - 1 /\ b = Append(p, l)
  BY <1>1, <1>4, <1>6, AppendForm
<1>9. \A i \in 1 .. Len(b) - 1 : p[i] = b[i] /\ i \in 1 .. Len(b)
  <2>1. Len(b) - 1 \in 0 .. Len(b)
    BY <1>6
  <2>2. \A i \in 1 .. Len(b) - 1 : p[i] = b[i]
    BY <1>1, <2>1, Cut
  <2> QED
    BY <1>6, <2>2
<1> HIDE DEF p
<1>10. \A i \in 1 .. Len(p) : BlockOk(p[i], lg) /\ Full(p[i])
  BY <1>1, <1>2, <1>8, <1>9
<1>11. BlockOk(l, lg)
  <2>1. Len(b) \in 1 .. Len(b)
    BY <1>6
  <2> QED
    BY <1>1, <1>6, <2>1
<1>12. Len(l.data) < DataSize /\ Len(l.data) \in Nat
  <2>1. Len(l.data) \in 1 .. DataSize /\ Len(l.data) # DataSize
    BY <1>6, <1>11 DEF BlockOk, Full
  <2> QED
    BY <1>5, <2>1
<1>13. Content(b) = Content(p) \o l.data
  BY <1>6, <1>8, ContentAppend
<1>14. Room(b) = DataSize - Len(l.data)
  BY <1>4 DEF Room, l
<1>15. c * DataSize + Room(b) = c * DataSize + (DataSize - Len(l.data))
  BY <1>14
<1>16. c + Len(b) = c + Len(p) + 1 /\ Len(p) < Blocks
  <2> DEFINE m == Len(b)
             h == Len(p)
  <2>1. m \in Nat \ {0} /\ h = m - 1 /\ m <= Blocks /\ c \in Nat /\ Blocks \in Nat
    BY <1>1, <1>5, <1>6, <1>8
  <2> HIDE DEF m, h
  <2>2. c + m = c + h + 1 /\ h < Blocks
    BY <2>1
  <2> QED
    BY <2>2 DEF m, h
<1>17. InOpenBlock(s) = [buffer |-> Append(p, l), current |-> c, offset |-> s.offset]
  BY <1>1, <1>7, <1>8
<1>18. s.buffer = b /\ s.current = c
  BY DEF b, c
<1>19. Opened(s, p, l, c, lg)
  BY <1>1, <1>3, <1>4, <1>6, <1>8, <1>10, <1>11, <1>12, <1>13, <1>15, <1>17, <1>16, <1>18 DEF Opened
<1> QED
  BY <1>18, <1>19 DEF p, l

\* a step of the record: where it leads, what it adds, how many blocks it took
Goes(s, t, units) ==
  /\ s.offset <= t.offset
  /\ t.current + Len(s.buffer) = s.current + Len(t.buffer)
  /\ Content(t.buffer) = Content(s.buffer) \o SubSeq(units, s.offset + 1, t.offset)
  /\ t.current * DataSize + Room(s.buffer) + s.offset = s.current * DataSize + Room(t.buffer) + t.offset

OfRecord(lg, k, record, units) ==
  /\ lg \in Seq(Record) /\ Len(lg) \in 1 .. MaxRecords /\ k \in 1 .. MaxRuns
  /\ record = lg[Len(lg)] /\ units = UnitsIn(k, Len(lg), record)

LEMMA OfRecordUnits ==
  ASSUME NEW lg, NEW k, NEW record, NEW units, OfRecord(lg, k, record, units)
  PROVE  units \in Seq(Unit) /\ Len(units) = record.len /\ record \in Record /\ Len(units) \in Nat \ {0}
<1> DEFINE r == Len(lg)
<1>1. k \in 1 .. MaxRuns /\ r \in 1 .. MaxRecords /\ record \in Record /\ units = UnitsIn(k, r, record)
  BY DEF OfRecord
<1> HIDE DEF r
<1>2. units \in Seq(Unit) /\ Len(units) = record.len
  BY <1>1, UnitsType
<1> QED
  BY <1>1, <1>2, RecordType

LEMMA RoomType ==
  ASSUME NEW b, NEW lg, BufferOk(b, lg)
  PROVE  Room(b) \in Nat /\ Room(b) < DataSize
<1>1. CASE b = <<>>
  BY <1>1, SizesAssumption DEF Room
<1>2. CASE b # <<>>
  <2>1. b \in Seq(Block) /\ \A i \in 1 .. Len(b) : BlockOk(b[i], lg)
    BY DEF BufferOk
  <2>2. Last(b) = b[Len(b)] /\ Len(b) \in 1 .. Len(b)
    BY <1>2, <2>1, LastFull
  <2>3. Len(Last(b).data) \in 1 .. DataSize
    BY <2>1, <2>2 DEF BlockOk
  <2> QED
    BY <1>2, <2>3, SizesAssumption DEF Room
<1> QED
  BY <1>1, <1>2

LEMMA ReplaceLast ==
  ASSUME NEW S, NEW p \in Seq(S), NEW x \in S, NEW y \in S
  PROVE  [Append(p, x) EXCEPT ![Len(Append(p, x))] = y] = Append(p, y)
<1> DEFINE a == Append(p, x)
           b == Append(p, y)
           n == Len(p)
           e == [a EXCEPT ![Len(a)] = y]
<1>1. n \in Nat /\ a \in Seq(S) /\ Len(a) = n + 1 /\ b \in Seq(S) /\ Len(b) = n + 1
      /\ b[n + 1] = y /\ \A i \in 1 .. n : a[i] = p[i] /\ b[i] = p[i]
  OBVIOUS
<1> HIDE DEF a, b, n
<1>2. e \in Seq(S) /\ Len(e) = n + 1
  BY <1>1
<1>3. \A i \in 1 .. n + 1 : e[i] = b[i]
  BY <1>1
<1> HIDE DEF e
<1>4. e = b
  BY <1>1, <1>2, <1>3, SeqEqual
<1> QED
  BY <1>4 DEF e, a, b

\* the pass, once the open block is known
LEMMA PassFills ==
  ASSUME NEW s, NEW units, NEW lg, NEW pre, NEW block, NEW c, Opened(s, pre, block, c, lg),
         NEW o, o = s.offset, NEW n, n = Taken(Len(units) - o, Len(block.data)),
         Filled(block, units, o, n) \in Block
  PROVE  Pass(s, units) = [buffer  |-> Append(pre, Filled(block, units, o, n)),
                           current |-> c, offset |-> o + n]
<1> DEFINE a == Append(pre, block)
           f == Filled(block, units, o, n)
           t == InOpenBlock(s)
<1>1. t = [buffer |-> a, current |-> c, offset |-> o]
  BY DEF Opened
<1>2. pre \in Seq(Block) /\ block \in Block /\ f \in Block
  BY DEF Opened
<1> HIDE DEF f
<1>3. [a EXCEPT ![Len(a)] = f] = Append(pre, f)
  BY <1>2, ReplaceLast
<1>4. Last(a) = block
  <2>1. Len(a) = Len(pre) + 1 /\ a[Len(pre) + 1] = block
    BY <1>2
  <2> QED
    BY <2>1 DEF Last
<1> HIDE DEF a, t
<1>5. t.buffer = a /\ t.offset = o
  BY <1>1
<1>6. Pass(s, units) = [t EXCEPT !.buffer[Len(t.buffer)] = f, !.offset = @ + n]
  BY <1>4, <1>5 DEF Pass, Filled, Taken, t, f
<1> DEFINE g == [a EXCEPT ![Len(a)] = f]
<1>7. [t EXCEPT !.buffer[Len(t.buffer)] = f, !.offset = @ + n] = [t EXCEPT !.buffer = g, !.offset = o + n]
  BY <1>5
<1> HIDE DEF g
<1>8. [t EXCEPT !.buffer = g, !.offset = o + n] = [buffer |-> g, current |-> c, offset |-> o + n]
  <2> DEFINE w == [t EXCEPT !.buffer = g]
  <2>1. w = [buffer |-> g, current |-> c, offset |-> o]
    BY <1>1
  <2> HIDE DEF w
  <2>2. [w EXCEPT !.offset = o + n] = [buffer |-> g, current |-> c, offset |-> o + n]
    BY <2>1
  <2> QED
    BY <2>2 DEF w
<1>9. g = Append(pre, f)
  BY <1>3 DEF g
<1> QED
  BY <1>6, <1>7, <1>8, <1>9 DEF f

LEMMA PassGoes ==
  ASSUME NEW lg, NEW k, NEW record, NEW units, OfRecord(lg, k, record, units),
         NEW s, Good(s, units, lg), s.offset < Len(units), ~BufFull(s.buffer),
         NEW t, t = Pass(s, units)
  PROVE  /\ Good(t, units, lg) /\ Goes(s, t, units)
         /\ t.offset = Len(units) \/ Room(t.buffer) = 0
         /\ Len(t.buffer) >= 1 /\ t.offset > s.offset
         /\ Room(s.buffer) = 0 => Len(t.buffer) = Len(s.buffer) + 1
<1> DEFINE o == s.offset
           L == Len(units)
<1>1. \E pre \in Seq(Block), block \in Block, c \in Nat : Opened(s, pre, block, c, lg)
  <2>1. CASE Room(s.buffer) = 0
    <3>1. Opened(s, s.buffer, NewBlock, s.current + 1, lg)
      BY <2>1, OpensAnother
    <3>2. s.buffer \in Seq(Block) /\ NewBlock \in Block /\ s.current + 1 \in Nat
      BY <3>1 DEF Opened
    <3> QED
      BY <3>1, <3>2
  <2>2. CASE Room(s.buffer) # 0
    <3>1. Opened(s, SubSeq(s.buffer, 1, Len(s.buffer) - 1), Last(s.buffer), s.current, lg)
      BY <2>2, OpensLast
    <3>2. SubSeq(s.buffer, 1, Len(s.buffer) - 1) \in Seq(Block) /\ Last(s.buffer) \in Block /\ s.current \in Nat
      BY <3>1 DEF Opened
    <3> QED
      BY <3>1, <3>2
  <2> QED
    BY <2>1, <2>2
<1>2. PICK pre \in Seq(Block), block \in Block, c \in Nat : Opened(s, pre, block, c, lg)
  BY <1>1
<1> DEFINE m == Len(block.data)
           n == Taken(L - o, m)
           f == Filled(block, units, o, n)
           b == Append(pre, f)
<1>3. Filling(lg, k, record, units, o, block, m, n)
  <2>1. m # 0 => o = 0 /\ BlockOk(block, lg)
    BY <1>2 DEF Opened
  <2>2. m < DataSize /\ block \in Block /\ o \in Nat /\ o < L
    BY <1>2 DEF Opened, Good
  <2> QED
    BY <2>1, <2>2 DEF Filling, OfRecord
<1> HIDE DEF n
<1>4. /\ n \in Nat \ {0} /\ o + n <= L /\ m + n <= DataSize
      /\ o + n = L \/ m + n = DataSize
      /\ Len(f.data) = m + n
      /\ BlockOk(f, lg)
  BY <1>3, FilledOk
<1>5. f.data = block.data \o SubSeq(units, o + 1, o + n)
  BY DEF Filled
<1>6. f \in Block
  BY <1>4 DEF BlockOk
<1>7. t = [buffer |-> b, current |-> c, offset |-> o + n]
  BY <1>2, <1>6, PassFills DEF n
<1>8. t.buffer = b /\ t.current = c /\ t.offset = o + n
  BY <1>7
<1> HIDE DEF f
<1>9. b \in Seq(Block) /\ Len(b) = Len(pre) + 1 /\ b[Len(pre) + 1] = f /\ (\A i \in 1 .. Len(pre) : b[i] = pre[i])
      /\ Len(pre) \in Nat
  BY <1>6
<1> HIDE DEF b
<1>10. Last(b) = f /\ b # <<>>
  BY <1>9 DEF Last
<1>11. Room(b) = DataSize - (m + n)
  BY <1>4, <1>10 DEF Room
<1>12. Len(pre) < Blocks /\ \A i \in 1 .. Len(pre) : BlockOk(pre[i], lg) /\ Full(pre[i])
  BY <1>2 DEF Opened
<1>13. DataSize \in Nat /\ Blocks \in Nat /\ L \in Nat /\ o \in Nat /\ m \in Nat /\ s.current \in Nat
       /\ Len(s.buffer) \in Nat /\ Len(s.buffer) <= s.current
  <2>1. s.current \in Nat /\ o \in Nat /\ s.buffer \in Seq(Block) /\ Len(s.buffer) <= s.current
    BY DEF Good
  <2>2. m \in Nat
    BY DEF Block
  <2> QED
    BY <2>1, <2>2, SizesAssumption, OfRecordUnits
<1>14. BufferOk(b, lg)
  <2> DEFINE h == Len(pre)
  <2>1. h \in Nat /\ h < Blocks /\ Len(b) = h + 1 /\ Blocks \in Nat
    BY <1>9, <1>12, <1>13
  <2>2. ASSUME NEW i \in 1 .. h + 1 PROVE BlockOk(b[i], lg)
    <3>1. CASE i \in 1 .. h
      BY <1>9, <1>12, <3>1
    <3>2. CASE i = h + 1
      BY <1>4, <1>9, <3>2
    <3> QED
      BY <2>1, <3>1, <3>2
  <2>3. \A i \in 1 .. h : Full(b[i])
    BY <1>9, <1>12
  <2> HIDE DEF h
  <2>4. Len(b) <= Blocks /\ Len(b) - 1 = h
    BY <2>1
  <2> QED
    BY <1>9, <2>1, <2>2, <2>3, <2>4 DEF BufferOk
<1>15. o + n = L \/ Room(b) = 0
  BY <1>4, <1>11, <1>13
<1>16. c + Len(s.buffer) = s.current + Len(b)
  <2>1. c + Len(s.buffer) = s.current + Len(pre) + 1
    BY <1>2 DEF Opened
  <2> DEFINE x == Len(s.buffer)
             y == Len(b)
             z == Len(pre)
  <2>2. x \in Nat /\ z \in Nat /\ y = z + 1 /\ s.current \in Nat /\ c + x = s.current + z + 1
    BY <1>9, <1>13, <2>1
  <2> HIDE DEF x, y, z
  <2>3. c + x = s.current + y
    BY <2>2
  <2> QED
    BY <2>3 DEF x, y
<1>17. c \in Nat /\ Len(b) <= c
  BY <1>9, <1>13, <1>16
<1>18. Good(t, units, lg)
  BY <1>4, <1>7, <1>8, <1>9, <1>13, <1>14, <1>15, <1>17 DEF Good
<1>19. Content(b) = Content(s.buffer) \o SubSeq(units, o + 1, o + n)
  <2> DEFINE x == Content(pre)
             y == block.data
             z == SubSeq(units, o + 1, o + n)
  <2>1. Content(s.buffer) = x \o y
    BY <1>2 DEF Opened
  <2>2. Content(b) = x \o (y \o z)
    BY <1>5, <1>6, ContentAppend DEF b
  <2>3. x \in Seq(Unit) /\ y \in Seq(Unit) /\ z \in Seq(Unit)
    <3>1. x \in Seq(Unit)
      BY ContentType
    <3>2. y \in Seq(Unit)
      BY DEF Block
    <3>3. z \in Seq(Unit)
      <4>1. units \in Seq(Unit) /\ o \in Nat /\ n \in Nat /\ o + n <= Len(units) /\ block.data \in Seq(Unit)
        BY <1>4, <1>13, <3>2, OfRecordUnits
      <4> QED
        BY <4>1, FilledData
    <3> QED
      BY <3>1, <3>2, <3>3
  <2> HIDE DEF x, y, z
  <2>4. x \o (y \o z) = (x \o y) \o z
    BY <2>3, ConcatAssociative
  <2> QED
    BY <2>1, <2>2, <2>4 DEF z
<1>20. c * DataSize + Room(s.buffer) + o = s.current * DataSize + Room(b) + (o + n)
  <2> DEFINE x == c * DataSize
             y == s.current * DataSize
             z == Room(s.buffer)
  <2>1. x + z = y + (DataSize - m)
    BY <1>2 DEF Opened
  <2>2. x \in Nat /\ y \in Nat
    <3>1. \A u, v \in Nat : u * v \in Nat
      OBVIOUS
    <3> QED
      BY <1>13, <3>1
  <2>3. z \in Nat
    BY RoomType DEF Good
  <2> HIDE DEF x, y, z, m
  <2>4. x + z + o = y + Room(b) + (o + n)
    BY <1>4, <1>11, <1>13, <2>1, <2>2, <2>3
  <2> QED
    BY <2>4 DEF x, y, z
<1>21. Goes(s, t, units)
  <2>1. o <= o + n
    BY <1>4, <1>13
  <2> QED
    BY <1>8, <1>16, <1>19, <1>20, <2>1 DEF Goes
<1>22. Room(s.buffer) = 0 => Len(b) = Len(s.buffer) + 1
  BY <1>2, <1>9 DEF Opened
<1>23. Len(b) >= 1 /\ o + n > o
  <2>1. Len(b) >= 1
    BY <1>9
  <2> HIDE DEF o
  <2>2. o + n > o
    BY <1>4, <1>13
  <2> QED
    BY <2>1, <2>2
<1> QED
  BY <1>8, <1>15, <1>18, <1>21, <1>22, <1>23

-----------------------------------------------------------------------------
(* AppendCLogRecord: a pass after another, until the record or the buffer    *)
(* ends.                                                                     *)

Ended(s, units) == s.offset = Len(units) \/ BufFull(s.buffer)

AfterStep(s, units, w, k) ==
  IF k = 0 THEN s ELSE IF Ended(w[k - 1], units) THEN w[k - 1] ELSE Pass(w[k - 1], units)
After(s, units) == CHOOSE w : w = [k \in 0 .. Blocks + 1 |-> AfterStep(s, units, w, k)]

LEMMA AppendIsAfter ==
  ASSUME NEW s, NEW units
  PROVE  AppendCLogRecord(s, units) = After(s, units)[Blocks + 1]
BY DEF AppendCLogRecord, After, AfterStep, Ended

LEMMA AfterDefined ==
  ASSUME NEW s, NEW units
  PROVE  After(s, units) = [k \in 0 .. Blocks + 1 |-> AfterStep(s, units, After(s, units), k)]
<1> DEFINE N == Blocks + 1
           F(w, k) == w = [i \in 0 .. k |-> AfterStep(s, units, w, i)]
           T == {k \in 0 .. N : ~\E w : F(w, k)}
<1>1. N \in Nat
  BY SizesAssumption
<1> HIDE DEF N
<1>2. T = {}
  <2> SUFFICES ASSUME T # {} PROVE FALSE
    OBVIOUS
  <2>1. PICK k \in T : \A j \in T : k <= j
    <3>1. T \in SUBSET Nat
      BY <1>1
    <3> HIDE DEF T
    <3> QED
      BY <3>1, LeastNatural
  <2>2. k \in 0 .. N /\ ~\E w : F(w, k)
    BY <2>1
  <2>3. k # 0
    <3> DEFINE w == [i \in 0 .. 0 |-> s]
    <3>1. \A i \in 0 .. 0 : AfterStep(s, units, w, i) = s
      BY DEF AfterStep
    <3>2. F(w, 0)
      BY <3>1
    <3> QED
      BY <2>2, <3>2
  <2>4. PICK g : F(g, k - 1)
    <3>1. k - 1 \in 0 .. N /\ ~(k <= k - 1)
      BY <1>1, <2>2, <2>3
    <3>2. k - 1 \notin T
      BY <2>1, <3>1
    <3> QED
      BY <3>1, <3>2
  <2> DEFINE h == [i \in 0 .. k |-> AfterStep(s, units, g, i)]
  <2>5. ASSUME NEW i \in 0 .. k PROVE AfterStep(s, units, h, i) = AfterStep(s, units, g, i)
    <3>1. CASE i = 0
      BY <3>1 DEF AfterStep
    <3>2. CASE i # 0
      <4>1. i - 1 \in 0 .. k - 1 /\ i - 1 \in 0 .. k
        BY <1>1, <2>2, <3>2
      <4>2. h[i - 1] = g[i - 1]
        BY <2>4, <4>1
      <4> HIDE DEF h
      <4> QED
        BY <3>2, <4>2 DEF AfterStep
    <3> QED
      BY <3>1, <3>2
  <2>6. F(h, k)
    BY <2>5
  <2> QED
    BY <2>2, <2>6
<1>3. \E w : F(w, N)
  <2>1. N \in 0 .. N
    BY <1>1
  <2> HIDE DEF F
  <2> QED
    BY <1>2, <2>1
<1>4. \E w : w = [i \in 0 .. Blocks + 1 |-> AfterStep(s, units, w, i)]
  BY <1>3 DEF N
<1> HIDE DEF F, T
<1> QED
  BY <1>4 DEF After

LEMMA GoesNowhere ==
  ASSUME NEW s, NEW units, NEW lg, Good(s, units, lg)
  PROVE  Goes(s, s, units)
<1>1. s.offset \in Nat /\ s.buffer \in Seq(Block) /\ s.current \in Nat
  BY DEF Good
<1>2. SubSeq(units, s.offset + 1, s.offset) = <<>>
  <2>1. s.offset + 1 \in Int /\ s.offset \in Int /\ s.offset < s.offset + 1
    BY <1>1
  <2> QED
    BY <2>1, SubSeqEmpty
<1>3. Content(s.buffer) = Content(s.buffer) \o <<>>
  BY <1>1, ContentType, ConcatEmptySeq
<1>4. s.offset <= s.offset
  BY <1>1
<1> QED
  BY <1>2, <1>3, <1>4 DEF Goes

\* two parts of a record, one after the other
LEMMA PartsJoin ==
  ASSUME NEW S, NEW u \in Seq(S), NEW a \in Nat, NEW b \in Nat, NEW c \in Nat,
         a <= b, b <= c, c <= Len(u)
  PROVE  /\ SubSeq(u, a + 1, b) \in Seq(S) /\ SubSeq(u, b + 1, c) \in Seq(S)
         /\ SubSeq(u, a + 1, b) \o SubSeq(u, b + 1, c) = SubSeq(u, a + 1, c)
<1> DEFINE L == Len(u)
<1>1. L \in Nat /\ \A i \in 1 .. L : u[i] \in S
  OBVIOUS
<1>2. c <= L
  OBVIOUS
<1> HIDE DEF L
<1>3. /\ a + 1 \in Int /\ b \in Int /\ b + 1 \in Int /\ c \in Int
      /\ \A i \in a + 1 .. b : u[i] \in S
      /\ \A i \in b + 1 .. c : u[i] \in S
  BY <1>1, <1>2
<1>4. SubSeq(u, a + 1, b) \in Seq(S) /\ SubSeq(u, b + 1, c) \in Seq(S)
  BY <1>3, SubSeqProperties
<1>5. a + 1 \in 1 .. L + 1 /\ b \in a + 1 - 1 .. L /\ c \in b .. L
  BY <1>1, <1>2
<1>6. a + 1 \in 1 .. Len(u) + 1 /\ b \in (a + 1) - 1 .. Len(u) /\ c \in b .. Len(u)
  BY <1>5 DEF L
<1>7. SubSeq(u, a + 1, b) \o SubSeq(u, b + 1, c) = SubSeq(u, a + 1, c)
  BY <1>6, ConcatAdjacentSubSeq
<1> QED
  BY <1>4, <1>7

LEMMA ConcatThree ==
  ASSUME NEW a \in Seq(Unit), NEW b \in Seq(Unit), NEW c \in Seq(Unit)
  PROVE  (a \o b) \o c = a \o (b \o c)
BY ConcatAssociative

LEMMA GoesOn ==
  ASSUME NEW lg, NEW k, NEW record, NEW units, OfRecord(lg, k, record, units),
         NEW s, NEW t, NEW v,
         Good(s, units, lg), Good(t, units, lg), Good(v, units, lg),
         Goes(s, t, units), Goes(t, v, units)
  PROVE  Goes(s, v, units)
<1>1. /\ s.offset \in Nat /\ t.offset \in Nat /\ v.offset \in Nat
      /\ s.offset <= t.offset /\ t.offset <= v.offset /\ v.offset <= Len(units) /\ Len(units) \in Nat
  BY OfRecordUnits DEF Good, Goes
<1>2. s.offset <= v.offset
  BY <1>1
<1>3. v.current + Len(s.buffer) = s.current + Len(v.buffer)
  <2> DEFINE a == Len(s.buffer)
             b == Len(t.buffer)
             c == Len(v.buffer)
  <2>1. a \in Nat /\ b \in Nat /\ c \in Nat /\ s.current \in Nat /\ t.current \in Nat /\ v.current \in Nat
    BY DEF Good
  <2>2. t.current + a = s.current + b /\ v.current + b = t.current + c
    BY DEF Goes
  <2> HIDE DEF a, b, c
  <2>3. v.current + a = s.current + c
    BY <2>1, <2>2
  <2> QED
    BY <2>3 DEF a, c
<1>4. v.current * DataSize + Room(s.buffer) + s.offset = s.current * DataSize + Room(v.buffer) + v.offset
  <2> DEFINE a == s.current * DataSize
             b == t.current * DataSize
             c == v.current * DataSize
  <2>1. a \in Nat /\ b \in Nat /\ c \in Nat
    <3>1. \A x, y \in Nat : x * y \in Nat
      OBVIOUS
    <3>2. s.current \in Nat /\ t.current \in Nat /\ v.current \in Nat /\ DataSize \in Nat
      BY SizesAssumption DEF Good
    <3> QED
      BY <3>1, <3>2
  <2>2. Room(s.buffer) \in Nat /\ Room(t.buffer) \in Nat /\ Room(v.buffer) \in Nat
    BY RoomType DEF Good
  <2>3. b + Room(s.buffer) + s.offset = a + Room(t.buffer) + t.offset
        /\ c + Room(t.buffer) + t.offset = b + Room(v.buffer) + v.offset
    BY DEF Goes
  <2> DEFINE p == Room(s.buffer)
             q == Room(t.buffer)
             r == Room(v.buffer)
             x == s.offset
             y == t.offset
             z == v.offset
  <2>4. x \in Nat /\ y \in Nat /\ z \in Nat
    BY <1>1
  <2> HIDE DEF a, b, c, p, q, r, x, y, z
  <2>5. c + p + x = a + r + z
    BY <2>1, <2>2, <2>3, <2>4 DEF p, q, r, x, y, z
  <2> QED
    BY <2>5 DEF a, c, p, r, x, z
<1>5. Content(v.buffer) = Content(s.buffer) \o SubSeq(units, s.offset + 1, v.offset)
  <2> DEFINE a == Content(s.buffer)
             b == SubSeq(units, s.offset + 1, t.offset)
             c == SubSeq(units, t.offset + 1, v.offset)
             d == SubSeq(units, s.offset + 1, v.offset)
  <2>1. a \in Seq(Unit)
    BY ContentType DEF Good
  <2>2. units \in Seq(Unit)
    BY OfRecordUnits
  <2>3. b \in Seq(Unit) /\ c \in Seq(Unit) /\ b \o c = d
    <3> DEFINE x == s.offset
               y == t.offset
               z == v.offset
    <3>1. x \in Nat /\ y \in Nat /\ z \in Nat /\ x <= y /\ y <= z /\ z <= Len(units)
      BY <1>1
    <3> HIDE DEF x, y, z
    <3>2. /\ SubSeq(units, x + 1, y) \in Seq(Unit) /\ SubSeq(units, y + 1, z) \in Seq(Unit)
          /\ SubSeq(units, x + 1, y) \o SubSeq(units, y + 1, z) = SubSeq(units, x + 1, z)
      BY <2>2, <3>1, PartsJoin
    <3> QED
      BY <3>2 DEF x, y, z
  <2>4. Content(t.buffer) = a \o b /\ Content(v.buffer) = Content(t.buffer) \o c
    BY DEF Goes
  <2> HIDE DEF a, b, c, d
  <2> DEFINE e == Content(t.buffer)
             f == Content(v.buffer)
  <2>5. d = b \o c /\ e = a \o b /\ f = e \o c
    BY <2>3, <2>4
  <2> HIDE DEF e, f
  <2>6. (a \o b) \o c = a \o (b \o c)
    BY <2>1, <2>3, ConcatThree
  <2>7. f = a \o d
    BY <2>5, <2>6
  <2> QED
    BY <2>7 DEF a, d, f
<1> QED
  BY <1>2, <1>3, <1>4, <1>5 DEF Goes

\* where the passes have come to after the j-th
Along(s, v, units, lg, j) ==
  /\ Good(v, units, lg) /\ Goes(s, v, units)
  /\ \/ Ended(v, units)
     \/ j = 0
     \/ Room(v.buffer) = 0 /\ Len(v.buffer) >= j

LEMMA AlongStep ==
  ASSUME NEW lg, NEW k, NEW record, NEW units, OfRecord(lg, k, record, units),
         NEW s, Good(s, units, lg), NEW j \in Nat, NEW v, Along(s, v, units, lg, j), ~Ended(v, units)
  PROVE  Along(s, Pass(v, units), units, lg, j + 1)
<1> DEFINE t == Pass(v, units)
<1>1. Good(v, units, lg) /\ Goes(s, v, units)
  BY DEF Along
<1>2. v.offset < Len(units) /\ ~BufFull(v.buffer)
  <2>1. v.offset \in Nat /\ v.offset <= Len(units) /\ Len(units) \in Nat
    BY <1>1, OfRecordUnits DEF Good
  <2>2. v.offset # Len(units) /\ ~BufFull(v.buffer)
    BY DEF Ended
  <2> QED
    BY <2>1, <2>2
<1>3. /\ Good(t, units, lg) /\ Goes(v, t, units)
      /\ t.offset = Len(units) \/ Room(t.buffer) = 0
      /\ Len(t.buffer) >= 1
      /\ Room(v.buffer) = 0 => Len(t.buffer) = Len(v.buffer) + 1
  BY <1>1, <1>2, PassGoes
<1> HIDE DEF t
<1>4. Goes(s, t, units)
  BY <1>1, <1>3, GoesOn
<1>5. t.offset = Len(units) \/ Len(t.buffer) >= j + 1
  <2>1. CASE j = 0
    BY <1>3, <2>1
  <2>2. CASE j # 0
    <3>1. Room(v.buffer) = 0 /\ Len(v.buffer) >= j
      BY <2>2 DEF Along
    <3>2. Len(v.buffer) \in Nat /\ Len(t.buffer) = Len(v.buffer) + 1
      BY <1>1, <1>3, <3>1 DEF Good
    <3> QED
      BY <3>1, <3>2
  <2> QED
    BY <2>1, <2>2
<1> QED
  BY <1>3, <1>4, <1>5 DEF Along, Ended, t

LEMMA AppendEnds ==
  ASSUME NEW lg, NEW k, NEW record, NEW units, OfRecord(lg, k, record, units),
         NEW s, Good(s, units, lg),
         NEW t, t = AppendCLogRecord(s, units)
  PROVE  Good(t, units, lg) /\ Goes(s, t, units) /\ Ended(t, units)
<1> DEFINE N == Blocks + 1
           w == After(s, units)
           T == {j \in 0 .. N : ~Along(s, w[j], units, lg, j)}
<1>1. N \in Nat /\ Blocks \in Nat /\ N = Blocks + 1
  BY SizesAssumption
<1>2. \A j \in 0 .. N : w[j] = AfterStep(s, units, w, j)
  <2>1. w = [j \in 0 .. N |-> AfterStep(s, units, w, j)]
    BY AfterDefined
  <2> HIDE DEF w, N
  <2> QED
    BY <2>1
<1>3. t = w[N]
  BY AppendIsAfter
<1> HIDE DEF N, w
<1>4. T = {}
  <2> SUFFICES ASSUME T # {} PROVE FALSE
    OBVIOUS
  <2>1. PICK j \in T : \A i \in T : j <= i
    <3>1. T \in SUBSET Nat
      BY <1>1
    <3> HIDE DEF T
    <3> QED
      BY <3>1, LeastNatural
  <2>2. j \in 0 .. N /\ ~Along(s, w[j], units, lg, j)
    BY <2>1
  <2>3. j # 0
    <3>1. ASSUME j = 0 PROVE FALSE
      <4>1. w[j] = s
        BY <1>2, <2>2, <3>1 DEF AfterStep
      <4>2. Goes(s, s, units)
        BY GoesNowhere
      <4>3. Along(s, s, units, lg, j)
        BY <3>1, <4>2 DEF Along
      <4> QED
        BY <2>2, <4>1, <4>3
    <3> QED
      BY <3>1
  <2> DEFINE i == j - 1
             v == w[i]
  <2>4. i \in Nat /\ i \in 0 .. N /\ ~(j <= i) /\ j = i + 1
    BY <1>1, <2>2, <2>3
  <2>5. i \notin T
    <3> HIDE DEF T, i
    <3> QED
      BY <2>1, <2>4
  <2>6. Along(s, v, units, lg, i)
    BY <2>4, <2>5
  <2>7. w[j] = IF Ended(v, units) THEN v ELSE Pass(v, units)
    BY <1>2, <2>2, <2>3 DEF AfterStep
  <2> HIDE DEF i, v, T
  <2>8. CASE Ended(v, units)
    <3>1. Along(s, v, units, lg, j)
      BY <2>6, <2>8 DEF Along
    <3> QED
      BY <2>2, <2>7, <2>8, <3>1
  <2>9. CASE ~Ended(v, units)
    <3>1. Along(s, Pass(v, units), units, lg, i + 1)
      BY <2>4, <2>6, <2>9, AlongStep
    <3> QED
      BY <2>2, <2>4, <2>7, <2>9, <3>1
  <2> QED
    BY <2>8, <2>9
<1>5. Along(s, t, units, lg, N)
  <2>1. N \in 0 .. N
    BY <1>1
  <2>2. Along(s, w[N], units, lg, N)
    BY <1>4, <2>1
  <2> QED
    BY <1>3, <2>2
<1>6. ~(Len(t.buffer) >= N) /\ N # 0
  <2>1. Len(t.buffer) <= Blocks /\ Len(t.buffer) \in Nat
    BY <1>5 DEF Along, Good, BufferOk
  <2> QED
    BY <1>1, <2>1
<1> QED
  BY <1>5, <1>6 DEF Along

-----------------------------------------------------------------------------
(* A record in the buffer: what the first call of AppendCLogRecord leaves    *)
(* (s), and what is there when the rest has followed a flush (t).            *)

LEMMA Times ==
  ASSUME NEW x \in Nat, NEW y \in Nat, NEW d \in Nat
  PROVE  x * d \in Nat /\ (x + y) * d = x * d + y * d /\ x * d = d * x
OBVIOUS

LEMMA TimesBound ==
  ASSUME NEW x \in Nat, NEW y \in Nat, NEW d \in Nat \ {0}, x * d < y * d
  PROVE  x < y
<1> SUFFICES ASSUME ~(x < y) PROVE FALSE
  OBVIOUS
<1>1. x - y \in Nat /\ x = y + (x - y)
  OBVIOUS
<1> DEFINE e == x - y
<1>2. e \in Nat /\ x = y + e
  BY <1>1
<1> HIDE DEF e
<1>3. x * d = y * d + e * d /\ e * d \in Nat /\ y * d \in Nat
  BY <1>2, Times
<1> DEFINE p == x * d
           q == y * d
           r == e * d
<1>4. p = q + r /\ r \in Nat /\ q \in Nat /\ p < q
  BY <1>3
<1> HIDE DEF p, q, r
<1> QED
  BY <1>4

LEMMA KeptOk ==
  ASSUME NEW b, NEW lg, BufferOk(b, lg), b # <<>>
  PROVE  /\ BufferOk(Kept(b), lg) /\ Room(Kept(b)) = Room(b)
         /\ Len(Kept(b)) = IF Full(Last(b)) THEN 0 ELSE 1
         /\ Full(Last(b)) => Kept(b) = <<>>
         /\ ~Full(Last(b)) => Kept(b) = <<Last(b)>>
<1>1. b \in Seq(Block) /\ \A i \in 1 .. Len(b) : BlockOk(b[i], lg)
  BY DEF BufferOk
<1>2. Last(b) = b[Len(b)] /\ Len(b) \in 1 .. Len(b) /\ Last(b) \in Block /\ (Full(Last(b)) <=> Room(b) = 0)
  BY <1>1, LastFull
<1> DEFINE l == Last(b)
<1>3. BlockOk(l, lg) /\ l \in Block
  BY <1>1, <1>2
<1>4. CASE Full(l)
  <2>1. Kept(b) = <<>>
    BY <1>4 DEF Kept
  <2>2. BufferOk(<<>>, lg)
    <3> DEFINE e == <<>>
    <3>1. e \in Seq(Block) /\ Len(e) = 0
      OBVIOUS
    <3> HIDE DEF e
    <3>2. BufferOk(e, lg)
      BY <3>1, SizesAssumption DEF BufferOk
    <3> QED
      BY <3>2 DEF e
  <2>3. Room(<<>>) = 0
    BY DEF Room
  <2> QED
    BY <1>2, <1>4, <2>1, <2>2, <2>3
<1>5. CASE ~Full(l)
  <2> HIDE DEF l
  <2> DEFINE e == <<l>>
  <2>1. Kept(b) = e
    BY <1>5 DEF Kept, l
  <2>2. e \in Seq(Block) /\ Len(e) = 1 /\ e[1] = l /\ e # <<>>
    BY <1>3
  <2> HIDE DEF e
  <2>3. Last(e) = l
    BY <2>2 DEF Last
  <2>4. Room(e) = Room(b)
    <3>1. b # <<>>
      OBVIOUS
    <3> QED
      BY <2>2, <2>3, <3>1 DEF Room, l
  <2>5. BufferOk(e, lg)
    BY <1>3, <2>2, SizesAssumption DEF BufferOk
  <2> QED
    BY <1>5, <2>1, <2>2, <2>4, <2>5 DEF l, e
<1> QED
  BY <1>4, <1>5

AppendFacts(b, c, lg, units, s, t) ==
  /\ s.buffer # <<>> /\ BufferOk(s.buffer, lg) /\ s.current \in Nat /\ Len(s.buffer) <= s.current
  /\ s.current + Len(b) = c + Len(s.buffer)
  /\ s.offset \in 0 .. Len(units)
  /\ Content(s.buffer) = Content(b) \o SubSeq(units, 1, s.offset)
  /\ s.offset < Len(units) => Full(Last(s.buffer))
  /\ s.current <= c + Blocks
  /\ BufferOk(t.buffer, lg) /\ t.current \in Nat /\ Len(t.buffer) <= t.current
  /\ t.current + Len(Kept(s.buffer)) = s.current + Len(t.buffer)
  /\ Content(t.buffer) = Content(Kept(s.buffer)) \o SubSeq(units, s.offset + 1, Len(units))
  /\ t.current <= c + Blocks

\* the two calls of AppendRecord
Calls(b, c, units, s, t) ==
  /\ s = AppendCLogRecord([buffer |-> b, current |-> c, offset |-> 0], units)
  /\ t = Rest([s EXCEPT !.buffer = Kept(@)], units)

LEMMA RecordAppended ==
  ASSUME NEW lg, NEW k, NEW record, NEW units, OfRecord(lg, k, record, units),
         NEW b, NEW c \in Nat, BufferOk(b, lg), Len(b) <= c,
         NEW s, NEW t, Calls(b, c, units, s, t)
  PROVE  AppendFacts(b, c, lg, units, s, t)
<1> DEFINE z == [buffer |-> b, current |-> c, offset |-> 0]
           L == Len(units)
           D == DataSize
<1>1. D \in Nat \ {0} /\ Blocks \in Nat \ {0} /\ L \in Nat \ {0} /\ L <= D * Blocks
  <2>1. units \in Seq(Unit) /\ L = record.len /\ record \in Record /\ L \in Nat \ {0}
    BY OfRecordUnits
  <2> QED
    BY <2>1, RecordType
<1>2. b \in Seq(Block) /\ units \in Seq(Unit)
  BY OfRecordUnits DEF BufferOk
<1>3. z.buffer = b /\ z.current = c /\ z.offset = 0 /\ z.offset + 1 = 1
  OBVIOUS
<1>4. Good(z, units, lg)
  <2>1. z \in [buffer : Seq(Block), current : Nat, offset : Nat]
    BY <1>2
  <2> HIDE DEF z
  <2> QED
    BY <1>1, <1>3, <2>1 DEF Good
<1> HIDE DEF z
<1>5. Good(s, units, lg) /\ Goes(z, s, units) /\ Ended(s, units)
  BY <1>4, AppendEnds DEF z, Calls
<1> DEFINE a == s.buffer
           o == s.offset
           e == s.current
<1>6. o \in Nat /\ e \in Nat /\ o <= L /\ Len(a) <= e
  BY <1>5 DEF Good
<1>7. a \in Seq(Block) /\ BufferOk(a, lg) /\ s = [buffer |-> a, current |-> e, offset |-> o]
  BY <1>5 DEF Good
<1>8. /\ e + Len(b) = c + Len(a)
      /\ Content(a) = Content(b) \o SubSeq(units, 1, o)
      /\ e * D + Room(b) + 0 = c * D + Room(a) + o
  BY <1>3, <1>5 DEF Goes
<1>9. o < L => BufFull(a)
  <2>1. o = L \/ BufFull(a)
    BY <1>5 DEF Ended
  <2> QED
    BY <1>1, <1>6, <2>1
<1>10. a # <<>>
  <2>1. CASE o < L
    <3>1. Len(a) = Blocks
      BY <1>9, <2>1 DEF BufFull
    <3> QED
      BY <1>1, <3>1
  <2>2. CASE ~(o < L)
    <3>1. o = L
      BY <1>1, <1>6, <2>2
    <3>2. SubSeq(units, 1, L) = units
      BY <1>2, SubSeqFull
    <3>3. Len(Content(a)) = Len(Content(b)) + L
      <4>1. Content(b) \in Seq(Unit)
        BY <1>2, ContentType
      <4>2. Content(a) = Content(b) \o units
        BY <1>8, <3>1, <3>2
      <4> QED
        BY <1>2, <4>1, <4>2, ConcatProperties
    <3>4. Len(Content(b)) \in Nat
      BY <1>2, ContentType
    <3>5. Len(Content(a)) # 0
      BY <1>1, <3>3, <3>4
    <3>6. Len(Content(<<>>)) = 0
      BY ContentEmpty
    <3> QED
      BY <3>5, <3>6
  <2> QED
    BY <2>1, <2>2
<1>11. o < L => Full(Last(a))
  BY <1>9 DEF BufFull
<1> DEFINE q == Kept(a)
           y == [buffer |-> q, current |-> e, offset |-> o]
<1>12. /\ BufferOk(q, lg) /\ Room(q) = Room(a) /\ Len(q) = (IF Full(Last(a)) THEN 0 ELSE 1)
       /\ Full(Last(a)) => q = <<>>
  BY <1>7, <1>10, KeptOk
<1>13. t = AppendCLogRecord(y, units)
  <2>1. [s EXCEPT !.buffer = Kept(@)] = y
    BY <1>7
  <2> QED
    BY <2>1 DEF Rest, Calls
<1>14. y.buffer = q /\ y.current = e /\ y.offset = o
  OBVIOUS
<1> HIDE DEF a, o, e, q, L, D
<1>15. Good(y, units, lg)
  <2>1. q \in Seq(Block)
    BY <1>12 DEF BufferOk
  <2>2. y \in [buffer : Seq(Block), current : Nat, offset : Nat]
    BY <1>6, <2>1
  <2> HIDE DEF y
  <2>3. Len(q) <= e
    <3>1. Len(a) \in Nat \ {0}
      BY <1>7, <1>10, EmptySeq
    <3> QED
      BY <1>6, <1>12, <3>1
  <2>4. o = L \/ Room(q) = 0
    <3>1. CASE o < L
      BY <1>11, <1>12, <3>1 DEF Room
    <3>2. CASE ~(o < L)
      BY <1>1, <1>6, <3>2
    <3> QED
      BY <3>1, <3>2
  <2> QED
    BY <1>6, <1>7, <1>12, <1>14, <2>2, <2>3, <2>4 DEF Good, L
<1> HIDE DEF y
<1>16. Good(t, units, lg) /\ Goes(y, t, units) /\ Ended(t, units)
  BY <1>13, <1>15, AppendEnds
<1> DEFINE x == t.buffer
           p == t.offset
           f == t.current
<1>17. p \in Nat /\ f \in Nat /\ p <= L /\ Len(x) <= f
  BY <1>16 DEF Good, L
<1>18. x \in Seq(Block) /\ BufferOk(x, lg)
  BY <1>16 DEF Good
<1>19. o <= p
  BY <1>14, <1>16 DEF Goes
<1>20. /\ f + Len(q) = e + Len(x)
        /\ Content(x) = Content(q) \o SubSeq(units, o + 1, p)
        /\ f * D + Room(q) + o = e * D + Room(x) + p
  BY <1>14, <1>16 DEF Goes, D
<1>21. p = L \/ BufFull(x)
  BY <1>16 DEF Ended, L
<1> HIDE DEF x, p, f
<1>22. p = L
  <2>1. CASE o < L /\ BufFull(x)
    <3>1. q = <<>> /\ Room(q) = 0 /\ Len(q) = 0
      BY <1>11, <1>12, <2>1 DEF Room
    <3>2. Len(x) = Blocks /\ Room(x) = 0
      <4>1. x # <<>>
        BY <1>1, <2>1 DEF BufFull
      <4> QED
        BY <1>18, <2>1, <4>1, LastFull DEF BufFull
    <3>3. f = e + Blocks
      BY <1>1, <1>6, <1>17, <1>20, <3>1, <3>2
    <3>4. f * D = e * D + Blocks * D /\ Blocks * D = D * Blocks /\ e * D \in Nat /\ Blocks * D \in Nat
      BY <1>1, <1>6, <3>3, Times
    <3>5. f * D + o = e * D + p
      <4> DEFINE g == e * D
                 j == f * D
      <4>1. j + 0 + o = g + 0 + p
        BY <1>20, <3>1, <3>2
      <4>2. j \in Nat /\ g \in Nat
        BY <1>1, <1>6, <1>17, Times
      <4> HIDE DEF g, j
      <4>3. j + o = g + p
        BY <1>6, <1>17, <4>1, <4>2
      <4> QED
        BY <4>3 DEF g, j
    <3> DEFINE g == e * D
               h == Blocks * D
               j == f * D
    <3>6. j = g + h /\ g \in Nat /\ h \in Nat /\ j + o = g + p /\ L <= h
      BY <1>1, <3>4, <3>5
    <3> HIDE DEF g, h, j
    <3> QED
      BY <1>1, <1>6, <1>17, <3>6
  <2>2. CASE ~(o < L)
    BY <1>1, <1>6, <1>17, <1>19, <2>2
  <2> QED
    BY <1>21, <2>1, <2>2
<1>23. /\ Room(a) \in Nat /\ Room(a) < D /\ Room(b) \in Nat /\ Room(x) \in Nat /\ Room(x) < D
  BY <1>7, <1>18, RoomType DEF D
<1> DEFINE g == e * D
           h == f * D
           j == c * D
           m == Blocks * D
           n == (c + (Blocks + 1)) * D
<1>24. g \in Nat /\ h \in Nat /\ j \in Nat /\ m \in Nat /\ n = j + (m + D) /\ L <= m
  <2>1. g \in Nat /\ h \in Nat /\ j \in Nat /\ m \in Nat /\ m = D * Blocks
    BY <1>1, <1>6, <1>17, Times
  <2>2. n = j + (Blocks + 1) * D
    BY <1>1, Times
  <2>3. (Blocks + 1) * D = m + 1 * D /\ 1 * D = D
    <3>1. Blocks \in Nat /\ 1 \in Nat /\ D \in Nat
      BY <1>1
    <3> QED
      BY <3>1, Times
  <2> HIDE DEF g, h, j, m, n
  <2> QED
    BY <1>1, <2>1, <2>2, <2>3
<1>25. g + Room(b) + 0 = j + Room(a) + o /\ h + Room(a) + o = g + Room(x) + p
  BY <1>8, <1>12, <1>20 DEF a, o, e, D
<1> HIDE DEF g, h, j, m, n
<1>26. g < n /\ h < n
  <2> DEFINE u == Room(a)
             v == Room(b)
             w == Room(x)
  <2>1. u \in Nat /\ u < D /\ v \in Nat /\ w \in Nat /\ w < D /\ D \in Nat /\ L \in Nat /\ o \in Nat /\ o <= L
    BY <1>1, <1>6, <1>23
  <2>2. g + v = j + u + o /\ h + u + o = g + w + L
    <3>1. g + v + 0 = j + u + o /\ h + u + o = g + w + L
      BY <1>22, <1>25
    <3> HIDE DEF u, v, w
    <3>2. g + v + 0 = g + v
      BY <1>24, <2>1
    <3> QED
      BY <3>1, <3>2
  <2> HIDE DEF u, v, w
  <2>3. h + v = j + w + L
    BY <1>24, <2>1, <2>2
  <2>4. g < n
    BY <1>24, <2>1, <2>2
  <2>5. h < n
    BY <1>24, <2>1, <2>3
  <2> QED
    BY <2>4, <2>5
<1>27. e < c + (Blocks + 1) /\ f < c + (Blocks + 1)
  <2>1. c + (Blocks + 1) \in Nat
    BY <1>1
  <2>2. e * D < (c + (Blocks + 1)) * D /\ f * D < (c + (Blocks + 1)) * D
    BY <1>26 DEF g, h, n
  <2> DEFINE i == c + (Blocks + 1)
  <2> HIDE DEF i
  <2>3. i \in Nat /\ e * D < i * D /\ f * D < i * D
    BY <2>1, <2>2 DEF i
  <2>4. e < i /\ f < i
    BY <1>1, <1>6, <1>17, <2>3, TimesBound
  <2> QED
    BY <2>4 DEF i
<1>28. e <= c + Blocks /\ f <= c + Blocks
  BY <1>1, <1>6, <1>17, <1>27
<1>29. o \in 0 .. L
  BY <1>1, <1>6
<1> QED
  BY <1>6, <1>8, <1>10, <1>11, <1>17, <1>7, <1>18, <1>20, <1>19, <1>22, <1>28, <1>29 DEF AppendFacts, a, o, e, q, x, p, f, L

-----------------------------------------------------------------------------
(* The records of a run. *)

Parts(k, records) == [n \in DOMAIN records |-> UnitsIn(k, n, records[n])]

LEMMA PartsType ==
  ASSUME NEW k \in 1 .. MaxRuns, NEW lg \in Seq(Record), Len(lg) <= MaxRecords
  PROVE  Parts(k, lg) \in Seq(Seq(Unit)) /\ Len(Parts(k, lg)) = Len(lg)
<1> DEFINE m == Len(lg)
           p == Parts(k, lg)
<1>1. m \in Nat /\ DOMAIN lg = 1 .. m /\ \A n \in 1 .. m : lg[n] \in Record
  OBVIOUS
<1>2. MaxRecords \in Nat /\ m <= MaxRecords
  BY SizesAssumption
<1> HIDE DEF m
<1>3. \A n \in 1 .. m : n \in 1 .. MaxRecords
  BY <1>1, <1>2
<1>4. \A n \in 1 .. m : UnitsIn(k, n, lg[n]) \in Seq(Unit)
  BY <1>1, <1>3, UnitsType
<1>5. p \in [1 .. m -> Seq(Unit)]
  BY <1>1, <1>4 DEF Parts
<1> HIDE DEF p
<1>6. p \in Seq(Seq(Unit)) /\ Len(p) = m
  BY <1>1, <1>5
<1> QED
  BY <1>6 DEF p, m

LEMMA AppendedType ==
  ASSUME NEW k \in 1 .. MaxRuns, NEW lg \in Seq(Record), Len(lg) <= MaxRecords
  PROVE  AppendedIn(k, lg) \in Seq(Unit)
BY PartsType, FlattenType DEF AppendedIn, Parts

LEMMA AppendedNothing ==
  ASSUME NEW k
  PROVE  AppendedIn(k, <<>>) = <<>>
<1>1. Parts(k, <<>>) = <<>>
  BY DEF Parts
<1> QED
  BY <1>1, FlattenEmpty DEF AppendedIn, Parts

LEMMA AppendedMore ==
  ASSUME NEW k \in 1 .. MaxRuns, NEW lg \in Seq(Record), Len(lg) < MaxRecords, NEW record \in Record
  PROVE  AppendedIn(k, Append(lg, record)) = AppendedIn(k, lg) \o UnitsIn(k, Len(lg) + 1, record)
<1> DEFINE m == Len(lg)
           l == Append(lg, record)
           u == UnitsIn(k, m + 1, record)
           p == Parts(k, lg)
           q == Parts(k, l)
           r == Append(p, u)
<1>1. m \in Nat /\ l \in Seq(Record) /\ Len(l) = m + 1 /\ l[m + 1] = record /\ \A n \in 1 .. m : l[n] = lg[n]
  OBVIOUS
<1>2. m \in Nat /\ MaxRecords \in Nat /\ m < MaxRecords
  BY SizesAssumption
<1>3. DOMAIN lg = 1 .. m /\ DOMAIN l = 1 .. m + 1
  BY <1>1
<1> HIDE DEF m, l
<1>4. m + 1 \in 1 .. MaxRecords /\ m + 1 <= MaxRecords /\ m <= MaxRecords
  BY <1>2
<1>5. u \in Seq(Unit)
  BY <1>4, UnitsType
<1>6. p \in Seq(Seq(Unit)) /\ Len(p) = m
  BY <1>4, PartsType DEF m
<1>7. q \in Seq(Seq(Unit)) /\ Len(q) = m + 1
  BY <1>1, <1>4, PartsType
<1>8. (\A n \in 1 .. m : p[n] = UnitsIn(k, n, lg[n])) /\ \A n \in 1 .. m + 1 : q[n] = UnitsIn(k, n, l[n])
  BY <1>3 DEF Parts
<1> HIDE DEF p, q, u
<1>9. r \in Seq(Seq(Unit)) /\ Len(r) = m + 1 /\ r[m + 1] = u /\ \A n \in 1 .. m : r[n] = p[n]
  BY <1>5, <1>6
<1> HIDE DEF r
<1>10. ASSUME NEW n \in 1 .. m + 1 PROVE q[n] = r[n]
  <2>1. CASE n \in 1 .. m
    BY <1>1, <1>8, <1>9, <2>1
  <2>2. CASE n = m + 1
    BY <1>1, <1>8, <1>9, <2>2 DEF u
  <2> QED
    BY <1>2, <2>1, <2>2
<1>11. q = r
  BY <1>7, <1>9, <1>10, SeqEqual
<1>12. FlattenSeq(r) = FlattenSeq(p) \o u
  BY <1>5, <1>6, FlattenAppend DEF r
<1>13. AppendedIn(k, l) = FlattenSeq(q) /\ AppendedIn(k, lg) = FlattenSeq(p)
  BY DEF AppendedIn, Parts, p, q
<1> QED
  BY <1>11, <1>12, <1>13 DEF u, m, l

LEMMA AppendedOfRun ==
  ASSUME NEW k \in 1 .. MaxRuns, NEW lg \in Seq(Record), Len(lg) <= MaxRecords,
         NEW u \in ToSet(AppendedIn(k, lg))
  PROVE  u \in Unit /\ u[1] = k
<1> DEFINE p == Parts(k, lg)
           m == Len(lg)
<1>1. p \in Seq(Seq(Unit)) /\ Len(p) = m
  BY PartsType
<1>2. PICK i \in 1 .. m : u \in ToSet(p[i])
  BY <1>1, InFlattened DEF AppendedIn, Parts
<1>3. p[i] = UnitsIn(k, i, lg[i]) /\ lg[i] \in Record
  BY DEF Parts
<1>4. i \in 1 .. MaxRecords
  <2>1. m \in Nat /\ MaxRecords \in Nat /\ m <= MaxRecords
    BY SizesAssumption
  <2> HIDE DEF m
  <2> QED
    BY <2>1
<1> HIDE DEF p, m
<1>5. p[i] \in Seq(Unit) /\ Len(p[i]) = lg[i].len /\ \A j \in 1 .. lg[i].len : p[i][j] = <<k, i, j>>
  BY <1>3, <1>4, UnitsType
<1>6. PICK j \in 1 .. Len(p[i]) : u = p[i][j]
  BY <1>2, <1>5 DEF ToSet
<1>7. u = <<k, i, j>> /\ u \in Unit
  BY <1>5, <1>6
<1> QED
  BY <1>7

-----------------------------------------------------------------------------
(* The file: it has the beginning of the records, up to the block w, then    *)
(* the blocks the run found.                                                 *)

UpTo(f, w, k, lg, found) ==
  /\ w \in 0 .. Len(f)
  /\ IsPrefix(Content(SubSeq(f, 1, w)), AppendedIn(k, lg))
  /\ Len(found) >= Len(f) \/ w >= Len(found)
  /\ \A i \in w + 1 .. Len(f) : i \in DOMAIN found /\ f[i] = found[i]

LEMMA WriteUpTo ==
  ASSUME NEW f \in Seq(Block), NEW at \in Nat \ {0}, NEW b \in Seq(Block), b # <<>>,
         NEW found \in Seq(Block), NEW k, NEW lg, NEW l, NEW w, UpTo(f, w, k, lg, found),
         w <= at, at <= Len(f) + 1,
         IsPrefix(Content(SubSeq(f, 1, at - 1)) \o Content(b), AppendedIn(k, l))
  PROVE  /\ UpTo(Written(f, at, b), at + Len(b) - 1, k, l, found)
         /\ Content(SubSeq(Written(f, at, b), 1, at + Len(b) - 1))
              = Content(SubSeq(f, 1, at - 1)) \o Content(b)
<1> DEFINE m == Len(f)
           n == Len(b)
           h == Len(found)
           e == at + n - 1
           v == Written(f, at, b)
           a == SubSeq(f, 1, at - 1)
<1>1. m \in Nat /\ h \in Nat /\ at <= m + 1 /\ w <= at /\ at \in Nat /\ at > 0
  OBVIOUS
<1>2. n \in Nat \ {0}
  BY EmptySeq
<1>3. w \in 0 .. m /\ (h >= m \/ w >= h) /\ \A i \in w + 1 .. m : i \in DOMAIN found /\ f[i] = found[i]
  BY DEF UpTo
<1>4. IsWritten(v, f, m, at, b, n)
  BY WrittenShape
<1>5. SubSeq(v, 1, e) = a \o b
  BY WrittenFront
<1>6. a \in Seq(Block)
  <2>1. at - 1 \in 0 .. Len(f)
    BY <1>1
  <2> QED
    BY <2>1, Cut
<1> HIDE DEF m, n, v, h
<1>7. Content(SubSeq(v, 1, e)) = Content(a) \o Content(b)
  BY <1>5, <1>6, ContentConcat
<1>8. Len(v) = (IF m >= at + n THEN m ELSE e) /\ Len(v) \in Nat
  BY <1>4 DEF IsWritten, WrittenLen
<1>9. e \in 0 .. Len(v) /\ w <= e
  <2> DEFINE z == Len(v)
  <2>1. z = (IF m >= at + n THEN m ELSE at + n - 1) /\ z \in Nat /\ w \in Nat
    BY <1>3, <1>8
  <2> HIDE DEF z
  <2>2. at + n - 1 \in 0 .. z
    BY <1>1, <1>2, <2>1
  <2>3. w <= at + n - 1
    BY <1>1, <1>2, <2>1
  <2> QED
    BY <2>2, <2>3 DEF z
<1>10. h >= Len(v) \/ e >= h
  BY <1>1, <1>2, <1>3, <1>8, <1>9
<1>11. ASSUME NEW i \in e + 1 .. Len(v) PROVE i \in DOMAIN found /\ v[i] = found[i]
  <2>1. i \in w + 1 .. m /\ i \notin at .. at + n - 1 /\ i \in 1 .. m /\ i \in 1 .. WrittenLen(m, at, n)
    BY <1>1, <1>2, <1>3, <1>8, <1>9 DEF WrittenLen
  <2>2. v[i] = BlockAt(i, f, m, at, b, n)
    BY <1>4, <2>1 DEF IsWritten
  <2>3. v[i] = f[i]
    BY <2>1, <2>2 DEF BlockAt
  <2> QED
    BY <1>3, <2>1, <2>3
<1>12. UpTo(v, e, k, l, found)
  BY <1>7, <1>9, <1>10, <1>11 DEF UpTo, h
<1> QED
  BY <1>7, <1>12 DEF v, n

LEMMA UpToGrows ==
  ASSUME NEW f \in Seq(Block), NEW found, NEW w, NEW k \in 1 .. MaxRuns,
         NEW lg \in Seq(Record), Len(lg) < MaxRecords, NEW record \in Record, UpTo(f, w, k, lg, found)
  PROVE  UpTo(f, w, k, Append(lg, record), found)
<1> DEFINE a == AppendedIn(k, lg)
           c == Content(SubSeq(f, 1, w))
           u == UnitsIn(k, Len(lg) + 1, record)
<1>1. w \in 0 .. Len(f) /\ IsPrefix(c, a)
  BY DEF UpTo
<1>2. AppendedIn(k, Append(lg, record)) = a \o u
  BY AppendedMore
<1>3. a \in Seq(Unit) /\ u \in Seq(Unit)
  <2> DEFINE m == Len(lg)
  <2>1. m \in Nat /\ m < MaxRecords /\ MaxRecords \in Nat
    BY SizesAssumption
  <2> HIDE DEF m
  <2>2. m <= MaxRecords /\ m + 1 \in 1 .. MaxRecords
    BY <2>1
  <2>3. Len(lg) <= MaxRecords /\ Len(lg) + 1 \in 1 .. MaxRecords
    BY <2>2 DEF m
  <2>4. a \in Seq(Unit)
    BY <2>3, AppendedType
  <2>5. u \in Seq(Unit)
    BY <2>3, UnitsType
  <2> QED
    BY <2>4, <2>5
<1>4. c \in Seq(Unit)
  <2>1. SubSeq(f, 1, w) \in Seq(Block)
    BY <1>1, Cut
  <2> QED
    BY <2>1, ContentType
<1> HIDE DEF a, c, u
<1>5. IsPrefix(c, a \o u)
  BY <1>1, <1>3, <1>4, PrefixExtends
<1> QED
  BY <1>2, <1>5 DEF UpTo, c

\* a block kept in the buffer is also the last of those in the file
KeptLast(v, e, b) ==
  /\ e - Len(Kept(b)) \in 0 .. e
  /\ Content(SubSeq(v, 1, e - Len(Kept(b)))) \o Content(Kept(b)) = Content(SubSeq(v, 1, e))

LEMMA KeptIsLast ==
  ASSUME NEW f \in Seq(Block), NEW at \in Nat \ {0}, NEW b \in Seq(Block), b # <<>>, at <= Len(f) + 1,
         NEW e, e = at + Len(b) - 1, NEW v, v = Written(f, at, b)
  PROVE  KeptLast(v, e, b)
<1> DEFINE m == Len(f)
           n == Len(b)
           l == Last(b)
<1>1. m \in Nat /\ at <= m + 1 /\ at \in Nat /\ at > 0
  OBVIOUS
<1>2. n \in Nat \ {0} /\ l = b[n] /\ l \in Block
  BY LastFull
<1>3. IsWritten(v, f, m, at, b, n)
  BY WrittenShape
<1>4. e = at + n - 1
  OBVIOUS
<1> HIDE DEF m, n, l
<1>5. e \in Nat \ {0} /\ v \in Seq(Block) /\ e <= Len(v) /\ Len(v) \in Nat
  <2>1. v \in Seq(Block) /\ Len(v) = WrittenLen(m, at, n) /\ WrittenLen(m, at, n) \in Nat
    BY <1>3 DEF IsWritten
  <2>2. e \in Nat \ {0} /\ e <= WrittenLen(m, at, n)
    BY <1>1, <1>2, <1>4 DEF WrittenLen
  <2> QED
    BY <2>1, <2>2
<1>6. v[e] = l
  <2>1. e \in 1 .. WrittenLen(m, at, n) /\ e \in at .. at + n - 1 /\ e - at + 1 = n
    BY <1>1, <1>2, <1>4 DEF WrittenLen
  <2> QED
    BY <1>2, <1>3, <2>1 DEF IsWritten, BlockAt
<1>7. CASE Full(l)
  <2>1. Kept(b) = <<>> /\ Len(Kept(b)) = 0
    BY <1>7 DEF Kept, l
  <2>2. SubSeq(v, 1, e) \in Seq(Block)
    <3>1. e \in 0 .. Len(v)
      BY <1>5
    <3> QED
      BY <1>5, <3>1, Cut
  <2>3. Content(SubSeq(v, 1, e)) \o <<>> = Content(SubSeq(v, 1, e))
    BY <2>2, ContentType, ConcatEmptySeq
  <2>4. e - 0 = e /\ e \in 0 .. e
    BY <1>5
  <2> QED
    BY <2>1, <2>3, <2>4, ContentEmpty DEF KeptLast
<1>8. CASE ~Full(l)
  <2> DEFINE g == SubSeq(v, 1, e - 1)
             h == SubSeq(v, 1, e)
  <2>1. Kept(b) = <<l>> /\ Len(Kept(b)) = 1
    BY <1>8 DEF Kept, l
  <2>2. e - 1 \in 0 .. Len(v) /\ e \in 0 .. Len(v) /\ e - 1 \in 0 .. e
    BY <1>5
  <2>3. /\ g \in Seq(Block) /\ Len(g) = e - 1 /\ \A i \in 1 .. e - 1 : g[i] = v[i]
        /\ h \in Seq(Block) /\ Len(h) = e /\ \A i \in 1 .. e : h[i] = v[i]
    BY <1>5, <2>2, Cut
  <2> HIDE DEF g, h
  <2> DEFINE r == Append(g, l)
             z == e - 1
  <2>4. z \in Nat /\ e = z + 1
    BY <1>5
  <2> HIDE DEF z
  <2>5. r \in Seq(Block) /\ Len(r) = z + 1 /\ r[z + 1] = l /\ \A i \in 1 .. z : r[i] = g[i]
    <3>1. g \in Seq(Block) /\ Len(g) = z
      BY <2>3 DEF z
    <3> QED
      BY <1>2, <2>4, <3>1
  <2>6. ASSUME NEW i \in 1 .. e PROVE h[i] = r[i]
    <3>1. CASE i = e
      BY <1>6, <2>3, <2>4, <2>5, <3>1
    <3>2. CASE i # e
      <4>1. i \in 1 .. z
        BY <2>4, <3>2
      <4> QED
        BY <2>3, <2>5, <4>1 DEF z
    <3> QED
      BY <3>1, <3>2
  <2> HIDE DEF r
  <2>7. h = r
    BY <2>3, <2>4, <2>5, <2>6, SeqEqual
  <2>8. Content(h) = Content(g) \o l.data
    BY <1>2, <2>3, <2>7, ContentAppend DEF r
  <2>9. Content(<<l>>) = l.data
    <3> DEFINE y == <<>>
    <3>1. y \in Seq(Block)
      OBVIOUS
    <3>2. Append(y, l) = <<l>>
      BY <1>2
    <3>3. Content(y) = <<>>
      BY ContentEmpty
    <3> HIDE DEF y
    <3>4. Content(Append(y, l)) = Content(y) \o l.data
      BY <1>2, <3>1, ContentAppend
    <3>5. l.data \in Seq(Unit)
      BY <1>2 DEF Block
    <3>6. <<>> \o l.data = l.data
      BY <3>5, ConcatEmptySeq
    <3> QED
      BY <3>2, <3>3, <3>4, <3>6
  <2> QED
    BY <2>1, <2>2, <2>8, <2>9 DEF g, h, KeptLast
<1> QED
  BY <1>7, <1>8

-----------------------------------------------------------------------------
(* What AppendRecord does to the log of a running server. *)

StateOk(b, c, lg, k, f, w, found, prom) ==
  /\ BufferOk(b, lg) /\ c \in Nat /\ Len(b) <= c
  /\ c - Len(b) <= w /\ w <= c - Len(b) + 1
  /\ \A i \in 1 .. c - Len(b) : Full(f[i])
  /\ Content(SubSeq(f, 1, c - Len(b))) \o Content(b) = AppendedIn(k, lg)
  /\ UpTo(f, w, k, lg, found)
  /\ \A u \in prom : u[1] = k => u \in ToSet(Content(SubSeq(f, 1, w)))

\* the record appended to the log of a run
Appends(lg, l, k, record, units) ==
  /\ lg \in Seq(Record) /\ Len(lg) < MaxRecords /\ record \in Record
  /\ k \in 1 .. MaxRuns
  /\ l = Append(lg, record) /\ units = UnitsIn(k, Len(lg) + 1, record)

LEMMA AppendsOf ==
  ASSUME NEW lg, NEW l, NEW k, NEW record, NEW units, Appends(lg, l, k, record, units)
  PROVE  /\ OfRecord(l, k, record, units)
         /\ units \in Seq(Unit) /\ AppendedIn(k, lg) \in Seq(Unit) /\ AppendedIn(k, l) \in Seq(Unit)
         /\ AppendedIn(k, l) = AppendedIn(k, lg) \o units
<1> DEFINE m == Len(lg)
<1>1. lg \in Seq(Record) /\ record \in Record /\ k \in 1 .. MaxRuns
  BY DEF Appends
<1>2. m < MaxRecords /\ l = Append(lg, record) /\ units = UnitsIn(k, m + 1, record)
  BY DEF Appends
<1>3. l \in Seq(Record) /\ Len(l) = m + 1 /\ l[m + 1] = record /\ m \in Nat
  BY <1>1, <1>2
<1> HIDE DEF m
<1>4. m + 1 \in 1 .. MaxRecords /\ m <= MaxRecords /\ m + 1 <= MaxRecords
  BY <1>2, <1>3, SizesAssumption
<1>5. OfRecord(l, k, record, units)
  BY <1>1, <1>2, <1>3, <1>4 DEF OfRecord
<1>6. units \in Seq(Unit)
  BY <1>1, <1>2, <1>4, UnitsType
<1>7. AppendedIn(k, lg) \in Seq(Unit)
  BY <1>1, <1>4, AppendedType DEF m
<1>8. AppendedIn(k, l) \in Seq(Unit)
  BY <1>1, <1>3, <1>4, AppendedType
<1>9. AppendedIn(k, l) = AppendedIn(k, lg) \o units
  BY <1>1, <1>2, AppendedMore DEF m
<1> QED
  BY <1>5, <1>6, <1>7, <1>8, <1>9

LEMMA BufferGrows ==
  ASSUME NEW lg, NEW l, NEW k, NEW record, NEW units, Appends(lg, l, k, record, units),
         NEW b, BufferOk(b, lg)
  PROVE  BufferOk(b, l)
<1>1. \A i \in 1 .. Len(b) : BlockOk(b[i], lg)
  BY DEF BufferOk
<1>2. lg \in Seq(Record) /\ record \in Record /\ l = Append(lg, record)
  BY DEF Appends
<1>3. \A i \in 1 .. Len(b) : BlockOk(b[i], l)
  BY <1>1, <1>2, BlockGrows
<1> QED
  BY <1>3 DEF BufferOk

\* the blocks x of the file and y of the buffer, with the units up to o
Spells(x, y, units, o, k, lg, l) ==
  /\ x \o (y \o SubSeq(units, 1, o)) = AppendedIn(k, lg) \o SubSeq(units, 1, o)
  /\ IsPrefix(x \o (y \o SubSeq(units, 1, o)), AppendedIn(k, l))
  /\ (x \o (y \o SubSeq(units, 1, o))) \o SubSeq(units, o + 1, Len(units)) = AppendedIn(k, l)
  /\ o = Len(units) => x \o (y \o SubSeq(units, 1, o)) = AppendedIn(k, l)

LEMMA Spelled ==
  ASSUME NEW lg, NEW l, NEW k, NEW record, NEW units, Appends(lg, l, k, record, units),
         NEW x \in Seq(Unit), NEW y \in Seq(Unit), x \o y = AppendedIn(k, lg),
         NEW o, o \in 0 .. Len(units)
  PROVE  Spells(x, y, units, o, k, lg, l)
<1> DEFINE p == SubSeq(units, 1, o)
           q == SubSeq(units, o + 1, Len(units))
           a == AppendedIn(k, lg)
           z == x \o (y \o p)
<1>1. units \in Seq(Unit) /\ a \in Seq(Unit) /\ AppendedIn(k, l) = a \o units
  BY AppendsOf
<1>2. p \in Seq(Unit) /\ q \in Seq(Unit) /\ units = p \o q
  BY <1>1, Cut
<1>3. o = Len(units) => p = units
  BY <1>1, SubSeqFull
<1> HIDE DEF p, q, a
<1>4. (x \o y) \o p = x \o (y \o p)
  BY <1>2, ConcatThree
<1>5. x \o y = a
  BY DEF a
<1>6. z = a \o p
  BY <1>4, <1>5
<1>7. (a \o p) \o q = a \o (p \o q)
  BY <1>1, <1>2, ConcatThree
<1>8. z \o q = AppendedIn(k, l)
  BY <1>1, <1>2, <1>6, <1>7
<1>9. z \in Seq(Unit)
  BY <1>1, <1>2, <1>6, ConcatProperties
<1> HIDE DEF z
<1>10. IsPrefix(z, z \o q)
  BY <1>2, <1>9, ConcatStarts
<1>11. IsPrefix(z, AppendedIn(k, l))
  BY <1>8, <1>10
<1>12. o = Len(units) => z = AppendedIn(k, l)
  BY <1>1, <1>3, <1>6
<1> QED
  BY <1>6, <1>8, <1>11, <1>12 DEF z, p, q, a, Spells

LEMMA KeepsInBuffer ==
  ASSUME NEW lg, NEW l, NEW k, NEW record, NEW units, Appends(lg, l, k, record, units),
         NEW b, NEW c, NEW f \in Seq(Block), NEW w, NEW found, NEW prom, StateOk(b, c, lg, k, f, w, found, prom),
         NEW s, NEW t, AppendFacts(b, c, l, units, s, t), s.offset = Len(units)
  PROVE  StateOk(s.buffer, s.current, l, k, f, w, found, prom)
<1> DEFINE g == c - Len(b)
           a == s.buffer
           e == s.current
           n == Len(a)
           m == Len(b)
<1>1. /\ BufferOk(a, l) /\ e \in Nat /\ n <= e
      /\ Content(a) = Content(b) \o SubSeq(units, 1, s.offset) /\ s.offset \in 0 .. Len(units)
  BY DEF AppendFacts
<1>2. e + m = c + n
  BY DEF AppendFacts
<1>3. c \in Nat /\ m <= c /\ BufferOk(b, lg)
  BY DEF StateOk
<1>4. m \in Nat /\ n \in Nat
  <2>1. b \in Seq(Block) /\ a \in Seq(Block)
    BY <1>1, <1>3 DEF BufferOk
  <2> QED
    BY <2>1
<1>5. e - n = g
  <2> HIDE DEF n, m, e
  <2> QED
    BY <1>1, <1>2, <1>3, <1>4 DEF m
<1>6. UpTo(f, w, k, l, found)
  <2>1. UpTo(f, w, k, lg, found)
    BY DEF StateOk
  <2> QED
    BY <2>1, UpToGrows DEF Appends
<1>7. g \in 0 .. Len(f)
  <2>1. g <= w /\ w \in 0 .. Len(f)
    BY <1>3 DEF StateOk, UpTo
  <2>2. g \in Nat
    BY <1>3, <1>4
  <2> HIDE DEF g
  <2> QED
    BY <2>1, <2>2
<1> DEFINE x == Content(SubSeq(f, 1, g))
           y == Content(b)
<1>8. x \in Seq(Unit) /\ y \in Seq(Unit) /\ x \o y = AppendedIn(k, lg)
  <2>1. b \in Seq(Block) /\ SubSeq(f, 1, g) \in Seq(Block)
    BY <1>3, <1>7, Cut DEF BufferOk
  <2>2. x \o y = AppendedIn(k, lg)
    BY DEF StateOk
  <2> QED
    BY <2>1, <2>2, ContentType
<1>9. x \o Content(a) = AppendedIn(k, l)
  <2> DEFINE o == s.offset
  <2>1. o \in 0 .. Len(units) /\ o = Len(units) /\ Content(a) = y \o SubSeq(units, 1, o)
    BY <1>1
  <2> HIDE DEF x, y, a, o
  <2>2. Spells(x, y, units, o, k, lg, l)
    BY <1>8, <2>1, Spelled
  <2>3. x \o (y \o SubSeq(units, 1, o)) = AppendedIn(k, l)
    BY <2>1, <2>2 DEF Spells
  <2> QED
    BY <2>1, <2>3
<1>10. /\ g <= w /\ w <= g + 1
       /\ \A i \in 1 .. g : Full(f[i])
       /\ \A u \in prom : u[1] = k => u \in ToSet(Content(SubSeq(f, 1, w)))
  BY DEF StateOk
<1> HIDE DEF g
<1> QED
  BY <1>1, <1>5, <1>6, <1>9, <1>10 DEF StateOk

-----------------------------------------------------------------------------
(* The flush of the buffer s.buffer to the blocks from at onwards: v is the  *)
(* file with all of it.                                                      *)

Flushing(lg, l, k, record, units, b, c, f, w, found, prom, s, t, at, v) ==
  /\ Appends(lg, l, k, record, units) /\ f \in Seq(Block) /\ found \in Seq(Block)
  /\ StateOk(b, c, lg, k, f, w, found, prom) /\ AppendFacts(b, c, l, units, s, t)
  /\ at = s.current - Len(s.buffer) + 1 /\ v = Written(f, at, s.buffer)

LEMMA FlushPlace ==
  ASSUME NEW lg, NEW l, NEW k, NEW record, NEW units, NEW b, NEW c, NEW f, NEW w, NEW found, NEW prom,
         NEW s, NEW t, NEW at, NEW v, Flushing(lg, l, k, record, units, b, c, f, w, found, prom, s, t, at, v)
  PROVE  /\ at \in Nat \ {0} /\ at <= Len(f) + 1 /\ w <= at /\ at <= w + 1 /\ at - 1 \in 0 .. Len(f)
         /\ s.current = at + Len(s.buffer) - 1 /\ at - 1 = c - Len(b)
         /\ s.buffer \in Seq(Block) /\ s.buffer # <<>> /\ Len(s.buffer) \in Nat \ {0} /\ b \in Seq(Block)
<1> DEFINE n == Len(s.buffer)
           e == s.current
           m == Len(b)
           h == Len(f)
<1>1. /\ e \in Nat /\ n <= e /\ e + m = c + n /\ at = e - n + 1
      /\ c \in Nat /\ m <= c /\ c - m <= w /\ w <= c - m + 1
  BY DEF Flushing, AppendFacts, StateOk
<1>2. /\ s.buffer \in Seq(Block) /\ s.buffer # <<>> /\ b \in Seq(Block) /\ f \in Seq(Block)
  BY DEF Flushing, AppendFacts, StateOk, BufferOk
<1>3. n \in Nat \ {0} /\ m \in Nat /\ h \in Nat
  BY <1>2, EmptySeq
<1>4. w \in 0 .. h
  BY DEF Flushing, StateOk, UpTo
<1> HIDE DEF n, e, m, h
<1>5. at = c - m + 1
  BY <1>1, <1>3
<1>6. at \in Nat \ {0} /\ at - 1 = c - m /\ e = at + n - 1
  BY <1>1, <1>3, <1>5
<1>7. w <= at /\ at <= w + 1 /\ at <= h + 1 /\ at - 1 \in 0 .. h
  BY <1>1, <1>3, <1>4, <1>5, <1>6
<1> QED
  BY <1>2, <1>3, <1>6, <1>7 DEF n, e, m, h

\* what the blocks x before at, those of the buffer b and the record spell
FlushSpelled(x, b, s, units, k, lg, l) ==
  /\ x \in Seq(Unit) /\ Content(b) \in Seq(Unit) /\ x \o Content(b) = AppendedIn(k, lg)
  /\ s.offset \in 0 .. Len(units) /\ Content(s.buffer) = Content(b) \o SubSeq(units, 1, s.offset)
  /\ Spells(x, Content(b), units, s.offset, k, lg, l)

LEMMA FlushSpells ==
  ASSUME NEW lg, NEW l, NEW k, NEW record, NEW units, NEW b, NEW c, NEW f, NEW w, NEW found, NEW prom,
         NEW s, NEW t, NEW at, NEW v, Flushing(lg, l, k, record, units, b, c, f, w, found, prom, s, t, at, v),
         NEW x, x = Content(SubSeq(f, 1, at - 1))
  PROVE  FlushSpelled(x, b, s, units, k, lg, l)
<1>1. at - 1 \in 0 .. Len(f) /\ at - 1 = c - Len(b) /\ b \in Seq(Block)
  BY FlushPlace
<1>2. f \in Seq(Block)
  BY DEF Flushing
<1>3. SubSeq(f, 1, at - 1) \in Seq(Block)
  BY <1>1, <1>2, Cut
<1> DEFINE y == Content(b)
           o == s.offset
<1>4. x \in Seq(Unit) /\ y \in Seq(Unit)
  BY <1>1, <1>3, ContentType
<1>5. Content(SubSeq(f, 1, c - Len(b))) \o Content(b) = AppendedIn(k, lg)
  BY DEF Flushing, StateOk
<1>6. x \o y = AppendedIn(k, lg)
  BY <1>1, <1>5
<1>7. o \in 0 .. Len(units) /\ Content(s.buffer) = y \o SubSeq(units, 1, o)
  BY DEF Flushing, AppendFacts
<1>8. Appends(lg, l, k, record, units)
  BY DEF Flushing
<1> HIDE DEF y, o
<1>9. Spells(x, y, units, o, k, lg, l)
  BY <1>4, <1>6, <1>7, <1>8, Spelled
<1> QED
  BY <1>4, <1>6, <1>7, <1>9 DEF y, o, FlushSpelled

\* the file with the whole buffer
LEMMA FlushWrites ==
  ASSUME NEW lg, NEW l, NEW k, NEW record, NEW units, NEW b, NEW c, NEW f, NEW w, NEW found, NEW prom,
         NEW s, NEW t, NEW at, NEW v, Flushing(lg, l, k, record, units, b, c, f, w, found, prom, s, t, at, v),
         NEW x, x = Content(SubSeq(f, 1, at - 1))
  PROVE  /\ UpTo(v, s.current, k, l, found)
         /\ Content(SubSeq(v, 1, s.current)) = x \o Content(s.buffer)
         /\ s.current - Len(Kept(s.buffer)) \in 0 .. s.current
         /\ Content(SubSeq(v, 1, s.current - Len(Kept(s.buffer)))) \o Content(Kept(s.buffer))
              = x \o Content(s.buffer)
<1> DEFINE a == s.buffer
           e == s.current
           o == s.offset
<1>1. /\ at \in Nat \ {0} /\ at <= Len(f) + 1 /\ w <= at
      /\ e = at + Len(a) - 1 /\ a \in Seq(Block) /\ a # <<>>
  BY FlushPlace
<1>2. f \in Seq(Block) /\ found \in Seq(Block) /\ v = Written(f, at, a) /\ UpTo(f, w, k, lg, found)
  BY DEF Flushing, StateOk
<1>3. FlushSpelled(x, b, s, units, k, lg, l)
  BY FlushSpells
<1>4. Content(a) = Content(b) \o SubSeq(units, 1, o) /\ Spells(x, Content(b), units, o, k, lg, l)
  BY <1>3 DEF FlushSpelled
<1> HIDE DEF a, e, o
<1>5. IsPrefix(x \o Content(a), AppendedIn(k, l))
  BY <1>4 DEF Spells
<1>6. UpTo(v, e, k, l, found) /\ Content(SubSeq(v, 1, e)) = x \o Content(a)
  BY <1>1, <1>2, <1>5, WriteUpTo
<1>7. KeptLast(v, e, a)
  BY <1>1, <1>2, KeptIsLast
<1> QED
  BY <1>6, <1>7 DEF a, e, KeptLast

\* all blocks that are not kept in the buffer are full
LEMMA FlushFull ==
  ASSUME NEW lg, NEW l, NEW k, NEW record, NEW units, NEW b, NEW c, NEW f, NEW w, NEW found, NEW prom,
         NEW s, NEW t, NEW at, NEW v, Flushing(lg, l, k, record, units, b, c, f, w, found, prom, s, t, at, v),
         NEW i, i \in 1 .. s.current - Len(Kept(s.buffer))
  PROVE  Full(v[i])
<1> DEFINE a == s.buffer
           n == Len(a)
           e == s.current
           m == Len(f)
           g == e - Len(Kept(a))
<1>1. /\ at \in Nat \ {0} /\ at <= m + 1 /\ at - 1 = c - Len(b)
      /\ e = at + n - 1 /\ a \in Seq(Block) /\ a # <<>> /\ n \in Nat \ {0}
  BY FlushPlace
<1>2. /\ f \in Seq(Block) /\ v = Written(f, at, a) /\ BufferOk(a, l)
      /\ \A j \in 1 .. c - Len(b) : Full(f[j])
  BY DEF Flushing, StateOk, AppendFacts
<1>3. m \in Nat /\ IsWritten(v, f, m, at, a, n)
  BY <1>1, <1>2, WrittenShape
<1>4. Len(Kept(a)) = (IF Full(Last(a)) THEN 0 ELSE 1) /\ Last(a) = a[n]
  BY <1>1, <1>2, KeptOk, LastFull
<1>5. \A j \in 1 .. n - 1 : Full(a[j])
  BY <1>2 DEF BufferOk
<1>6. g = e - Len(Kept(a)) /\ i \in 1 .. g
  OBVIOUS
<1>7. \A j \in 1 .. at - 1 : Full(f[j])
  BY <1>1, <1>2
<1> HIDE DEF a, n, e, m, g
<1>8. g = (IF Full(Last(a)) THEN e ELSE e - 1)
  BY <1>1, <1>4, <1>6
<1>9. i \in Nat /\ i >= 1 /\ i <= e /\ i \in 1 .. WrittenLen(m, at, n)
  BY <1>1, <1>3, <1>6, <1>8 DEF WrittenLen
<1>10. v[i] = BlockAt(i, f, m, at, a, n)
  BY <1>3, <1>9 DEF IsWritten
<1>11. CASE i < at
  <2>1. i \notin at .. at + n - 1 /\ i \in 1 .. m /\ i \in 1 .. at - 1
    BY <1>1, <1>3, <1>9, <1>11
  <2> QED
    BY <1>7, <1>10, <2>1 DEF BlockAt
<1>12. CASE i >= at
  <2>1. i \in at .. at + n - 1
    BY <1>1, <1>9, <1>12
  <2>2. v[i] = a[i - at + 1]
    BY <1>10, <2>1 DEF BlockAt
  <2>3. CASE i < e
    <3>1. i - at + 1 \in 1 .. n - 1
      BY <1>1, <1>9, <1>12, <2>3
    <3> QED
      BY <1>5, <2>2, <3>1
  <2>4. CASE ~(i < e)
    <3>1. i = e /\ i - at + 1 = n
      BY <1>1, <1>9, <2>4
    <3>2. Full(Last(a))
      BY <1>1, <1>6, <1>8, <3>1
    <3> QED
      BY <1>4, <2>2, <3>1, <3>2
  <2> QED
    BY <2>3, <2>4
<1> QED
  BY <1>1, <1>9, <1>11, <1>12

\* a unit that was there is there
LEMMA FlushKeeps ==
  ASSUME NEW lg, NEW l, NEW k, NEW record, NEW units, NEW b, NEW c, NEW f, NEW w, NEW found, NEW prom,
         NEW s, NEW t, NEW at, NEW v, Flushing(lg, l, k, record, units, b, c, f, w, found, prom, s, t, at, v),
         NEW x, x = Content(SubSeq(f, 1, at - 1)), NEW u \in ToSet(Content(SubSeq(f, 1, w)))
  PROVE  u \in ToSet(x \o Content(s.buffer))
<1> DEFINE y == Content(b)
           o == s.offset
           p == SubSeq(units, 1, o)
           z == Content(SubSeq(f, 1, w))
           q == AppendedIn(k, lg)
<1>1. /\ x \in Seq(Unit) /\ y \in Seq(Unit) /\ x \o y = q
      /\ o \in 0 .. Len(units) /\ Content(s.buffer) = y \o p
      /\ Spells(x, y, units, o, k, lg, l)
  <2>1. FlushSpelled(x, b, s, units, k, lg, l)
    BY FlushSpells
  <2> QED
    BY <2>1 DEF FlushSpelled
<1>2. /\ units \in Seq(Unit) /\ q \in Seq(Unit)
  BY AppendsOf DEF Flushing
<1>3. p \in Seq(Unit)
  BY <1>1, <1>2, Cut
<1>4. IsPrefix(z, q) /\ z \in Seq(Unit) /\ u \in ToSet(z)
  <2>1. w \in 0 .. Len(f) /\ IsPrefix(z, q) /\ f \in Seq(Block)
    BY DEF Flushing, StateOk, UpTo
  <2>2. SubSeq(f, 1, w) \in Seq(Block)
    BY <2>1, Cut
  <2> QED
    BY <2>1, <2>2, ContentType
<1>5. x \o (y \o p) = q \o p
  BY <1>1 DEF Spells
<1> HIDE DEF y, o, p, z, q
<1>6. PICK d \in Seq(Unit) : q = z \o d
  BY <1>2, <1>4, PrefixGoesOn
<1>7. u \in ToSet(q)
  BY <1>4, <1>6, ConcatSet
<1>8. u \in ToSet(q \o p)
  BY <1>2, <1>3, <1>7, ConcatSet
<1> QED
  BY <1>1, <1>5, <1>8

\* all that has been appended when the whole record is in the buffer
LEMMA FlushesBuffer ==
  ASSUME NEW lg, NEW l, NEW k, NEW record, NEW units, NEW b, NEW c, NEW f, NEW w, NEW found, NEW prom,
         NEW s, NEW t, NEW at, NEW v, Flushing(lg, l, k, record, units, b, c, f, w, found, prom, s, t, at, v),
         NEW new, new = prom \/ (s.offset = Len(units) /\ new = prom \cup ToSet(AppendedIn(k, l)))
  PROVE  StateOk(t.buffer, t.current, l, k, v, s.current, found, new)
<1> DEFINE x == Content(SubSeq(f, 1, at - 1))
           a == s.buffer
           e == s.current
           o == s.offset
           r == t.buffer
           q == Kept(a)
           g == e - Len(q)
           h == t.current
           p == Content(SubSeq(v, 1, g))
           y == SubSeq(units, o + 1, Len(units))
           all == AppendedIn(k, l)
<1>1. UpTo(v, e, k, l, found) /\ Content(SubSeq(v, 1, e)) = x \o Content(a)
  BY FlushWrites
<1>2. g \in 0 .. e /\ p \o Content(q) = x \o Content(a)
  BY FlushWrites
<1>3. \A i \in 1 .. g : Full(v[i])
  BY FlushFull
<1>4. /\ BufferOk(r, l) /\ h \in Nat /\ Len(r) <= h /\ h + Len(q) = e + Len(r)
      /\ Content(r) = Content(q) \o y
      /\ a # <<>> /\ BufferOk(a, l) /\ e \in Nat
  BY DEF Flushing, AppendFacts
<1>5. /\ Len(q) = (IF Full(Last(a)) THEN 0 ELSE 1) /\ q \in Seq(Block) /\ r \in Seq(Block)
  BY <1>4, KeptOk DEF BufferOk
<1>6. Content(q) \in Seq(Unit) /\ Len(r) \in Nat
  BY <1>5, ContentType
<1>7. /\ x \in Seq(Unit) /\ o \in 0 .. Len(units) /\ Content(b) \in Seq(Unit)
      /\ Content(a) = Content(b) \o SubSeq(units, 1, o)
      /\ Spells(x, Content(b), units, o, k, lg, l)
  <2>1. FlushSpelled(x, b, s, units, k, lg, l)
    BY FlushSpells
  <2> QED
    BY <2>1 DEF FlushSpelled
<1>8. y \in Seq(Unit)
  BY <1>7, AppendsOf, Cut DEF Flushing
<1>9. p \in Seq(Unit)
  <2>1. v \in Seq(Block)
    <3>1. at \in Nat \ {0} /\ a \in Seq(Block)
      BY FlushPlace
    <3>2. f \in Seq(Block) /\ v = Written(f, at, a)
      BY DEF Flushing
    <3> QED
      BY <3>1, <3>2, WrittenShape DEF IsWritten
  <2>2. e \in 0 .. Len(v)
    BY <1>1 DEF UpTo
  <2>3. Len(v) \in Nat
    BY <2>1
  <2>4. g \in 0 .. Len(v)
    <3> HIDE DEF g, e
    <3> QED
      BY <1>2, <2>2, <2>3
  <2>5. SubSeq(v, 1, g) \in Seq(Block)
    BY <2>1, <2>4, Cut
  <2> QED
    BY <2>5, ContentType
<1>10. new = prom \/ (o = Len(units) /\ new = prom \cup ToSet(all))
  OBVIOUS
<1>11. \A u \in prom : u[1] = k => u \in ToSet(Content(SubSeq(f, 1, w)))
  BY DEF Flushing, StateOk
<1>12. \A u \in ToSet(Content(SubSeq(f, 1, w))) : u \in ToSet(x \o Content(a))
  BY FlushKeeps
<1> HIDE DEF x, a, e, o, r, q, h, p, y, all
<1>13. (x \o Content(a)) \o y = all
  BY <1>7 DEF Spells, y, all
<1>14. o = Len(units) => x \o Content(a) = all
  BY <1>7 DEF Spells, all
<1>15. p \o Content(r) = all
  <2>1. (p \o Content(q)) \o y = p \o (Content(q) \o y)
    BY <1>6, <1>8, <1>9, ConcatThree
  <2> QED
    BY <1>2, <1>4, <1>13, <2>1
<1>16. h - Len(r) = g /\ g <= e /\ e <= g + 1 /\ g \in Nat
  <2> DEFINE i == Len(r)
             j == Len(q)
  <2>1. j = 0 \/ j = 1
    BY <1>5
  <2>2. i \in Nat /\ h \in Nat /\ h + j = e + i /\ e \in Nat /\ g = e - j /\ g \in 0 .. e
    BY <1>2, <1>4, <1>6
  <2> HIDE DEF i, j, g
  <2>3. h - i = g /\ g <= e /\ e <= g + 1 /\ g \in Nat
    BY <2>1, <2>2
  <2> QED
    BY <2>3 DEF i
<1>17. \A u \in new : u[1] = k => u \in ToSet(Content(SubSeq(v, 1, e)))
  <2>1. CASE new = prom
    BY <1>1, <1>11, <1>12, <2>1
  <2>2. CASE o = Len(units) /\ new = prom \cup ToSet(all)
    BY <1>1, <1>11, <1>12, <1>14, <2>2
  <2> QED
    BY <1>10, <2>1, <2>2
<1> HIDE DEF g
<1>18. StateOk(r, h, l, k, v, e, found, new)
  BY <1>1, <1>3, <1>4, <1>15, <1>16, <1>17 DEF StateOk, p, all
<1> QED
  BY <1>18 DEF r, h, e

\* what stdio has passed on of a flush
LEMMA FileBegins ==
  ASSUME NEW lg, NEW l, NEW k, NEW record, NEW units, NEW b, NEW c, NEW f, NEW w, NEW found, NEW prom,
         NEW s, NEW t, NEW at, NEW v, Flushing(lg, l, k, record, units, b, c, f, w, found, prom, s, t, at, v),
         NEW j, j \in 0 .. Len(s.buffer)
  PROVE  \E n : UpTo(Written(f, at, SubSeq(s.buffer, 1, j)), n, k, l, found)
<1> DEFINE a == s.buffer
           p == SubSeq(a, 1, j)
           q == SubSeq(a, j + 1, Len(a))
           x == Content(SubSeq(f, 1, at - 1))
           all == AppendedIn(k, l)
<1>1. at \in Nat \ {0} /\ at <= Len(f) + 1 /\ w <= at /\ a \in Seq(Block)
  BY FlushPlace
<1>2. f \in Seq(Block) /\ found \in Seq(Block) /\ UpTo(f, w, k, lg, found) /\ Appends(lg, l, k, record, units)
  BY DEF Flushing, StateOk
<1>3. FlushSpelled(x, b, s, units, k, lg, l)
  BY FlushSpells
<1>4. p \in Seq(Block) /\ q \in Seq(Block) /\ Len(p) = j /\ a = p \o q /\ j \in Nat
  <2>1. j \in 0 .. Len(a) /\ a \in Seq(Block)
    BY <1>1
  <2> HIDE DEF a
  <2>2. j \in Nat
    BY <2>1
  <2>3. p \in Seq(Block) /\ q \in Seq(Block) /\ Len(p) = j /\ a = p \o q
    BY <2>1, Cut
  <2> QED
    BY <2>2, <2>3
<1>5. x \in Seq(Unit) /\ IsPrefix(x \o Content(a), all)
  BY <1>3 DEF FlushSpelled, Spells
<1>6. all \in Seq(Unit)
  BY <1>2, AppendsOf
<1> HIDE DEF p, q, x, all, a
<1>7. CASE j = 0
  <2>1. p = <<>>
    BY <1>4, <1>7, EmptySeq
  <2>2. Written(f, at, p) = f
    BY <1>1, <1>2, <2>1, WrittenNothing
  <2>3. UpTo(f, w, k, l, found)
    BY <1>2, UpToGrows DEF Appends
  <2> QED
    BY <2>2, <2>3 DEF p, a
<1>8. CASE j # 0
  <2>1. p # <<>>
    BY <1>4, <1>8, EmptySeq
  <2>2. Content(a) = Content(p) \o Content(q) /\ Content(p) \in Seq(Unit) /\ Content(q) \in Seq(Unit)
    BY <1>4, ContentConcat, ContentType
  <2> DEFINE y == Content(p)
             z == Content(q)
             g == Content(a)
  <2>3. y \in Seq(Unit) /\ z \in Seq(Unit) /\ g = y \o z /\ IsPrefix(x \o g, all)
    BY <1>5, <2>2
  <2> HIDE DEF y, z, g
  <2>4. IsPrefix(y, g) /\ g \in Seq(Unit)
    BY <2>3, ConcatStarts, ConcatProperties
  <2>5. IsPrefix(x \o y, x \o g) /\ x \o y \in Seq(Unit) /\ x \o g \in Seq(Unit)
    BY <1>5, <2>3, <2>4, PrefixAfter, ConcatProperties
  <2>6. IsPrefix(x \o y, all)
    BY <1>6, <2>3, <2>5, PrefixTransitive
  <2>7. IsPrefix(Content(SubSeq(f, 1, at - 1)) \o Content(p), AppendedIn(k, l))
    BY <2>6 DEF x, y, all
  <2>8. UpTo(Written(f, at, p), at + Len(p) - 1, k, l, found)
    BY <1>1, <1>2, <1>4, <2>1, <2>7, WriteUpTo
  <2> QED
    BY <2>8 DEF p, a
<1> QED
  BY <1>7, <1>8

-----------------------------------------------------------------------------
(* The inductive invariant. *)

Types ==
  /\ file \in Seq(Block) /\ old \in Seq(Block)
  /\ stdio = [at |-> stdio.at, blocks |-> stdio.blocks]
  /\ stdio.at \in Nat \ {0} /\ stdio.blocks \in Seq(Block)
  /\ running \in BOOLEAN /\ run \in 1 .. MaxRuns
  /\ log \in Seq(Record) /\ Len(log) <= MaxRecords
  /\ promised \subseteq Unit /\ \A u \in promised : u[1] <= run
  /\ current \in Nat /\ current <= Len(log) * Blocks

\* up to the block w the file, when stdio has written, has what a commit
\* promised; the buffer has the rest of the log
Running == \E w \in 0 .. Len(Flushed) : StateOk(buffer, current, log, run, Flushed, w, old, promised)
Stopped == buffer = <<>> /\ stdio = NoBlocks
Beginning == \E n \in 0 .. Len(file) : UpTo(file, n, run, log, old)

IInv ==
  /\ Types
  /\ running => Running
  /\ ~running => Stopped
  /\ Beginning

LEMMA SameAppended ==
  ASSUME NEW records
  PROVE  Appended(records) = AppendedIn(run, records)
BY DEF Appended, UnitsOf, AppendedIn, UnitsIn

\* AppendRecord, by what its two calls of AppendCLogRecord leave
LEMMA AppendRecordIs ==
  ASSUME NEW record, AppendRecord(record), NEW units, units = UnitsIn(run, Len(log) + 1, record),
         NEW s, NEW t, Calls(buffer, current, units, s, t)
  PROVE  /\ running /\ Len(log) < MaxRecords /\ log' = Append(log, record)
         /\ running' = running /\ run' = run /\ old' = old
         /\ IF MustSync(record, s.offset < record.len)
            THEN /\ WriteAt(s.current - Len(s.buffer) + 1, s.buffer)
                 /\ buffer' = t.buffer /\ current' = t.current
            ELSE /\ buffer' = s.buffer /\ current' = s.current
                 /\ file' = file /\ stdio' = stdio
         /\ promised' = IF record.kind = "RedoMiniTxnCommit" /\ ~(s.offset < record.len)
                        THEN promised \cup ToSet(AppendedIn(run, log')) ELSE promised
<1>1. units = UnitsOf(Len(log) + 1, record)
  BY DEF UnitsOf, UnitsIn
<1>2. Appended(log') = AppendedIn(run, log')
  BY SameAppended
<1> QED
  BY <1>1, <1>2 DEF AppendRecord, Calls

\* what is in the file once stdio has written
LEMMA FlushedType ==
  ASSUME Types
  PROVE  Flushed \in Seq(Block)
<1>1. file \in Seq(Block) /\ stdio.at \in Nat \ {0} /\ stdio.blocks \in Seq(Block)
  BY DEF Types
<1> QED
  BY <1>1, WrittenShape DEF IsWritten, Flushed

\* the units promised by the commit of a whole record, and those promised before
LEMMA PromisedType ==
  ASSUME Types, NEW l \in Seq(Record), Len(l) <= MaxRecords,
         NEW new, new = promised \/ new = promised \cup ToSet(AppendedIn(run, l))
  PROVE  new \subseteq Unit /\ \A u \in new : u[1] <= run
<1>1. run \in 1 .. MaxRuns /\ MaxRuns \in Nat
  BY SizesAssumption DEF Types
<1>2. \A u \in ToSet(AppendedIn(run, l)) : u \in Unit /\ u[1] = run
  BY <1>1, AppendedOfRun
<1>3. run <= run
  BY <1>1
<1>4. promised \subseteq Unit /\ \A u \in promised : u[1] <= run
  BY DEF Types
<1> QED
  BY <1>2, <1>3, <1>4

\* a record takes at most the blocks of a buffer
LEMMA CurrentBound ==
  ASSUME NEW lg \in Seq(Record), NEW record \in Record, NEW c \in Nat, c <= Len(lg) * Blocks,
         NEW e \in Nat, e <= c + Blocks
  PROVE  e <= Len(Append(lg, record)) * Blocks
<1> DEFINE m == Len(lg)
           x == m * Blocks
           y == (m + 1) * Blocks
<1>1. Len(Append(lg, record)) = m + 1 /\ m \in Nat
  OBVIOUS
<1>2. Blocks \in Nat
  BY SizesAssumption
<1> HIDE DEF m
<1>3. y = x + 1 * Blocks /\ x \in Nat
  BY <1>1, <1>2, Times
<1>4. 1 * Blocks = Blocks
  BY <1>2
<1>5. c <= x
  BY DEF m
<1> HIDE DEF x, y
<1>6. e <= y
  BY <1>2, <1>3, <1>4, <1>5
<1> QED
  BY <1>1, <1>6 DEF y

LEMMA AppendKeeps ==
  ASSUME IInv, NEW record \in Record, AppendRecord(record)
  PROVE  IInv'
<1> DEFINE m == Len(log) + 1
           units == UnitsIn(run, m, record)
           s == AppendCLogRecord([buffer |-> buffer, current |-> current, offset |-> 0], units)
           t == Rest([s EXCEPT !.buffer = Kept(@)], units)
           l == Append(log, record)
           v == Written(Flushed, s.current - Len(s.buffer) + 1, s.buffer)
           at == s.current - Len(s.buffer) + 1
<1>1. Calls(buffer, current, units, s, t)
  BY DEF Calls
<1> HIDE DEF s, t
<1>2. /\ running /\ Len(log) < MaxRecords /\ log' = l
      /\ running' = running /\ run' = run /\ old' = old
      /\ IF MustSync(record, s.offset < record.len)
         THEN /\ WriteAt(at, s.buffer)
              /\ buffer' = t.buffer /\ current' = t.current
         ELSE /\ buffer' = s.buffer /\ current' = s.current
              /\ file' = file /\ stdio' = stdio
      /\ promised' = IF record.kind = "RedoMiniTxnCommit" /\ ~(s.offset < record.len)
                     THEN promised \cup ToSet(AppendedIn(run, l)) ELSE promised
  <2>1. units = UnitsIn(run, Len(log) + 1, record)
    OBVIOUS
  <2> HIDE DEF units
  <2> QED
    BY <1>1, <2>1, AppendRecordIs
<1>3. Types /\ Running
  BY <1>2 DEF IInv
<1>4. /\ file \in Seq(Block) /\ old \in Seq(Block) /\ log \in Seq(Record) /\ run \in 1 .. MaxRuns
      /\ current \in Nat /\ current <= Len(log) * Blocks
  BY <1>3 DEF Types
<1>5. PICK w : StateOk(buffer, current, log, run, Flushed, w, old, promised)
  BY <1>3 DEF Running
<1>6. Appends(log, l, run, record, units)
  BY <1>2, <1>4 DEF Appends
<1>7. l \in Seq(Record) /\ Len(l) <= MaxRecords /\ Len(units) = record.len
  <2>1. OfRecord(l, run, record, units)
    BY <1>6, AppendsOf
  <2>2. Len(units) = record.len
    BY <2>1, OfRecordUnits
  <2>3. l \in Seq(Record) /\ Len(l) \in 1 .. MaxRecords
    BY <2>1 DEF OfRecord
  <2>4. Len(l) <= MaxRecords
    <3> HIDE DEF l
    <3> QED
      BY <2>3, SizesAssumption
  <2> QED
    BY <2>2, <2>3, <2>4
<1>8. AppendFacts(buffer, current, l, units, s, t)
  <2>1. BufferOk(buffer, log) /\ Len(buffer) <= current
    BY <1>5 DEF StateOk
  <2>2. BufferOk(buffer, l)
    BY <1>6, <2>1, BufferGrows
  <2>3. OfRecord(l, run, record, units)
    BY <1>6, AppendsOf
  <2> HIDE DEF units, l
  <2> QED
    BY <1>1, <1>4, <2>1, <2>2, <2>3, RecordAppended
<1>9. Flushed \in Seq(Block)
  BY <1>3, FlushedType
<1>10. PICK i \in 0 .. Len(file) : UpTo(file, i, run, log, old)
  BY DEF IInv, Beginning
<1> HIDE DEF units, l
<1>11. s.current \in Nat /\ s.current <= Len(l) * Blocks /\ t.current \in Nat /\ t.current <= Len(l) * Blocks
  <2>1. s.current \in Nat /\ s.current <= current + Blocks /\ t.current \in Nat /\ t.current <= current + Blocks
    BY <1>8 DEF AppendFacts
  <2> QED
    BY <1>4, <2>1, CurrentBound DEF l
<1>12. s.offset \in 0 .. Len(units) /\ Len(units) \in Nat
  <2>1. s.offset \in 0 .. Len(units)
    BY <1>8 DEF AppendFacts
  <2>2. units \in Seq(Unit)
    BY <1>6, AppendsOf
  <2> QED
    BY <2>1, <2>2
<1>13. ~(s.offset < record.len) => s.offset = Len(units)
  BY <1>7, <1>12
<1>14. promised' = promised \/ (s.offset = Len(units) /\ promised' = promised \cup ToSet(AppendedIn(run, l)))
  BY <1>2, <1>13
<1>15. promised' \subseteq Unit /\ \A u \in promised' : u[1] <= run
  <2> DEFINE new == promised'
  <2>1. new = promised \/ new = promised \cup ToSet(AppendedIn(run, l))
    BY <1>14
  <2> HIDE DEF new
  <2>2. new \subseteq Unit /\ \A u \in new : u[1] <= run
    BY <1>3, <1>7, <2>1, PromisedType
  <2> QED
    BY <2>2 DEF new
<1>16. CASE ~MustSync(record, s.offset < record.len)
  <2>1. buffer' = s.buffer /\ current' = s.current /\ file' = file /\ stdio' = stdio
    BY <1>2, <1>16
  <2>2. record.kind # "RedoMiniTxnCommit" /\ s.offset = Len(units)
    BY <1>13, <1>16 DEF MustSync
  <2>3. promised' = promised
    BY <1>2, <2>2
  <2>4. Flushed' = Flushed
    BY <2>1 DEF Flushed
  <2>5. StateOk(s.buffer, s.current, l, run, Flushed, w, old, promised)
    BY <1>5, <1>6, <1>8, <1>9, <2>2, KeepsInBuffer
  <2>6. StateOk(buffer', current', log', run', Flushed', w, old', promised')
    BY <1>2, <2>1, <2>3, <2>4, <2>5
  <2>7. w \in 0 .. Len(Flushed')
    BY <2>4, <2>5 DEF StateOk, UpTo
  <2>8. Running'
    BY <2>6, <2>7 DEF Running
  <2>9. UpTo(file, i, run, l, old)
    BY <1>2, <1>4, <1>10, UpToGrows DEF l
  <2>10. Beginning'
    BY <1>2, <2>1, <2>9 DEF Beginning
  <2>11. Types'
    BY <1>2, <1>3, <1>7, <1>11, <1>15, <2>1 DEF Types
  <2> QED
    BY <1>2, <2>8, <2>10, <2>11 DEF IInv
<1>17. CASE MustSync(record, s.offset < record.len)
  <2>1. WriteAt(at, s.buffer) /\ buffer' = t.buffer /\ current' = t.current
    BY <1>2, <1>17
  <2>2. PICK j \in 0 .. Len(s.buffer) :
          /\ file' = Written(Flushed, at, SubSeq(s.buffer, 1, j))
          /\ stdio' = [at |-> at + j, blocks |-> SubSeq(s.buffer, j + 1, Len(s.buffer))]
    BY <2>1 DEF WriteAt
  <2>3. Flushing(log, l, run, record, units, buffer, current, Flushed, w, old, promised, s, t, at, v)
    BY <1>4, <1>5, <1>6, <1>8, <1>9 DEF Flushing
  <2>4. at \in Nat \ {0} /\ s.buffer \in Seq(Block)
    BY <2>3, FlushPlace
  <2> DEFINE a == s.buffer
             p == SubSeq(a, 1, j)
             q == SubSeq(a, j + 1, Len(a))
  <2> HIDE DEF at
  <2>5. p \in Seq(Block) /\ q \in Seq(Block)
    BY <2>4, Cut
  <2>6. Written(Written(Flushed, at, p), at + j, q) = Written(Flushed, at, a)
    BY <1>9, <2>4, WrittenTwice
  <2>7. Flushed' = v
    <3>1. Flushed' = Written(file', stdio'.at, stdio'.blocks)
      BY DEF Flushed
    <3>2. stdio'.at = at + j /\ stdio'.blocks = q
      BY <2>2
    <3> QED
      BY <2>2, <2>6, <3>1, <3>2 DEF at
  <2>8. file' \in Seq(Block)
    BY <1>9, <2>2, <2>4, <2>5, WrittenShape DEF IsWritten
  <2>9. stdio'.at \in Nat \ {0} /\ stdio'.blocks \in Seq(Block) /\ stdio' = [at |-> stdio'.at, blocks |-> stdio'.blocks]
    <3>1. stdio'.at = at + j /\ stdio'.blocks = q /\ stdio' = [at |-> at + j, blocks |-> q]
      BY <2>2
    <3>2. at + j \in Nat \ {0}
      <4>1. j \in Nat
        BY <2>4
      <4> QED
        BY <2>4, <4>1
    <3> HIDE DEF q
    <3> QED
      BY <2>5, <3>1, <3>2
  <2>10. StateOk(t.buffer, t.current, l, run, v, s.current, old, promised')
    <3> DEFINE new == promised'
    <3>1. new = promised \/ (s.offset = Len(units) /\ new = promised \cup ToSet(AppendedIn(run, l)))
      BY <1>14
    <3> HIDE DEF new, v
    <3>2. StateOk(t.buffer, t.current, l, run, v, s.current, old, new)
      BY <2>3, <3>1, FlushesBuffer
    <3> QED
      BY <3>2 DEF new
  <2>11. StateOk(buffer', current', log', run', Flushed', s.current, old', promised')
    BY <1>2, <2>1, <2>7, <2>10
  <2>12. s.current \in 0 .. Len(Flushed')
    BY <2>7, <2>10 DEF StateOk, UpTo
  <2>13. Running'
    BY <2>11, <2>12 DEF Running
  <2>14. PICK n : UpTo(Written(Flushed, at, p), n, run, l, old)
    BY <2>3, FileBegins
  <2>15. UpTo(file', n, run', log', old')
    BY <1>2, <2>2, <2>14
  <2>16. n \in 0 .. Len(file')
    BY <2>15 DEF UpTo
  <2>17. Beginning'
    BY <2>15, <2>16 DEF Beginning
  <2>18. Types'
    BY <1>2, <1>3, <1>7, <1>11, <1>15, <2>1, <2>8, <2>9 DEF Types
  <2> QED
    BY <1>2, <2>13, <2>17, <2>18 DEF IInv
<1> QED
  BY <1>16, <1>17

\* the state in which a run begins, with the file it found
LEMMA RunBegins ==
  ASSUME NEW f \in Seq(Block), NEW k, NEW prom, \A u \in prom : u[1] # k
  PROVE  StateOk(<<>>, 0, <<>>, k, f, 0, f, prom)
<1> DEFINE e == <<>>
           h == SubSeq(f, 1, 0)
<1>1. Len(f) \in Nat /\ DOMAIN f = 1 .. Len(f)
  OBVIOUS
<1>2. h \in Seq(Block) /\ Len(h) = 0
  <2>1. 0 \in 0 .. Len(f)
    BY <1>1
  <2> QED
    BY <2>1, Cut
<1>3. h = <<>>
  BY <1>2, EmptySeq
<1>4. Content(h) = <<>> /\ AppendedIn(k, <<>>) = <<>> /\ Content(<<>>) = <<>>
  BY <1>3, ContentEmpty, AppendedNothing
<1> DEFINE z == <<>>
<1>5. z \in Seq(Unit) /\ IsPrefix(z, z) /\ z \o z = z
  <2>1. z \in Seq(Unit)
    OBVIOUS
  <2> HIDE DEF z
  <2>2. IsPrefix(z, z)
    BY <2>1, PrefixReflexive
  <2>3. z \o <<>> = z
    BY <2>1, ConcatEmptySeq
  <2> QED
    BY <2>1, <2>2, <2>3 DEF z
<1>6. e \in Seq(Block) /\ Len(e) = 0
  OBVIOUS
<1> HIDE DEF h
<1>7. UpTo(f, 0, k, <<>>, f)
  <2>1. 0 \in 0 .. Len(f) /\ Len(f) >= Len(f) /\ \A i \in 0 + 1 .. Len(f) : i \in DOMAIN f
    BY <1>1
  <2>2. IsPrefix(Content(h), AppendedIn(k, <<>>))
    BY <1>4, <1>5
  <2> QED
    BY <2>1, <2>2 DEF UpTo, h
<1> HIDE DEF e
<1>8. BufferOk(e, <<>>)
  BY <1>6, SizesAssumption DEF BufferOk
<1>9. Content(h) \o Content(e) = AppendedIn(k, <<>>)
  BY <1>4, <1>5 DEF e
<1>10. StateOk(e, 0, <<>>, k, f, 0, f, prom)
  <2>1. 0 - Len(e) = 0
    BY <1>6
  <2> QED
    BY <1>6, <1>7, <1>8, <1>9, <2>1 DEF StateOk, h
<1> QED
  BY <1>10 DEF e

\* nothing waits in stdio
LEMMA FlushedNothing ==
  ASSUME NEW f \in Seq(Block)
  PROVE  Written(f, NoBlocks.at, NoBlocks.blocks) = f
<1>1. NoBlocks.at = 1 /\ NoBlocks.blocks = <<>> /\ 1 \in Nat \ {0} /\ 1 <= Len(f) + 1
  BY DEF NoBlocks
<1> QED
  BY <1>1, WrittenNothing

LEMMA NoBlocksType ==
  NoBlocks.at \in Nat \ {0} /\ NoBlocks.blocks \in Seq(Block)
    /\ NoBlocks = [at |-> NoBlocks.at, blocks |-> NoBlocks.blocks]
BY DEF NoBlocks

LEMMA InitHolds == Init => IInv
<1> SUFFICES ASSUME Init PROVE IInv
  OBVIOUS
<1>1. /\ buffer = <<>> /\ current = 0 /\ file = <<>> /\ stdio = NoBlocks /\ running /\ running \in BOOLEAN
      /\ run = 1 /\ log = <<>> /\ old = <<>> /\ promised = {}
  BY DEF Init
<1>2. file \in Seq(Block) /\ old \in Seq(Block) /\ log \in Seq(Record) /\ Len(log) = 0
  BY <1>1
<1>3. Flushed = file
  BY <1>1, <1>2, FlushedNothing DEF Flushed
<1>4. StateOk(<<>>, 0, <<>>, run, file, 0, file, promised)
  BY <1>1, <1>2, RunBegins
<1>5. StateOk(buffer, current, log, run, Flushed, 0, old, promised)
  BY <1>1, <1>3, <1>4
<1>6. 0 \in 0 .. Len(file)
  BY <1>2
<1>7. Running
  BY <1>3, <1>5, <1>6 DEF Running
<1>8. Beginning
  <2>1. UpTo(file, 0, run, log, old)
    BY <1>3, <1>5 DEF StateOk
  <2> QED
    BY <1>6, <2>1 DEF Beginning
<1>9. Types
  <2>1. MaxRecords \in Nat /\ Blocks \in Nat /\ MaxRuns \in Nat \ {0}
    BY SizesAssumption
  <2>2. current \in Nat /\ current <= Len(log) * Blocks /\ Len(log) <= MaxRecords
    BY <1>1, <1>2, <2>1
  <2>3. run \in 1 .. MaxRuns
    BY <1>1, <2>1
  <2>4. promised \subseteq Unit /\ \A u \in promised : u[1] <= run
    BY <1>1
  <2> QED
    BY <1>1, <1>2, <2>2, <2>3, <2>4, NoBlocksType DEF Types
<1> QED
  BY <1>1, <1>7, <1>8, <1>9 DEF IInv

LEMMA ExitKeeps ==
  ASSUME IInv, Exit
  PROVE  IInv'
<1>1. /\ running /\ running' = FALSE /\ file' = Flushed /\ buffer' = <<>> /\ stdio' = NoBlocks
      /\ current' = current /\ run' = run /\ log' = log /\ old' = old /\ promised' = promised
  BY DEF Exit
<1>2. Types /\ Running
  BY <1>1 DEF IInv
<1>3. file' \in Seq(Block)
  BY <1>1, <1>2, FlushedType
<1>4. PICK w \in 0 .. Len(Flushed) : UpTo(Flushed, w, run, log, old)
  BY <1>2 DEF Running, StateOk
<1>5. Beginning'
  BY <1>1, <1>4 DEF Beginning
<1>6. Types'
  BY <1>1, <1>2, <1>3, NoBlocksType DEF Types
<1>7. Stopped'
  BY <1>1 DEF Stopped
<1> QED
  BY <1>1, <1>5, <1>6, <1>7 DEF IInv

LEMMA CrashKeeps ==
  ASSUME IInv, Crash
  PROVE  IInv'
<1>1. /\ running' = FALSE /\ file' = file /\ buffer' = <<>> /\ stdio' = NoBlocks
      /\ current' = current /\ run' = run /\ log' = log /\ old' = old /\ promised' = promised
  BY DEF Crash
<1>2. Types /\ Beginning
  BY DEF IInv
<1>3. Beginning'
  BY <1>1, <1>2 DEF Beginning
<1>4. Types'
  BY <1>1, <1>2, NoBlocksType DEF Types
<1>5. Stopped'
  BY <1>1 DEF Stopped
<1> QED
  BY <1>1, <1>3, <1>4, <1>5 DEF IInv

LEMMA StartKeeps ==
  ASSUME IInv, Start
  PROVE  IInv'
<1>1. /\ ~running /\ run < MaxRuns /\ running' = TRUE /\ run' = run + 1
      /\ current' = 0 /\ log' = <<>> /\ old' = file
      /\ buffer' = buffer /\ file' = file /\ stdio' = stdio /\ promised' = promised
  BY DEF Start
<1>2. Types /\ Stopped
  BY <1>1 DEF IInv
<1>3. /\ file \in Seq(Block) /\ run \in 1 .. MaxRuns /\ buffer = <<>> /\ stdio = NoBlocks
      /\ promised \subseteq Unit /\ \A u \in promised : u[1] <= run
  BY <1>2 DEF Types, Stopped
<1>4. run \in Nat /\ run + 1 \in 1 .. MaxRuns /\ MaxRecords \in Nat /\ Blocks \in Nat
  BY <1>1, <1>3, SizesAssumption
<1>5. \A u \in promised : u[1] # run + 1 /\ u[1] <= run + 1
  <2>1. \A u \in promised : u[1] \in Nat
    <3>1. \A u \in promised : u[1] \in 1 .. MaxRuns
      BY <1>3 DEF Unit
    <3>2. 1 .. MaxRuns \subseteq Nat
      BY SizesAssumption
    <3> QED
      BY <3>1, <3>2
  <2> SUFFICES ASSUME NEW u \in promised PROVE u[1] # run + 1 /\ u[1] <= run + 1
    OBVIOUS
  <2> DEFINE i == u[1]
  <2>2. i \in Nat /\ i <= run
    BY <1>3, <2>1
  <2> HIDE DEF i
  <2>3. i # run + 1 /\ i <= run + 1
    BY <1>4, <2>2
  <2> QED
    BY <2>3 DEF i
<1>6. StateOk(<<>>, 0, <<>>, run + 1, file, 0, file, promised)
  BY <1>3, <1>5, RunBegins
<1>7. Flushed' = file
  <2>1. Flushed' = Written(file', stdio'.at, stdio'.blocks)
    BY DEF Flushed
  <2> QED
    BY <1>1, <1>3, <2>1, FlushedNothing
<1>8. StateOk(buffer', current', log', run', Flushed', 0, old', promised')
  BY <1>1, <1>3, <1>6, <1>7
<1>9. 0 \in 0 .. Len(file)
  BY <1>3
<1>10. Running'
  BY <1>7, <1>8, <1>9 DEF Running
<1>11. Beginning'
  <2>1. UpTo(file', 0, run', log', old')
    BY <1>1, <1>7, <1>8 DEF StateOk
  <2> QED
    BY <1>1, <1>9, <2>1 DEF Beginning
<1>12. Types'
  <2>1. current' \in Nat /\ log' \in Seq(Record) /\ Len(log') = 0
    BY <1>1
  <2>2. current' <= Len(log') * Blocks /\ Len(log') <= MaxRecords
    BY <1>1, <1>4, <2>1
  <2>3. running' \in BOOLEAN /\ run' \in 1 .. MaxRuns /\ \A u \in promised' : u[1] <= run'
    BY <1>1, <1>4, <1>5
  <2> QED
    BY <1>1, <1>2, <2>1, <2>2, <2>3 DEF Types
<1> QED
  BY <1>1, <1>10, <1>11, <1>12 DEF IInv

LEMMA StepKeeps == IInv /\ [Next]_vars => IInv'
<1> SUFFICES ASSUME IInv, [Next]_vars PROVE IInv'
  OBVIOUS
<1>1. CASE \E record \in Record : AppendRecord(record)
  BY <1>1, AppendKeeps
<1>2. CASE Exit
  BY <1>2, ExitKeeps
<1>3. CASE Crash
  BY <1>3, CrashKeeps
<1>4. CASE Start
  BY <1>4, StartKeeps
<1>5. CASE UNCHANGED vars
  <2>1. /\ buffer' = buffer /\ current' = current /\ file' = file /\ stdio' = stdio /\ running' = running
        /\ run' = run /\ log' = log /\ old' = old /\ promised' = promised
    BY <1>5 DEF vars
  <2> QED
    BY <2>1 DEF IInv, Types, Running, Stopped, Beginning, Flushed
<1> QED
  BY <1>1, <1>2, <1>3, <1>4, <1>5 DEF Next

-----------------------------------------------------------------------------
(* What the invariant says of the properties. *)

LEMMA BufferTyped ==
  ASSUME IInv
  PROVE  /\ buffer \in Seq(Block) /\ Len(buffer) <= Blocks
         /\ \A i \in 1 .. Len(buffer) : Len(buffer[i].data) \in 1 .. DataSize
<1>1. CASE running
  <2>1. PICK w : StateOk(buffer, current, log, run, Flushed, w, old, promised)
    BY <1>1 DEF IInv, Running
  <2>2. BufferOk(buffer, log)
    BY <2>1 DEF StateOk
  <2> QED
    BY <2>2 DEF BufferOk, BlockOk
<1>2. CASE ~running
  <2>1. buffer = <<>>
    BY <1>2 DEF IInv, Stopped
  <2>2. Len(buffer) = 0 /\ buffer \in Seq(Block)
    BY <2>1
  <2> QED
    BY <2>2, SizesAssumption
<1> QED
  BY <1>1, <1>2

LEMMA TypesFollow == IInv => TypeOK
<1> SUFFICES ASSUME IInv PROVE TypeOK
  OBVIOUS
<1>1. Types
  BY DEF IInv
<1>2. current \in 0 .. MaxRecords * Blocks
  <2> DEFINE m == Len(log)
             d == MaxRecords - m
             x == m * Blocks
             y == MaxRecords * Blocks
             z == d * Blocks
  <2>1. log \in Seq(Record) /\ m <= MaxRecords /\ current \in Nat /\ current <= x
    BY <1>1 DEF Types
  <2>2. m \in Nat /\ MaxRecords \in Nat /\ Blocks \in Nat
    BY <2>1, SizesAssumption
  <2> HIDE DEF m
  <2>3. d \in Nat /\ MaxRecords = m + d
    BY <2>1, <2>2
  <2> HIDE DEF d
  <2>4. (m + d) * Blocks = x + z /\ x \in Nat /\ z \in Nat
    BY <2>2, <2>3, Times
  <2>5. y = x + z
    BY <2>3, <2>4
  <2> HIDE DEF x, y, z
  <2>6. current \in 0 .. y
    BY <2>1, <2>4, <2>5
  <2> QED
    BY <2>6 DEF y
<1>3. DOMAIN buffer = 1 .. Len(buffer)
  BY BufferTyped
<1> QED
  BY <1>1, <1>2, <1>3, BufferTyped DEF Types, TypeOK

\* a block's first_record_offset, as the property says it
LEMMA BlockPoints ==
  ASSUME NEW block, BlockOk(block, log)
  PROVE  PointsAtFirstRecord(block)
<1> DEFINE S == Starts(block)
<1>1. block \in Block /\ Len(block.data) \in 1 .. DataSize /\ PointsInto(block, log)
  BY DEF BlockOk
<1>2. CASE S = {}
  <2>1. block.first = Len(block.data)
    BY <1>1, <1>2 DEF PointsInto
  <2> QED
    BY <1>2, <2>1 DEF PointsAtFirstRecord, Full
<1>3. CASE S # {}
  <2>1. block.data \in Seq(Unit)
    BY <1>1 DEF Block
  <2>2. S \subseteq Nat
    BY <2>1 DEF Starts
  <2> HIDE DEF S
  <2>3. \E p \in S : \A q \in S : p <= q
    BY <1>3, <2>2, LeastNatural
  <2> DEFINE p == FirstStart(block)
  <2>4. p \in S /\ \A q \in S : p <= q
    BY <2>3 DEF FirstStart, S
  <2> HIDE DEF p
  <2>5. block.first = p - 1 \/ log[block.data[p][2]].len > DataSize
    BY <1>1, <2>4 DEF PointsInto, S
  <2> QED
    BY <1>3, <2>5 DEF PointsAtFirstRecord, S, p
<1> QED
  BY <1>2, <1>3

LEMMA LogFollows ==
  ASSUME IInv, running
  PROVE  /\ Content(ThisRun) = AppendedIn(run, log)
         /\ \A i \in 1 .. current - 1 : Full(ThisRun[i])
         /\ \A i \in 1 .. Len(buffer) : BlockOk(buffer[i], log)
<1> DEFINE n == Len(buffer)
           at == current - n + 1
           f == Flushed
           g == current - n
           a == SubSeq(f, 1, g)
           h == Len(f)
<1>1. PICK w : StateOk(buffer, current, log, run, Flushed, w, old, promised)
  BY DEF IInv, Running
<1>2. f \in Seq(Block) /\ h \in Nat
  BY FlushedType DEF IInv
<1>3. /\ buffer \in Seq(Block) /\ current \in Nat /\ n <= current /\ g <= w
      /\ \A i \in 1 .. n : BlockOk(buffer[i], log)
      /\ \A i \in 1 .. n - 1 : Full(buffer[i])
      /\ \A i \in 1 .. g : Full(f[i])
      /\ Content(a) \o Content(buffer) = AppendedIn(run, log)
  BY <1>1 DEF StateOk, BufferOk
<1>4. w \in 0 .. h
  BY <1>1 DEF StateOk, UpTo
<1>5. n \in Nat
  BY <1>3
<1> DEFINE r == ThisRun
<1>6. r = SubSeq(Written(f, at, buffer), 1, current)
  BY DEF ThisRun, Everything
<1> HIDE DEF n, f, h, r
<1>7. g \in 0 .. h /\ at \in Nat \ {0} /\ at <= h + 1 /\ at - 1 = g /\ at + n - 1 = current
  BY <1>2, <1>3, <1>4, <1>5
<1>8. r = a \o buffer
  <2>1. SubSeq(Written(f, at, buffer), 1, at + n - 1) = SubSeq(f, 1, at - 1) \o buffer
    BY <1>2, <1>3, <1>7, WrittenFront DEF n, h
  <2> QED
    BY <1>6, <1>7, <2>1
<1>9. a \in Seq(Block) /\ Len(a) = g /\ \A i \in 1 .. g : a[i] = f[i]
  BY <1>2, <1>7, Cut DEF h
<1>10. Content(r) = AppendedIn(run, log)
  BY <1>3, <1>8, <1>9, ContentConcat
<1> HIDE DEF a
<1>11. \A i \in 1 .. g + n : r[i] = IF i <= g THEN a[i] ELSE buffer[i - g]
  BY <1>3, <1>8, <1>9, ConcatProperties DEF n
<1>12. ASSUME NEW i \in 1 .. current - 1 PROVE Full(r[i])
  <2>1. i \in 1 .. g + n /\ i \in Nat /\ g \in Nat
    BY <1>3, <1>5, <1>7
  <2>2. CASE i <= g
    <3>1. i \in 1 .. g
      BY <2>1, <2>2
    <3>2. r[i] = a[i]
      BY <1>11, <2>1, <2>2
    <3> QED
      BY <1>3, <1>9, <3>1, <3>2
  <2>3. CASE ~(i <= g)
    <3>1. i - g \in 1 .. n - 1
      BY <1>3, <1>5, <2>1, <2>3
    <3>2. r[i] = buffer[i - g]
      BY <1>11, <2>1, <2>3
    <3> QED
      BY <1>3, <3>1, <3>2
  <2> QED
    BY <2>2, <2>3
<1> QED
  BY <1>3, <1>10, <1>12 DEF r, n

LEMMA AccountFollows == IInv => LogAccounted
<1> SUFFICES ASSUME IInv, running
             PROVE  /\ Content(ThisRun) = Appended(log)
                    /\ \A i \in 1 .. current - 1 : Full(ThisRun[i])
                    /\ \A i \in DOMAIN buffer : PointsAtFirstRecord(buffer[i])
  BY DEF LogAccounted
<1>1. DOMAIN buffer = 1 .. Len(buffer)
  BY BufferTyped
<1> QED
  BY <1>1, LogFollows, BlockPoints, SameAppended

LEMMA CommitFollows == IInv => CommitHandedOver
<1> SUFFICES ASSUME IInv, running, NEW u \in promised, u[1] = run
             PROVE  \E i \in DOMAIN Flushed : u \in ToSet(Flushed[i].data)
  BY DEF CommitHandedOver
<1> DEFINE f == Flushed
<1>1. PICK w : StateOk(buffer, current, log, run, f, w, old, promised)
  BY DEF IInv, Running
<1>2. f \in Seq(Block)
  BY FlushedType DEF IInv
<1>3. w \in 0 .. Len(f) /\ u \in ToSet(Content(SubSeq(f, 1, w)))
  BY <1>1 DEF StateOk, UpTo
<1> HIDE DEF f
<1> DEFINE a == SubSeq(f, 1, w)
<1>4. a \in Seq(Block) /\ Len(a) = w /\ \A i \in 1 .. w : a[i] = f[i]
  BY <1>2, <1>3, Cut
<1> HIDE DEF a
<1>5. PICK i \in 1 .. Len(a) : u \in ToSet(a[i].data)
  BY <1>3, <1>4, ContentSet DEF a
<1>6. i \in 1 .. w /\ u \in ToSet(f[i].data)
  BY <1>4, <1>5
<1>7. i \in DOMAIN f
  <2>1. DOMAIN f = 1 .. Len(f) /\ Len(f) \in Nat
    BY <1>2
  <2> QED
    BY <1>3, <1>6, <2>1
<1> QED
  BY <1>6, <1>7 DEF f

LEMMA BeginningFollows == IInv => CrashLeavesBeginning
<1> SUFFICES ASSUME IInv PROVE CrashLeavesBeginning
  OBVIOUS
<1>1. PICK n \in 0 .. Len(file) : UpTo(file, n, run, log, old)
  BY DEF IInv, Beginning
<1> QED
  BY <1>1, SameAppended DEF UpTo, CrashLeavesBeginning

-----------------------------------------------------------------------------

(***************************************************************************)
(* The inductive invariant of the redo log: the blocks of the file before  *)
(* the buffer, once stdio has written, and the blocks of the buffer spell  *)
(* what was appended; what a commit promised is in the blocks handed over; *)
(* the file as it is has a beginning (clog_manager.cpp, WriteAt of         *)
(* persist_file_io_handler.cpp).                                           *)
(***************************************************************************)
THEOREM LogInFileAndBuffer == Spec => []IInv
<1>1. Init => IInv
  BY InitHolds
<1>2. IInv /\ [Next]_vars => IInv'
  BY StepKeeps
<1> QED
  BY <1>1, <1>2, PTL DEF Spec

(***************************************************************************)
(* The log buffer never has more blocks than its size, no block in it is   *)
(* empty or overfull, and current_block_offset_ stays within what the      *)
(* appended records can take (CLogBuffer, clog_manager.cpp).               *)
(***************************************************************************)
THEOREM TypesHold == Spec => []TypeOK
BY LogInFileAndBuffer, TypesFollow, PTL

(***************************************************************************)
(* However AppendCLogRecord cuts records at block ends and FlushBuffer at  *)
(* buffer ends, for every size of buffer, block and record that fits: the  *)
(* file, stdio and the buffer spell the records once and in order, all     *)
(* blocks but the last are full, and first_record_offset is right, except  *)
(* in a block that a record longer than a block has opened.                *)
(***************************************************************************)
THEOREM LogIsAccounted == Spec => []LogAccounted
BY LogInFileAndBuffer, AccountFollows, PTL

(***************************************************************************)
(* When AppendRecord answers Success for a commit, the record and all      *)
(* before it are out of the log buffer (CLogManager::AppendRecord).        *)
(***************************************************************************)
THEOREM CommitsAreHandedOver == Spec => []CommitHandedOver
BY LogInFileAndBuffer, CommitFollows, PTL

(***************************************************************************)
(* Whenever the process dies, however much of the last write stdio has     *)
(* passed on, the file holds a beginning of the run's log, and after it    *)
(* only blocks the run found there (CLogFile::WriteAt, PersistFileIO).     *)
(***************************************************************************)
THEOREM CrashesLeaveBeginnings == Spec => []CrashLeavesBeginning
BY LogInFileAndBuffer, BeginningFollows, PTL
==============================================================================
