---------------------------- MODULE LruListProofs ----------------------------
(***************************************************************************)
(* The pointers of the LRU list represent the order of use, for every set  *)
(* of keys.                                                                *)
(***************************************************************************)
EXTENDS LruList, FiniteSetTheorems, TLAPS

-----------------------------------------------------------------------------
(* The order of use.  Taking keys out of it, and using a key, leave an order *)
(* of the keys that remain.                                                  *)

LEMMA WithoutOrder ==
  ASSUME NEW order, NEW C, NEW S, IsLruOrder(order, C)
  PROVE  IsLruOrder(Without(order, S), C \ S)
BY DEF IsLruOrder, Without

LEMMA TouchOrder ==
  ASSUME NEW order, NEW C, NEW k, IsLruOrder(order, C)
  PROVE  IsLruOrder(Touch(order, k, C), C \cup {k})
BY DEF IsLruOrder, Without, Touch

\* after a use of k the order relates the other keys as before, k above them
LEMMA TouchPairs ==
  ASSUME NEW order, NEW C, NEW k, IsLruOrder(order, C), NEW a, NEW b
  PROVE  <<a, b>> \in Touch(order, k, C) <=>
           \/ a # k /\ b # k /\ <<a, b>> \in order
           \/ a = k /\ b \in C /\ b # k
BY DEF Touch, Without

LEMMA WithoutPairs ==
  ASSUME NEW order, NEW C, NEW S, IsLruOrder(order, C), NEW a, NEW b
  PROVE  <<a, b>> \in Without(order, S) <=> a \notin S /\ b \notin S /\ <<a, b>> \in order
BY DEF Without

-----------------------------------------------------------------------------
(* The list. *)

\* nodes of C linked to nodes of C
NodesOver(C) == [C -> [value : Value, prev : C \cup {Nil}, next : C \cup {Nil}]]

Sound(l, order) == ListOK(l) /\ Represents(l, order)

\* new is the nodes old after b became the successor of a
JoinsTo(C, old, new, a, b) ==
  /\ new \in NodesOver(C)
  /\ \A j \in C :
       /\ new[j].value = old[j].value
       /\ new[j].next = IF j = a THEN b ELSE old[j].next
       /\ new[j].prev = IF j = b THEN a ELSE old[j].prev

LEMMA JoinedNodes ==
  ASSUME NEW C, NEW node, node \in NodesOver(C),
         NEW a \in C \cup {Nil}, NEW b \in C \cup {Nil}
  PROVE  JoinsTo(C, node, Joined(node, a, b), a, b)
BY DEF Joined, JoinsTo, NodesOver

\* a key has one neighbour on each side
LEMMA OneNeighbour ==
  ASSUME NEW C, NEW order, IsLruOrder(order, C), NEW a \in C, NEW b \in C, NEW c \in C
  PROVE  /\ Adjacent(order, C, a, c) /\ Adjacent(order, C, b, c) => a = b
         /\ Adjacent(order, C, c, a) /\ Adjacent(order, C, c, b) => a = b
BY DEF IsLruOrder, Adjacent

\* the list after a node was linked at its front
LEMMA FrontLinks ==
  ASSUME NEW C, NEW node, node \in NodesOver(C), NEW front \in C \cup {Nil}, NEW tail,
         Nil \notin C, NEW k \in C, front # k
  PROVE  LET m == AtFront(node, front, tail, k) IN
         /\ m = [node |-> m.node, front |-> k, tail |-> tail]
         /\ m.node \in NodesOver(C)
         /\ \A j \in C :
              /\ m.node[j].next = IF j = k THEN front ELSE node[j].next
              /\ m.node[j].prev = IF j = k THEN Nil ELSE IF j = front THEN k ELSE node[j].prev
<1> DEFINE x == Joined(node, Nil, k)
           y == Joined(x, k, front)
<1>1. JoinsTo(C, node, x, Nil, k)
  BY JoinedNodes
<1> HIDE DEF x
<1>2. JoinsTo(C, x, y, k, front)
  <2>1. x \in NodesOver(C) /\ k \in C \cup {Nil}
    BY <1>1 DEF JoinsTo
  <2> QED
    BY <2>1, JoinedNodes
<1>3. AtFront(node, front, tail, k) = [node |-> y, front |-> k, tail |-> tail]
  BY DEF AtFront, x
<1> HIDE DEF y
<1> QED
  BY <1>1, <1>2, <1>3 DEF JoinsTo

\* the links of the list after a node that was not at the front is touched
LEMMA TouchedLinks ==
  ASSUME NEW l, NEW order, Sound(l, order), NEW k \in Keys(l), l.node[k].prev # Nil
  PROVE  LET m == Touched(l, k)
             p == l.node[k].prev
             q == l.node[k].next
         IN
         /\ Keys(m) = Keys(l)
         /\ ListOK(m)
         /\ m.front = k
         /\ m.tail = IF q = Nil THEN p ELSE l.tail
         /\ \A j \in Keys(l) :
              /\ m.node[j].next = IF j = k THEN l.front ELSE IF j = p THEN q ELSE l.node[j].next
              /\ m.node[j].prev = IF j = k THEN Nil ELSE IF j = l.front THEN k
                                  ELSE IF j = q THEN p ELSE l.node[j].prev
<1> DEFINE p == l.node[k].prev
           q == l.node[k].next
           t == IF q = Nil THEN p ELSE l.tail
           C == Keys(l)
           x == Joined(l.node, p, q)
           m == AtFront(x, l.front, t, k)
<1>1. /\ l.node \in NodesOver(C)
      /\ l.front \in C \cup {Nil} /\ l.tail \in C \cup {Nil} /\ Nil \notin C
      /\ C \subseteq Key
  BY NilAssumption DEF Sound, ListOK, Pointer, NodesOver
<1>2. p \in C \cup {Nil} /\ q \in C \cup {Nil}
  BY <1>1 DEF NodesOver
<1>3. l.front # k
  BY <1>1, <1>2 DEF Sound, Represents, Youngest, Adjacent
<1>4. Touched(l, k) = m
  BY DEF Touched
<1>5. t \in C \cup {Nil}
  BY <1>1, <1>2
<1> HIDE DEF p, q, t, C
<1>6. JoinsTo(C, l.node, x, p, q)
  BY <1>1, <1>2, JoinedNodes
<1> HIDE DEF x
<1>7. k \in C
  BY DEF C
<1>8. /\ m = [node |-> m.node, front |-> k, tail |-> t]
      /\ m.node \in NodesOver(C)
      /\ \A j \in C :
           /\ m.node[j].next = IF j = k THEN l.front ELSE x[j].next
           /\ m.node[j].prev = IF j = k THEN Nil ELSE IF j = l.front THEN k ELSE x[j].prev
  BY <1>1, <1>3, <1>6, <1>7, FrontLinks DEF JoinsTo
<1> HIDE DEF m
<1>9. Keys(m) = C
  BY <1>8 DEF Keys, NodesOver
<1>10. m.front = k /\ m.tail = t
  BY <1>8
<1>11. ListOK(m)
  BY <1>1, <1>5, <1>7, <1>8, <1>9, <1>10 DEF ListOK, Pointer, NodesOver
<1> QED
  BY <1>4, <1>6, <1>8, <1>9, <1>10, <1>11 DEF p, q, t, C, JoinsTo

\* the same for the two other ways the list changes
LEMMA PushedLinks ==
  ASSUME NEW l, ListOK(l), NEW k \in Key \ Keys(l), NEW v \in Value
  PROVE  LET m == Pushed(l, k, v) IN
         /\ Keys(m) = Keys(l) \cup {k}
         /\ ListOK(m)
         /\ m.front = k
         /\ m.tail = IF l.tail = Nil THEN k ELSE l.tail
         /\ m.node[k].next = l.front /\ m.node[k].prev = Nil
         /\ \A j \in Keys(l) :
              /\ m.node[j].next = l.node[j].next
              /\ m.node[j].prev = IF j = l.front THEN k ELSE l.node[j].prev
<1> DEFINE C == Keys(l) \cup {k}
           t == IF l.tail = Nil THEN k ELSE l.tail
           x == [j \in C |-> IF j = k THEN [value |-> v, prev |-> Nil, next |-> Nil] ELSE l.node[j]]
           m == AtFront(x, l.front, t, k)
<1>1. /\ l.node \in NodesOver(Keys(l))
      /\ l.front \in C \cup {Nil} /\ l.tail \in C \cup {Nil} /\ Nil \notin C
      /\ C \subseteq Key /\ k \in C /\ l.front # k
  BY NilAssumption DEF ListOK, Pointer, NodesOver
<1>2. Pushed(l, k, v) = m
  BY DEF Pushed
<1>3. t \in C \cup {Nil}
  BY <1>1
<1>4. x \in NodesOver(C)
  <2>1. \A j \in Keys(l) : l.node[j] \in [value : Value, prev : C \cup {Nil}, next : C \cup {Nil}]
    BY <1>1 DEF NodesOver
  <2> QED
    BY <2>1 DEF NodesOver
<1>5. /\ x[k].next = Nil /\ x[k].prev = Nil
      /\ \A j \in Keys(l) : x[j] = l.node[j]
  OBVIOUS
<1> HIDE DEF x, t, C
<1>6. /\ m = [node |-> m.node, front |-> k, tail |-> t]
      /\ m.node \in NodesOver(C)
      /\ \A j \in C :
           /\ m.node[j].next = IF j = k THEN l.front ELSE x[j].next
           /\ m.node[j].prev = IF j = k THEN Nil ELSE IF j = l.front THEN k ELSE x[j].prev
  BY <1>1, <1>4, FrontLinks
<1> HIDE DEF m
<1>7. Keys(m) = C /\ m.front = k /\ m.tail = t
  BY <1>6 DEF Keys, NodesOver
<1>8. ListOK(m)
  BY <1>1, <1>3, <1>6, <1>7 DEF ListOK, Pointer, NodesOver
<1> QED
  BY <1>1, <1>2, <1>5, <1>6, <1>7, <1>8 DEF t, C

LEMMA RemovedLinks ==
  ASSUME NEW l, NEW order, Sound(l, order), NEW k \in Keys(l)
  PROVE  LET m == Removed(l, k)
             p == l.node[k].prev
             q == l.node[k].next
         IN
         /\ Keys(m) = Keys(l) \ {k}
         /\ ListOK(m)
         /\ m.front = IF l.front = k THEN q ELSE l.front
         /\ m.tail = IF l.tail = k THEN p ELSE l.tail
         /\ \A j \in Keys(m) :
              /\ m.node[j].next = IF j = p THEN q ELSE l.node[j].next
              /\ m.node[j].prev = IF j = q THEN p ELSE l.node[j].prev
<1> DEFINE p == l.node[k].prev
           q == l.node[k].next
           C == Keys(l)
           x == Joined(l.node, p, q)
           m == Removed(l, k)
<1>1. /\ l.node \in NodesOver(C)
      /\ l.front \in C \cup {Nil} /\ l.tail \in C \cup {Nil} /\ Nil \notin C
      /\ C \subseteq Key
  BY NilAssumption DEF Sound, ListOK, Pointer, NodesOver
<1>2. p \in (C \cup {Nil}) \ {k} /\ q \in (C \cup {Nil}) \ {k}
  <2>1. p \in C \cup {Nil} /\ q \in C \cup {Nil}
    BY <1>1 DEF NodesOver
  <2> QED
    BY <1>1, <2>1 DEF Sound, Represents, IsLruOrder, Adjacent
\* only the neighbours of k pointed to it
<1>3. ASSUME NEW j \in C \ {k}
      PROVE  /\ l.node[j].next = k => j = p
             /\ l.node[j].prev = k => j = q
  <2>1. /\ l.node[j].next = k => Adjacent(order, C, j, k)
        /\ l.node[j].prev = k => Adjacent(order, C, k, j)
    BY <1>1 DEF Sound, Represents
  <2>2. /\ IF q = Nil THEN Oldest(order, C, k) ELSE Adjacent(order, C, k, q)
        /\ IF p = Nil THEN Youngest(order, C, k) ELSE Adjacent(order, C, p, k)
        /\ IsLruOrder(order, C)
    BY DEF Sound, Represents
  <2> HIDE DEF p, q, C
  <2>3. l.node[j].next = k => j = p
    <3>1. Adjacent(order, C, j, k) => p # Nil
      BY <2>2 DEF Adjacent, Youngest
    <3> QED
      BY <1>2, <2>1, <2>2, <3>1, OneNeighbour DEF C
  <2>4. l.node[j].prev = k => j = q
    <3>1. Adjacent(order, C, k, j) => q # Nil
      BY <2>2 DEF Adjacent, Oldest
    <3> QED
      BY <1>2, <2>1, <2>2, <3>1, OneNeighbour DEF C
  <2> QED
    BY <2>3, <2>4
<1>4. m = [node |-> [j \in C \ {k} |-> x[j]], front |-> IF l.front = k THEN q ELSE l.front,
           tail |-> IF l.tail = k THEN p ELSE l.tail]
  BY DEF Removed
<1>5. JoinsTo(C, l.node, x, p, q)
  BY <1>1, <1>2, JoinedNodes
<1> HIDE DEF x, p, q, C, m
<1>6. /\ Keys(m) = C \ {k}
      /\ m.node = [j \in C \ {k} |-> x[j]]
      /\ m.front = IF l.front = k THEN q ELSE l.front
      /\ m.tail = IF l.tail = k THEN p ELSE l.tail
      /\ m = [node |-> m.node, front |-> m.front, tail |-> m.tail]
  BY <1>4 DEF Keys
<1>7. \A j \in C \ {k} :
        /\ x[j].value \in Value
        /\ x[j].next \in (C \cup {Nil}) \ {k} /\ x[j].prev \in (C \cup {Nil}) \ {k}
        /\ x[j] = [value |-> x[j].value, prev |-> x[j].prev, next |-> x[j].next]
  BY <1>1, <1>2, <1>3, <1>5 DEF JoinsTo, NodesOver
<1>8. ListOK(m)
  <2>1. m.node \in [C \ {k} -> [value : Value, prev : Pointer(m), next : Pointer(m)]]
    <3>1. Pointer(m) = (C \ {k}) \cup {Nil} /\ k # Nil
      BY <1>1, <1>6 DEF Pointer, C
    <3>2. \A j \in C \ {k} : x[j] \in [value : Value, prev : Pointer(m), next : Pointer(m)]
      <4> SUFFICES ASSUME NEW j \in C \ {k}
                   PROVE  x[j] \in [value : Value, prev : Pointer(m), next : Pointer(m)]
        OBVIOUS
      <4>1. /\ x[j].value \in Value
            /\ x[j].next \in Pointer(m) /\ x[j].prev \in Pointer(m)
        BY <1>7, <3>1
      <4>2. x[j] = [value |-> x[j].value, prev |-> x[j].prev, next |-> x[j].next]
        BY <1>7
      <4> QED
        BY <4>1, <4>2
    <3> QED
      BY <1>6, <3>2
  <2>2. m.front \in Pointer(m) /\ m.tail \in Pointer(m)
    BY <1>1, <1>2, <1>6 DEF Pointer
  <2> QED
    BY <1>1, <1>6, <2>1, <2>2 DEF ListOK
<1> QED
  BY <1>5, <1>6, <1>8 DEF p, q, C, m, JoinsTo

-----------------------------------------------------------------------------
(* The order. *)

\* the neighbours in the order after k was used: k's old ones become neighbours
LEMMA TouchNeighbours ==
  ASSUME NEW C, NEW order, IsLruOrder(order, C), NEW k \in C
  PROVE  LET new == Touch(order, k, C) IN
         /\ Youngest(new, C, k)
         /\ \A a \in C : a # k /\ Youngest(order, C, a) => Adjacent(new, C, k, a)
         /\ \A a, b \in C : a # k /\ b # k /\ Adjacent(order, C, a, b) => Adjacent(new, C, a, b)
         /\ \A a, b \in C : Adjacent(order, C, a, k) /\ Adjacent(order, C, k, b) => Adjacent(new, C, a, b)
         /\ \A a \in C : a # k /\ Oldest(order, C, a) => Oldest(new, C, a)
         /\ \A a \in C : Adjacent(order, C, a, k) /\ Oldest(order, C, k) => Oldest(new, C, a)
<1> DEFINE new == Touch(order, k, C)
<1>1. \A a, b \in C : <<a, b>> \in new <=> (a # k /\ b # k /\ <<a, b>> \in order) \/ (a = k /\ b # k)
  <2> SUFFICES ASSUME NEW a \in C, NEW b \in C
               PROVE  <<a, b>> \in new <=> (a # k /\ b # k /\ <<a, b>> \in order) \/ (a = k /\ b # k)
    OBVIOUS
  <2> QED
    BY TouchPairs
<1> HIDE DEF new
<1>2. Youngest(new, C, k) /\ \A a \in C : a # k /\ Youngest(order, C, a) => Adjacent(new, C, k, a)
  BY <1>1 DEF Youngest, Adjacent
<1>3. \A a, b \in C : a # k /\ b # k /\ Adjacent(order, C, a, b) => Adjacent(new, C, a, b)
  BY <1>1 DEF Adjacent
<1>4. \A a, b \in C : Adjacent(order, C, a, k) /\ Adjacent(order, C, k, b) => Adjacent(new, C, a, b)
  BY <1>1 DEF Adjacent, IsLruOrder
<1>5. \A a \in C : a # k /\ Oldest(order, C, a) => Oldest(new, C, a)
  BY <1>1 DEF Oldest
<1>6. \A a \in C : Adjacent(order, C, a, k) /\ Oldest(order, C, k) => Oldest(new, C, a)
  BY <1>1 DEF Oldest, Adjacent, IsLruOrder
<1> QED
  BY <1>2, <1>3, <1>4, <1>5, <1>6 DEF new

LEMMA TouchedSound ==
  ASSUME NEW l, NEW order, Sound(l, order), NEW k \in Keys(l)
  PROVE  /\ Sound(Touched(l, k), Touch(order, k, Keys(l)))
         /\ Keys(Touched(l, k)) = Keys(l)
<1> DEFINE p == l.node[k].prev
           q == l.node[k].next
           m == Touched(l, k)
           C == Keys(l)
           new == Touch(order, k, C)
<1>1. IsLruOrder(order, C) /\ Nil \notin C
  BY NilAssumption DEF Sound, Represents, ListOK
<1>2. IsLruOrder(new, C)
  <2>1. C \cup {k} = C
    OBVIOUS
  <2> QED
    BY <1>1, <2>1, TouchOrder
<1>3. CASE p = Nil
  <2>1. m = l
    BY <1>3 DEF Touched
  <2>2. Youngest(order, C, k)
    BY <1>3 DEF Sound, Represents
  <2>3. new = order
    <3>1. new \subseteq C \X C /\ order \subseteq C \X C
      BY <1>1, <1>2 DEF IsLruOrder
    <3>2. ASSUME NEW a \in C, NEW b \in C
          PROVE  <<a, b>> \in new <=> <<a, b>> \in order
      <4>1. <<a, b>> \in new <=> (a # k /\ b # k /\ <<a, b>> \in order) \/ (a = k /\ b \in C /\ b # k)
        BY <1>1, TouchPairs
      <4> HIDE DEF new
      <4> QED
        BY <1>1, <2>2, <4>1 DEF Youngest, IsLruOrder
    <3> HIDE DEF new
    <3> QED
      BY <3>1, <3>2
  <2> QED
    BY <2>1, <2>3
<1>4. CASE p # Nil
  <2>1. /\ Keys(m) = C
        /\ ListOK(m)
        /\ m.front = k
        /\ m.tail = IF q = Nil THEN p ELSE l.tail
        /\ \A j \in C :
             /\ m.node[j].next = IF j = k THEN l.front ELSE IF j = p THEN q ELSE l.node[j].next
             /\ m.node[j].prev = IF j = k THEN Nil ELSE IF j = l.front THEN k
                                 ELSE IF j = q THEN p ELSE l.node[j].prev
    BY <1>4, TouchedLinks
  <2>2. /\ Adjacent(order, C, p, k)
        /\ IF q = Nil THEN Oldest(order, C, k) ELSE Adjacent(order, C, k, q)
        /\ Youngest(order, C, l.front) /\ Oldest(order, C, l.tail)
    BY <1>4 DEF Sound, Represents
  <2>3. /\ k \in C /\ p \in C /\ (q # Nil => q \in C) /\ l.front \in C /\ l.tail \in C
        /\ \A j \in C : /\ l.node[j].next \in C \cup {Nil}
                        /\ l.node[j].prev \in C \cup {Nil}
    BY <1>4 DEF Sound, ListOK, Pointer, Represents, Youngest, Oldest
  <2>4. \A j \in C :
          /\ IF l.node[j].next = Nil THEN Oldest(order, C, j) ELSE Adjacent(order, C, j, l.node[j].next)
          /\ IF l.node[j].prev = Nil THEN Youngest(order, C, j) ELSE Adjacent(order, C, l.node[j].prev, j)
    BY DEF Sound, Represents
  <2> HIDE DEF p, q, m, C
  <2>5. /\ Youngest(new, C, k)
        /\ \A a \in C : a # k /\ Youngest(order, C, a) => Adjacent(new, C, k, a)
        /\ \A a, b \in C : a # k /\ b # k /\ Adjacent(order, C, a, b) => Adjacent(new, C, a, b)
        /\ \A a, b \in C : Adjacent(order, C, a, k) /\ Adjacent(order, C, k, b) => Adjacent(new, C, a, b)
        /\ \A a \in C : a # k /\ Oldest(order, C, a) => Oldest(new, C, a)
        /\ \A a \in C : Adjacent(order, C, a, k) /\ Oldest(order, C, k) => Oldest(new, C, a)
    BY <1>1, TouchNeighbours DEF C
  <2> HIDE DEF new
  <2>6. l.front # k /\ p # k /\ q # k
    BY <1>1, <2>2, <2>3 DEF Youngest, Adjacent, IsLruOrder
  <2>7. ASSUME NEW j \in C
        PROVE  IF m.node[j].next = Nil THEN Oldest(new, C, j) ELSE Adjacent(new, C, j, m.node[j].next)
    <3>1. CASE j = k
      BY <1>1, <2>1, <2>2, <2>3, <2>5, <2>6, <3>1
    <3>2. CASE j = p
      BY <1>1, <2>1, <2>2, <2>3, <2>5, <2>6, <3>2
    <3>3. CASE j # k /\ j # p
      <4>1. l.node[j].next # k
        BY <1>1, <2>2, <2>3, <2>4, <3>3, OneNeighbour
      <4> QED
        BY <2>1, <2>3, <2>4, <2>5, <3>3, <4>1
    <3> QED
      BY <3>1, <3>2, <3>3
  <2>8. ASSUME NEW j \in C
        PROVE  IF m.node[j].prev = Nil THEN Youngest(new, C, j) ELSE Adjacent(new, C, m.node[j].prev, j)
    <3>1. CASE j = k
      BY <2>1, <2>5, <3>1
    <3>2. CASE j = l.front
      BY <1>1, <2>1, <2>2, <2>3, <2>5, <2>6, <3>2
    <3>3. CASE j # k /\ j # l.front /\ j = q
      BY <1>1, <2>1, <2>2, <2>3, <2>5, <3>3
    <3>4. CASE j # k /\ j # l.front /\ j # q
      <4>1. l.node[j].prev # Nil
        BY <1>1, <2>2, <2>3, <2>4, <3>4 DEF Youngest, IsLruOrder
      <4>2. l.node[j].prev # k
        <5>1. SUFFICES ASSUME Adjacent(order, C, k, j) PROVE FALSE
          BY <2>4, <4>1
        <5>2. q # Nil
          BY <2>2, <5>1 DEF Oldest, Adjacent
        <5> QED
          BY <1>1, <2>2, <2>3, <3>4, <5>1, <5>2, OneNeighbour DEF C
      <4> QED
        BY <2>1, <2>3, <2>4, <2>5, <3>4, <4>1, <4>2
    <3> QED
      BY <3>1, <3>2, <3>3, <3>4
  <2>9. Oldest(new, C, m.tail)
    <3>1. q # Nil => l.tail # k
      BY <2>2, <2>3 DEF Adjacent, Oldest
    <3> QED
      BY <2>1, <2>2, <2>3, <2>5, <3>1
  <2>10. Represents(m, new)
    BY <1>2, <2>1, <2>3, <2>5, <2>7, <2>8, <2>9 DEF Represents
  <2> QED
    BY <2>1, <2>10 DEF Sound, m, new, C
<1> QED
  BY <1>3, <1>4

\* the neighbours in the order after a new key was used
LEMMA PushNeighbours ==
  ASSUME NEW C, NEW order, IsLruOrder(order, C), NEW k, k \notin C
  PROVE  LET new == Touch(order, k, C)
             D   == C \cup {k}
         IN
         /\ Youngest(new, D, k)
         /\ C = {} => Oldest(new, D, k)
         /\ \A a \in C : Youngest(order, C, a) => Adjacent(new, D, k, a)
         /\ \A a, b \in C : Adjacent(order, C, a, b) => Adjacent(new, D, a, b)
         /\ \A a \in C : Oldest(order, C, a) => Oldest(new, D, a)
<1> DEFINE new == Touch(order, k, C)
           D == C \cup {k}
<1>1. \A a, b \in D : <<a, b>> \in new <=> (a # k /\ b # k /\ <<a, b>> \in order) \/ (a = k /\ b # k)
  <2> SUFFICES ASSUME NEW a \in D, NEW b \in D
               PROVE  <<a, b>> \in new <=> (a # k /\ b # k /\ <<a, b>> \in order) \/ (a = k /\ b # k)
    OBVIOUS
  <2> QED
    BY TouchPairs
<1> HIDE DEF new
<1>2. Youngest(new, D, k) /\ (C = {} => Oldest(new, D, k))
  BY <1>1 DEF Youngest, Oldest
<1>3. \A a \in C : Youngest(order, C, a) => Adjacent(new, D, k, a)
  BY <1>1 DEF Youngest, Adjacent
<1>4. \A a, b \in C : Adjacent(order, C, a, b) => Adjacent(new, D, a, b)
  BY <1>1 DEF Adjacent
<1>5. \A a \in C : Oldest(order, C, a) => Oldest(new, D, a)
  BY <1>1 DEF Oldest
<1> QED
  BY <1>2, <1>3, <1>4, <1>5 DEF new

LEMMA PushedSound ==
  ASSUME NEW l, NEW order, Sound(l, order), NEW k \in Key \ Keys(l), NEW v \in Value
  PROVE  Sound(Pushed(l, k, v), Touch(order, k, Keys(l)))
<1> DEFINE m == Pushed(l, k, v)
           C == Keys(l)
           D == C \cup {k}
           new == Touch(order, k, C)
<1>1. IsLruOrder(order, C) /\ Nil \notin D /\ k \notin C
  BY NilAssumption DEF Sound, Represents, ListOK
<1>2. IsLruOrder(new, D)
  BY <1>1, TouchOrder
<1>3. /\ Keys(m) = D
      /\ ListOK(m)
      /\ m.front = k
      /\ m.tail = IF l.tail = Nil THEN k ELSE l.tail
      /\ m.node[k].next = l.front /\ m.node[k].prev = Nil
      /\ \A j \in C :
           /\ m.node[j].next = l.node[j].next
           /\ m.node[j].prev = IF j = l.front THEN k ELSE l.node[j].prev
  BY PushedLinks DEF Sound
<1>4. /\ \A j \in C :
           /\ IF l.node[j].next = Nil THEN Oldest(order, C, j) ELSE Adjacent(order, C, j, l.node[j].next)
           /\ IF l.node[j].prev = Nil THEN Youngest(order, C, j) ELSE Adjacent(order, C, l.node[j].prev, j)
      /\ IF C = {} THEN l.front = Nil /\ l.tail = Nil
                   ELSE Youngest(order, C, l.front) /\ Oldest(order, C, l.tail)
  BY DEF Sound, Represents
<1>5. \A j \in C : l.node[j].next \in C \cup {Nil} /\ l.node[j].prev \in C \cup {Nil}
  BY DEF Sound, ListOK, Pointer
<1>6. /\ Youngest(new, D, k)
      /\ C = {} => Oldest(new, D, k)
      /\ \A a \in C : Youngest(order, C, a) => Adjacent(new, D, k, a)
      /\ \A a, b \in C : Adjacent(order, C, a, b) => Adjacent(new, D, a, b)
      /\ \A a \in C : Oldest(order, C, a) => Oldest(new, D, a)
  BY <1>1, PushNeighbours
<1> HIDE DEF m, new, C
<1>7. C # {} => l.front \in C /\ l.tail \in C
  BY <1>4 DEF Youngest, Oldest
<1>8. ASSUME NEW j \in D
      PROVE  IF m.node[j].next = Nil THEN Oldest(new, D, j) ELSE Adjacent(new, D, j, m.node[j].next)
  <2>1. CASE j = k
    BY <1>1, <1>3, <1>4, <1>6, <1>7, <2>1
  <2>2. CASE j # k
    BY <1>1, <1>3, <1>4, <1>5, <1>6, <2>2
  <2> QED
    BY <2>1, <2>2
<1>9. ASSUME NEW j \in D
      PROVE  IF m.node[j].prev = Nil THEN Youngest(new, D, j) ELSE Adjacent(new, D, m.node[j].prev, j)
  <2>1. CASE j = k
    BY <1>3, <1>6, <2>1
  <2>2. CASE j = l.front /\ j # k
    BY <1>1, <1>3, <1>4, <1>6, <2>2
  <2>3. CASE j # l.front /\ j # k
    <3>1. l.node[j].prev # Nil
      BY <1>1, <1>4, <1>7, <2>3 DEF Youngest, IsLruOrder
    <3> QED
      BY <1>1, <1>3, <1>4, <1>5, <1>6, <2>3, <3>1
  <2> QED
    BY <2>1, <2>2, <2>3
<1>10. Oldest(new, D, m.tail)
  BY <1>1, <1>3, <1>4, <1>6, <1>7
<1>11. Represents(m, new)
  BY <1>2, <1>3, <1>6, <1>8, <1>9, <1>10 DEF Represents
<1> QED
  BY <1>3, <1>11 DEF Sound, m, new, C

\* the neighbours in the order without k: k's old ones become neighbours
LEMMA RemoveNeighbours ==
  ASSUME NEW C, NEW order, IsLruOrder(order, C), NEW k \in C
  PROVE  LET new == Without(order, {k})
             D   == C \ {k}
         IN
         /\ \A a, b \in D : Adjacent(order, C, a, b) => Adjacent(new, D, a, b)
         /\ \A a, b \in D : Adjacent(order, C, a, k) /\ Adjacent(order, C, k, b) => Adjacent(new, D, a, b)
         /\ \A a \in D : Oldest(order, C, a) \/ (Adjacent(order, C, a, k) /\ Oldest(order, C, k))
                           => Oldest(new, D, a)
         /\ \A b \in D : Youngest(order, C, b) \/ (Adjacent(order, C, k, b) /\ Youngest(order, C, k))
                           => Youngest(new, D, b)
         /\ Youngest(order, C, k) /\ Oldest(order, C, k) => D = {}
<1> DEFINE new == Without(order, {k})
           D == C \ {k}
<1>1. \A a, b \in D : <<a, b>> \in new <=> <<a, b>> \in order
  <2> SUFFICES ASSUME NEW a \in D, NEW b \in D
               PROVE  <<a, b>> \in new <=> <<a, b>> \in order
    OBVIOUS
  <2> QED
    BY WithoutPairs
<1> HIDE DEF new
<1>2. \A a, b \in D : Adjacent(order, C, a, b) => Adjacent(new, D, a, b)
  BY <1>1 DEF Adjacent
<1>3. \A a, b \in D : Adjacent(order, C, a, k) /\ Adjacent(order, C, k, b) => Adjacent(new, D, a, b)
  BY <1>1 DEF Adjacent, IsLruOrder
<1>4. \A a \in D : Oldest(order, C, a) \/ (Adjacent(order, C, a, k) /\ Oldest(order, C, k))
                     => Oldest(new, D, a)
  BY <1>1 DEF Oldest, Adjacent, IsLruOrder
<1>5. \A b \in D : Youngest(order, C, b) \/ (Adjacent(order, C, k, b) /\ Youngest(order, C, k))
                     => Youngest(new, D, b)
  BY <1>1 DEF Youngest, Adjacent, IsLruOrder
<1>6. Youngest(order, C, k) /\ Oldest(order, C, k) => D = {}
  BY DEF Youngest, Oldest, IsLruOrder
<1> QED
  BY <1>2, <1>3, <1>4, <1>5, <1>6 DEF new

LEMMA RemovedSound ==
  ASSUME NEW l, NEW order, Sound(l, order), NEW k \in Keys(l)
  PROVE  Sound(Removed(l, k), Without(order, {k}))
<1> DEFINE p == l.node[k].prev
           q == l.node[k].next
           m == Removed(l, k)
           C == Keys(l)
           D == C \ {k}
           new == Without(order, {k})
<1>1. IsLruOrder(order, C) /\ Nil \notin C /\ k \in C
  BY NilAssumption DEF Sound, Represents, ListOK
<1>2. IsLruOrder(new, D)
  BY <1>1, WithoutOrder
<1>3. /\ Keys(m) = D
      /\ ListOK(m)
      /\ m.front = IF l.front = k THEN q ELSE l.front
      /\ m.tail = IF l.tail = k THEN p ELSE l.tail
      /\ \A j \in D :
           /\ m.node[j].next = IF j = p THEN q ELSE l.node[j].next
           /\ m.node[j].prev = IF j = q THEN p ELSE l.node[j].prev
  BY RemovedLinks
<1>4. /\ \A j \in C :
           /\ IF l.node[j].next = Nil THEN Oldest(order, C, j) ELSE Adjacent(order, C, j, l.node[j].next)
           /\ IF l.node[j].prev = Nil THEN Youngest(order, C, j) ELSE Adjacent(order, C, l.node[j].prev, j)
      /\ Youngest(order, C, l.front) /\ Oldest(order, C, l.tail)
  BY DEF Sound, Represents
<1>5. \A j \in C : l.node[j].next \in C \cup {Nil} /\ l.node[j].prev \in C \cup {Nil}
  BY DEF Sound, ListOK, Pointer
<1>6. /\ IF q = Nil THEN Oldest(order, C, k) ELSE Adjacent(order, C, k, q)
      /\ IF p = Nil THEN Youngest(order, C, k) ELSE Adjacent(order, C, p, k)
      /\ p \in C \cup {Nil} /\ q \in C \cup {Nil}
  BY <1>4, <1>5
<1> HIDE DEF p, q, m, C
<1>7. /\ \A a, b \in D : Adjacent(order, C, a, b) => Adjacent(new, D, a, b)
      /\ \A a, b \in D : Adjacent(order, C, a, k) /\ Adjacent(order, C, k, b) => Adjacent(new, D, a, b)
      /\ \A a \in D : Oldest(order, C, a) \/ (Adjacent(order, C, a, k) /\ Oldest(order, C, k))
                        => Oldest(new, D, a)
      /\ \A b \in D : Youngest(order, C, b) \/ (Adjacent(order, C, k, b) /\ Youngest(order, C, k))
                        => Youngest(new, D, b)
      /\ Youngest(order, C, k) /\ Oldest(order, C, k) => D = {}
  BY <1>1, RemoveNeighbours
<1> HIDE DEF new
<1>8. p # k /\ q # k /\ l.front \in C /\ l.tail \in C
  BY <1>1, <1>4, <1>6 DEF Adjacent, IsLruOrder, Youngest, Oldest
<1>9. ASSUME NEW j \in D
      PROVE  IF m.node[j].next = Nil THEN Oldest(new, D, j) ELSE Adjacent(new, D, j, m.node[j].next)
  <2>1. CASE j = p
    BY <1>1, <1>3, <1>6, <1>7, <1>8, <2>1
  <2>2. CASE j # p
    <3>1. l.node[j].next # k
      <4>1. SUFFICES ASSUME Adjacent(order, C, j, k) PROVE FALSE
        BY <1>1, <1>4
      <4>2. p # Nil
        BY <1>6, <4>1 DEF Adjacent, Youngest
      <4> QED
        BY <1>1, <1>6, <2>2, <4>1, <4>2, OneNeighbour
    <3> QED
      BY <1>3, <1>4, <1>5, <1>7, <2>2, <3>1
  <2> QED
    BY <2>1, <2>2
<1>10. ASSUME NEW j \in D
       PROVE  IF m.node[j].prev = Nil THEN Youngest(new, D, j) ELSE Adjacent(new, D, m.node[j].prev, j)
  <2>1. CASE j = q
    BY <1>1, <1>3, <1>6, <1>7, <1>8, <2>1
  <2>2. CASE j # q
    <3>1. l.node[j].prev # k
      <4>1. SUFFICES ASSUME Adjacent(order, C, k, j) PROVE FALSE
        BY <1>1, <1>4
      <4>2. q # Nil
        BY <1>6, <4>1 DEF Adjacent, Oldest
      <4> QED
        BY <1>1, <1>6, <2>2, <4>1, <4>2, OneNeighbour
    <3> QED
      BY <1>3, <1>4, <1>5, <1>7, <2>2, <3>1
  <2> QED
    BY <2>1, <2>2
<1>11. D = {} => m.front = Nil /\ m.tail = Nil
  BY <1>3, <1>6, <1>8
<1>12. D # {} => Youngest(new, D, m.front) /\ Oldest(new, D, m.tail)
  <2>1. l.front = k => Youngest(order, C, k)
    BY <1>4
  <2>2. l.tail = k => Oldest(order, C, k)
    BY <1>4
  <2>3. D # {} /\ l.front = k => Youngest(new, D, m.front)
    BY <1>3, <1>6, <1>7, <1>8, <2>1
  <2>4. D # {} /\ l.tail = k => Oldest(new, D, m.tail)
    BY <1>3, <1>6, <1>7, <1>8, <2>2
  <2> QED
    BY <1>3, <1>4, <1>7, <1>8, <2>3, <2>4
<1>13. Represents(m, new)
  BY <1>2, <1>3, <1>9, <1>10, <1>11, <1>12 DEF Represents
<1> QED
  BY <1>3, <1>13 DEF Sound, m, new, C

\* overwriting a value moves nothing
LEMMA StoredSound ==
  ASSUME NEW l, NEW order, Sound(l, order), NEW k \in Keys(l), NEW v \in Value
  PROVE  Sound(Stored(l, k, v), order) /\ Keys(Stored(l, k, v)) = Keys(l)
<1> DEFINE m == Stored(l, k, v)
           x == [l.node EXCEPT ![k].value = v]
<1>1. l.node \in NodesOver(Keys(l))
  BY DEF Sound, ListOK, Pointer, NodesOver
<1>2. /\ x \in NodesOver(Keys(l))
      /\ \A j \in Keys(l) : x[j].next = l.node[j].next /\ x[j].prev = l.node[j].prev
  BY <1>1 DEF NodesOver
<1>3. m = [node |-> x, front |-> l.front, tail |-> l.tail]
  BY DEF Stored
<1> HIDE DEF x, m
<1>4. m.node = x /\ m.front = l.front /\ m.tail = l.tail /\ Keys(m) = Keys(l)
  BY <1>2, <1>3 DEF Keys, NodesOver
<1>5. ListOK(m)
  BY <1>2, <1>3, <1>4 DEF Sound, ListOK, Pointer, NodesOver
<1>6. Represents(m, order)
  BY <1>2, <1>4 DEF Sound, Represents
<1> QED
  BY <1>4, <1>5, <1>6 DEF Sound, m

-----------------------------------------------------------------------------
(***************************************************************************)
(* After any sequence of LruCache calls the pointers are those of a doubly *)
(* linked list of exactly the nodes of searcher_, in the order in which    *)
(* they were last used: no node is lost from a walk, met twice or dangling.*)
(***************************************************************************)
THEOREM ListStaysInUseOrder == Spec => [](TypeOK /\ InUseOrder)
<1>1. Init => Sound(list, newer)
  BY DEF Init, Empty, Sound, ListOK, Pointer, Keys, Represents, IsLruOrder
<1>2. ASSUME Sound(list, newer), [Next]_vars
      PROVE  Sound(list, newer)'
  <2>1. ASSUME NEW k \in Key, Get(k) PROVE Sound(list, newer)'
    BY <1>2, <2>1, TouchedSound DEF Get
  <2>2. ASSUME NEW k \in Key, Remove(k) PROVE Sound(list, newer)'
    BY <1>2, <2>2, RemovedSound DEF Remove
  <2>3. ASSUME NEW k \in Key, NEW v \in Value, PutNew(k, v) PROVE Sound(list, newer)'
    BY <1>2, <2>3, PushedSound DEF PutNew
  <2>4. ASSUME NEW k \in Key, NEW v \in Value, PutAgain(k, v) PROVE Sound(list, newer)'
    <3> DEFINE s == Stored(list, k, v)
    <3>1. Sound(s, newer) /\ Keys(s) = Keys(list) /\ k \in Keys(s)
      BY <1>2, <2>4, StoredSound DEF PutAgain
    <3>2. list' = Touched(s, k) /\ newer' = Touch(newer, k, Keys(s))
      BY <2>4, <3>1 DEF PutAgain
    <3> HIDE DEF s
    <3> QED
      BY <3>1, <3>2, TouchedSound
  <2>5. CASE Destroy
    BY <2>5 DEF Destroy, Empty, Sound, ListOK, Pointer, Keys, Represents, IsLruOrder
  <2>6. CASE UNCHANGED vars
    BY <1>2, <2>6 DEF vars
  <2> QED
    BY <1>2, <2>1, <2>2, <2>3, <2>4, <2>5, <2>6 DEF Next
<1>3. Sound(list, newer) => TypeOK /\ InUseOrder
  BY DEF Sound, TypeOK, InUseOrder
<1> QED
  BY <1>1, <1>2, <1>3, PTL DEF Spec

(***************************************************************************)
(* LruRemove deletes nodes and Destroy all of them, and no pointer of the  *)
(* list is left to a deleted one.                                          *)
(***************************************************************************)
THEOREM NoDanglingPointer == Spec => []TypeOK
BY ListStaysInUseOrder, PTL
=============================================================================
