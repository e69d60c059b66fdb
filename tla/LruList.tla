------------------------------- MODULE LruList -------------------------------
(***************************************************************************)
(* LruCache of storage/lru_cache.h: a hash set of nodes (searcher_) linked *)
(* into a list from the most to the least recently used.  A key has at     *)
(* most one node, so a node pointer is modelled by the key of the node.    *)
(***************************************************************************)
EXTENDS LruOrder

CONSTANTS
  Key,
  Value,
  Nil    \* nullptr

ASSUME NilAssumption == Nil \notin Key

VARIABLES
  list,  \* node: searcher_ by key; front: lru_front_; tail: lru_tail_
  newer  \* history variable: the order in which the keys were used

vars == <<list, newer>>

Keys(l) == DOMAIN l.node
Empty == [node |-> [k \in {} |-> Nil], front |-> Nil, tail |-> Nil]

\* b becomes the successor of a and a the predecessor of b; either may be Nil
Joined(node, a, b) ==
  [k \in DOMAIN node |-> [node[k] EXCEPT !.next = IF k = a THEN b ELSE @,
                                         !.prev = IF k = b THEN a ELSE @]]

\* k becomes the first of the nodes, of which it is none's neighbour so far
AtFront(node, front, tail, k) ==
  [node |-> Joined(Joined(node, Nil, k), k, front), front |-> k, tail |-> tail]

\* mutant: lru_tail_ stays at the node that moved
Touched_KeepsTail(l, k) ==
  LET n == l.node[k] IN
  IF n.prev = Nil THEN l ELSE AtFront(Joined(l.node, n.prev, n.next), l.front, l.tail, k)

\* LruTouch
Touched(l, k) ==
  LET n == l.node[k] IN
  IF n.prev = Nil THEN l
  ELSE AtFront(Joined(l.node, n.prev, n.next), l.front, IF n.next = Nil THEN n.prev ELSE l.tail, k)

\* LruPush
Pushed(l, k, v) ==
  AtFront([j \in Keys(l) \cup {k} |->
             IF j = k THEN [value |-> v, prev |-> Nil, next |-> Nil] ELSE l.node[j]],
          l.front, IF l.tail = Nil THEN k ELSE l.tail, k)

\* the value of k is overwritten in its node
Stored(l, k, v) ==
  [node |-> [l.node EXCEPT ![k].value = v], front |-> l.front, tail |-> l.tail]

\* mutant: the pointers at the ends are not moved off the deleted node
Removed_KeepsEnds(l, k) ==
  LET n == l.node[k] IN
  [node  |-> [j \in Keys(l) \ {k} |-> Joined(l.node, n.prev, n.next)[j]],
   front |-> l.front,
   tail  |-> l.tail]

\* LruRemove
Removed(l, k) ==
  LET n == l.node[k] IN
  [node  |-> [j \in Keys(l) \ {k} |-> Joined(l.node, n.prev, n.next)[j]],
   front |-> IF l.front = k THEN n.next ELSE l.front,
   tail  |-> IF l.tail = k THEN n.prev ELSE l.tail]

-----------------------------------------------------------------------------
Init == list = Empty /\ newer = {}

\* a look-up counts as a use; a miss changes nothing
Get(k) ==
  /\ k \in Keys(list)
  /\ list' = Touched(list, k)
  /\ newer' = Touch(newer, k, Keys(list))

PutNew(k, v) ==
  /\ k \notin Keys(list)
  /\ list' = Pushed(list, k, v)
  /\ newer' = Touch(newer, k, Keys(list))

PutAgain(k, v) ==
  /\ k \in Keys(list)
  /\ list' = Touched(Stored(list, k, v), k)
  /\ newer' = Touch(newer, k, Keys(list))

Remove(k) ==
  /\ k \in Keys(list)
  /\ list' = Removed(list, k)
  /\ newer' = Without(newer, {k})

Destroy == list' = Empty /\ newer' = {}

Next ==
  \/ \E k \in Key : Get(k) \/ Remove(k) \/ \E v \in Value : PutNew(k, v) \/ PutAgain(k, v)
  \/ Destroy

Spec == Init /\ [][Next]_vars

-----------------------------------------------------------------------------
(***************************************************************************)
(* No dangling pointer: lru_front_, lru_tail_ and the links of the nodes   *)
(* are nullptr or point to nodes that searcher_ still has; LruRemove       *)
(* deletes the node.                                                       *)
(***************************************************************************)
Pointer(l) == Keys(l) \cup {Nil}
ListOK(l) ==
  /\ Keys(l) \subseteq Key
  /\ l = [node |-> l.node, front |-> l.front, tail |-> l.tail]
  /\ l.node \in [Keys(l) -> [value : Value, prev : Pointer(l), next : Pointer(l)]]
  /\ l.front \in Pointer(l)
  /\ l.tail \in Pointer(l)
TypeOK == ListOK(list)

(***************************************************************************)
(* The list is the recency order: from lru_front_ along next_, and from    *)
(* lru_tail_ along prev_, the nodes come in the order of their last use,   *)
(* all of them and each once (Foreach and ForeachReverse follow those      *)
(* links).                                                                 *)
(***************************************************************************)
Adjacent(order, C, a, b) ==
  <<a, b>> \in order /\ \A c \in C : ~(<<a, c>> \in order /\ <<c, b>> \in order)
Youngest(order, C, a) == a \in C /\ \A b \in C : <<b, a>> \notin order
Oldest(order, C, a) == a \in C /\ \A b \in C : <<a, b>> \notin order
Represents(l, order) ==
  /\ IsLruOrder(order, Keys(l))
  /\ \A k \in Keys(l) :
       /\ IF l.node[k].next = Nil THEN Oldest(order, Keys(l), k)
                                  ELSE Adjacent(order, Keys(l), k, l.node[k].next)
       /\ IF l.node[k].prev = Nil THEN Youngest(order, Keys(l), k)
                                  ELSE Adjacent(order, Keys(l), l.node[k].prev, k)
  /\ IF Keys(l) = {} THEN l.front = Nil /\ l.tail = Nil
                     ELSE Youngest(order, Keys(l), l.front) /\ Oldest(order, Keys(l), l.tail)
InUseOrder == Represents(list, newer)
=============================================================================
