------------------------------ MODULE BplusTree ------------------------------
(***************************************************************************)
(* The index of one field, storage/b_plus_tree.cpp: a BplusTreeHandler on  *)
(* the pages of its file, and the BplusTreeScanner that reads a range.     *)
(* One statement runs at a time, so a call of the handler is one step.  An *)
(* operator takes the tree, a record t, and returns the tree the C++ leaves *)
(* behind; indices count from 1 here and from 0 there.                     *)
(***************************************************************************)
EXTENDS Integers, Sequences, FiniteSets, SequencesExt, FiniteSetsExt, TLC

CONSTANTS
  Attrs,         \* values of the indexed field
  Rids,          \* <<page, slot>> of the records that may hold them
  LeafMax,       \* leaf_max_size
  InternalMax,   \* internal_max_size
  Pages,         \* pages the index file has room for, its header's left out
  NoBound,       \* a bound the caller of a scan does not give
  Tables,        \* rows CREATE INDEX may find, in the order of the scan
  MaxCalls       \* bound: calls after that

ASSUME IndexSizesAssumption ==
  /\ LeafMax \in Nat \ {0, 1} /\ InternalMax \in Nat \ {0, 1}
  /\ MaxCalls \in Nat
  /\ IsFiniteSet(Attrs) /\ Attrs \subseteq Int
  /\ IsFiniteSet(Rids) /\ Rids \subseteq Nat \X Nat
  /\ NoBound \notin Attrs
  /\ IsFiniteSet(Pages) /\ Pages \subseteq Nat \ {0, 1}

NoPage == -1

VARIABLES
  tree,       \* nodes, root_page_id and pins: see Tree
  entries,    \* history variable: entries the index said it holds
  result,     \* what the last call returned
  calls,      \* history variables: calls since the index was made,
  deleted,    \*   whether one of them took an entry out,
  unlinked,   \*   whether an eviction dropped a change of a prev_brother,
  lost        \*   or any other change

vars == <<tree, entries, result, calls, deleted, unlinked, lost>>

Entry == [attr : Attrs, rid : Rids]
ZeroKey == [attr |-> 0, rid |-> <<0, 0>>]   \* memset(key, 0, key_length)
Key == Entry \cup {ZeroKey}

(***************************************************************************)
(* A page of the file: keys of a leaf are its entries (the value of an     *)
(* entry repeats the rid of its key); keys[1] of an internal node is not a *)
(* separator, kids are its children.                                       *)
(***************************************************************************)
Node == [leaf : BOOLEAN, keys : Seq(Key), kids : Seq(Pages),
         parent : Pages \cup {NoPage}, prev : Pages \cup {NoPage},
         next : Pages \cup {NoPage}]

EmptyTree == [nodes |-> <<>>, saved |-> <<>>, root |-> NoPage,
              pins |-> [p \in Pages |-> 0], torn |-> FALSE, aborted |-> FALSE]
\* nodes: the allocated pages, as the pool shows them; saved: of the clean
\* frames, what the file holds.  torn: a split whose new node no parent knows.

-----------------------------------------------------------------------------
(* Comparison and search. *)

RidCompare(a, b) == IF a[1] - b[1] = 0 THEN a[1] - b[1] ELSE a[2] - b[2]

KeyCompare(k, l) ==
  IF k.attr # l.attr THEN k.attr - l.attr ELSE RidCompare(k.rid, l.rid)

\* FindLowerBound in the count keys from position first
RECURSIVE LowerBound(_, _, _, _)
LowerBound(keys, key, first, count) ==
  IF count <= 0 THEN [at |-> first, found |-> FALSE]
  ELSE LET step == count \div 2
           c    == KeyCompare(keys[first + step], key)
       IN  CASE c = 0 -> [at |-> first + step, found |-> TRUE]
             [] c < 0 -> LowerBound(keys, key, first + step + 1, count - step - 1)
             [] OTHER -> LowerBound(keys, key, first, step)

LookUpLeaf(n, key) == LowerBound(n.keys, key, 1, Len(n.keys))

InsertPosition(n, key) == LowerBound(n.keys, key, 2, Len(n.keys) - 1).at

\* mutant: a key equal to a separator is looked for on its left
LookUpChild_LeftOfEqual(n, key) ==
  LET at == InsertPosition(n, key)
  IN  IF at > Len(n.keys) \/ KeyCompare(key, n.keys[at]) <= 0 THEN at - 1 ELSE at

LookUpChild(n, key) ==
  LET at == InsertPosition(n, key)
  IN  IF at > Len(n.keys) \/ KeyCompare(key, n.keys[at]) < 0 THEN at - 1 ELSE at

\* FindLeafInternal: side says which child to take, "key" the one key belongs to
RECURSIVE Descend(_, _, _, _)
Descend(t, p, side, key) ==
  LET n == t.nodes[p]
      i == CASE side = "left"  -> 1
             [] side = "right" -> Len(n.kids)
             [] OTHER          -> LookUpChild(n, key)
  IN  IF n.leaf THEN p ELSE Descend(t, n.kids[i], side, key)

FindLeaf(t, key) == Descend(t, t.root, "key", key)
LeftMostPage(t)  == Descend(t, t.root, "left", ZeroKey)
RightMostPage(t) == Descend(t, t.root, "right", ZeroKey)

-----------------------------------------------------------------------------
(* Pages and frames. *)

SetNodes(t, f) == [t EXCEPT !.nodes = f @@ @]   \* f: the pages that change
SetNode(t, p, n) == SetNodes(t, p :> n)
DirtyMark(t, S) == [t EXCEPT !.saved = [p \in DOMAIN @ \ S |-> @[p]]]
\* mutant: the pool hands out frames without a pin
Pin_Never(t, p) == t

Pin(t, p) == [t EXCEPT !.pins[p] = @ + 1]
Unpin(t, S) == [t EXCEPT !.pins = [p \in Pages |-> IF p \in S THEN @[p] - 1
                                                         ELSE @[p]]]
Full(t) == Pages \subseteq DOMAIN t.nodes
NewPage(t) == Min(Pages \ DOMAIN t.nodes)
AddNode(t, p, n) == Pin(SetNode(t, p, n), p)

\* DisposePage: a pinned page waits, and these pins never go away
DisposePage(t, p) ==
  IF t.pins[p] > 0 THEN t
  ELSE DirtyMark([t EXCEPT !.nodes = [q \in DOMAIN @ \ {p} |-> @[q]]], {p})

SetParent(t, S, p) ==
  [t EXCEPT !.nodes = [q \in DOMAIN @ |-> IF q \in S THEN [@[q] EXCEPT !.parent = p]
                                          ELSE @[q]]]

\* mutant: the children are not marked
AdoptKids_Unmarked(t, kids, p) == SetParent(t, ToSet(kids), p)

\* CopyFrom: the children learn their new parent
AdoptKids(t, kids, p) == DirtyMark(SetParent(t, ToSet(kids), p), ToSet(kids))

-----------------------------------------------------------------------------
(* InsertEntry. *)

InsertKey(n, at, key) == [n EXCEPT !.keys = InsertAt(@, at, key)]

InsertKid(n, key, page) ==
  LET at == InsertPosition(n, key)
  IN  [n EXCEPT !.keys = InsertAt(@, at, key), !.kids = InsertAt(@, at, page)]

\* MoveHalfTo: what stays and what goes
LowerHalf(s) == SubSeq(s, 1, Len(s) \div 2)
UpperHalf(s) == SubSeq(s, Len(s) \div 2 + 1, Len(s))

Split(t, p, q) ==
  LET n   == t.nodes[p]
      old == [n EXCEPT !.keys = LowerHalf(@), !.kids = LowerHalf(@)]
      new == [n EXCEPT !.keys = UpperHalf(@), !.kids = UpperHalf(@),
                       !.prev = NoPage, !.next = NoPage]
  IN  AdoptKids(DirtyMark(AddNode(SetNode(t, p, old), q, new), {p, q}), new.kids, q)

NewRoot(p, key, q) ==
  [leaf |-> FALSE, keys |-> <<ZeroKey, key>>, kids |-> <<p, q>>,
   parent |-> NoPage, prev |-> NoPage, next |-> NoPage]

\* UpdateRootPageId keeps the header page the same as file_header
SetRoot(t, p) == [t EXCEPT !.root = p]

\* r is what the function returns: the caller of the recursion ignores it
RECURSIVE InsertEntryIntoParent(_, _, _, _)
InsertEntryIntoParent(t, p, q, key) ==
  LET up     == t.nodes[p].parent
      parent == t.nodes[up]
      new    == NewPage(t)
      torn(r) == [r |-> r, t |-> [t EXCEPT !.torn = TRUE]]
      done(u) == [r |-> "Success", t |-> u]
  IN  CASE up = NoPage /\ Full(t) -> torn("NoBuf")
        [] up = NoPage /\ ~Full(t) ->
             LET u == SetParent(AddNode(t, new, NewRoot(p, key, q)), {p, q}, new)
             IN  done(SetRoot(Unpin(DirtyMark(u, {p, q}), {p, q, new}), new))
        [] up # NoPage /\ Len(parent.kids) < InternalMax ->
             LET u == SetParent(SetNode(t, up, InsertKid(parent, key, q)), {q}, up)
             IN  done(Unpin(DirtyMark(u, {p, q, up}), {p, q}))
        [] up # NoPage /\ Len(parent.kids) >= InternalMax /\ Full(t) ->
             [torn("Success") EXCEPT !.t = Unpin(@, {p, q})]
        [] OTHER ->
             LET u    == Split(Pin(t, up), up, new)
                 host == IF KeyCompare(key, u.nodes[new].keys[1]) > 0 THEN new ELSE up
                 v    == SetParent(SetNode(u, host, InsertKid(u.nodes[host], key, q)),
                                   {q}, host)
             IN  done(InsertEntryIntoParent(Unpin(v, {p, q}), up, new,
                                            v.nodes[new].keys[1]).t)

\* the leaf p, already pinned, is full and key belongs at position at
SplitLeaf(t, p, key, at) ==
  LET q    == NewPage(t)
      next == t.nodes[p].next
      u    == Split(t, p, q)
      \* the page after q is changed and not marked
      linked == [u EXCEPT !.nodes =
                   [x \in DOMAIN @ |->
                      CASE x = p    -> [@[x] EXCEPT !.next = q]
                        [] x = q    -> [@[x] EXCEPT !.prev = p, !.next = next]
                        [] x = next -> [@[x] EXCEPT !.prev = q]
                        [] OTHER    -> @[x]]]
      size == Len(linked.nodes[p].keys)
      host == IF at <= size THEN p ELSE q
      pos  == IF at <= size THEN at ELSE at - size
      v    == SetNode(linked, host, InsertKey(linked.nodes[host], pos, key))
  IN  InsertEntryIntoParent(v, p, q, v.nodes[q].keys[1])

CreateNewTree(t, key) ==
  LET new  == NewPage(t)
      leaf == [leaf |-> TRUE, keys |-> <<key>>, kids |-> <<>>, parent |-> NoPage,
               prev |-> NoPage, next |-> NoPage]
  IN  SetRoot(Unpin(AddNode(t, new, leaf), {new}), new)

InsertEntryIntoLeafNode(t, p, key) ==
  LET n   == t.nodes[p]
      hit == LookUpLeaf(n, key)
      out(r, u) == [r |-> r, t |-> u]
  IN  CASE hit.found -> out("DuplicateKey", t)
        [] ~hit.found /\ Len(n.keys) < LeafMax ->
             out("Success", DirtyMark(SetNode(t, p, InsertKey(n, hit.at, key)), {p}))
        [] ~hit.found /\ Len(n.keys) >= LeafMax /\ Full(t) -> out("NoBuf", t)
        [] OTHER -> LET done == SplitLeaf(Pin(t, p), p, key, hit.at)
                    IN  IF done.r = "Success" THEN done
                        ELSE [done EXCEPT !.t = Unpin(@, {p})]

InsertInto(t, key) ==
  CASE t.root # NoPage -> InsertEntryIntoLeafNode(t, FindLeaf(t, key), key)
    [] t.root = NoPage /\ Full(t) -> [r |-> "NoBuf", t |-> t]
    [] OTHER -> [r |-> "Success", t |-> CreateNewTree(t, key)]

-----------------------------------------------------------------------------
(* DeleteEntry. *)

\* mutant: a node may lose one more
MinSize_OneLess(n) == (IF n.leaf THEN LeafMax - LeafMax \div 2
                       ELSE InternalMax - InternalMax \div 2) - 1

MinSize(n) == IF n.leaf THEN LeafMax - LeafMax \div 2
              ELSE InternalMax - InternalMax \div 2

\* mutant: the page of the old root is not given back
AdjustRoot_Keeps(t, p) ==
  LET n == t.nodes[p]
  IN  IF n.leaf /\ Len(n.keys) > 0 THEN Unpin(DirtyMark(t, {p}), {p})
      ELSE IF n.leaf THEN Unpin(SetRoot(t, NoPage), {p})
      ELSE Unpin(SetRoot(SetParent(t, {n.kids[1]}, NoPage), n.kids[1]), {p})

\* the root p has one item at most
AdjustRoot(t, p) ==
  LET n == t.nodes[p]
      \* the child is changed and not marked
      u == IF n.leaf THEN SetRoot(t, NoPage)
           ELSE SetRoot(SetParent(t, {n.kids[1]}, NoPage), n.kids[1])
  IN  IF n.leaf /\ Len(n.keys) > 0 THEN Unpin(DirtyMark(t, {p}), {p})
      ELSE DisposePage(Unpin(u, {p}), p)

RemoveKey(n, at) == [n EXCEPT !.keys = RemoveAt(@, at)]
RemoveKid(n, at) == [RemoveKey(n, at) EXCEPT !.kids = RemoveAt(@, at)]

\* MoveFirstToEnd if first, or MoveLastToFront: what the giver s keeps, and the
\* taker with the item of s
Kept(s, first) == RemoveAt(s, IF first THEN 1 ELSE Len(s))
Given(old, s, first) == IF first THEN Append(old, s[1]) ELSE <<s[Len(s)]>> \o old

Giver(n, first) ==
  [n EXCEPT !.keys = Kept(@, first), !.kids = IF n.leaf THEN @ ELSE Kept(@, first)]

Taker(m, n, first) ==
  [m EXCEPT !.keys = Given(@, n.keys, first),
            !.kids = IF n.leaf THEN @ ELSE Given(@, n.kids, first)]

\* mutant: the item moves and the separator in up stays
Redistribute_NoSeparator(t, nb, p, up, index) ==
  LET n     == t.nodes[nb]
      first == index = 1
      u     == SetNodes(t, nb :> Giver(n, first) @@ p :> Taker(t.nodes[p], n, first))
      moved == ToSet(n.kids) \ ToSet(Giver(n, first).kids)
  IN  Unpin(DirtyMark(AdoptKids(u, SetToSeq(moved), p), {nb, p, up}), {up, nb, p})

\* one item moves from the neighbor nb to p, which is at index in up
Redistribute(t, nb, p, up, index) ==
  LET n     == t.nodes[nb]
      first == index = 1
      giver == Giver(n, first)
      taker == Taker(t.nodes[p], n, first)
      right == IF first THEN giver ELSE taker
      at    == IF first THEN 2 ELSE index
      u     == SetNodes(t, nb :> giver @@ p :> taker
                           @@ up :> [t.nodes[up] EXCEPT !.keys[at] = right.keys[1]])
      moved == ToSet(n.kids) \ ToSet(giver.kids)
  IN  Unpin(DirtyMark(AdoptKids(u, SetToSeq(moved), p), {nb, p, up}), {up, nb, p})

\* mutant: the leaf after a merged one keeps its link
LinkBack_Never(t, n, left) == t

\* MoveTo of a leaf: the leaf after it learns its new neighbor
LinkBack(t, n, left) ==
  IF n.next = NoPage THEN t
  ELSE DirtyMark(SetNode(t, n.next, [t.nodes[n.next] EXCEPT !.prev = left]), {n.next})

\* MoveTo: the items of n at the end of m
Merged(m, n) ==
  [m EXCEPT !.keys = @ \o n.keys, !.kids = @ \o n.kids, !.next = n.next]

\* right, at index in up, moves into left: neither left nor up is marked
Coalesce(t, left, right, up, index) ==
  LET n == t.nodes[right]
      u == SetNodes(t, left :> Merged(t.nodes[left], n)
                       @@ up :> RemoveKid(t.nodes[up], index))
  IN  DisposePage(Unpin(AdoptKids(LinkBack(u, n, left), n.kids, left),
                        {left, right}), right)

\* p is pinned.  A node of no keys asks for its key -1: the assertion fails
RECURSIVE CoalesceOrRedistribute(_, _)
CoalesceOrRedistribute(t, p) ==
  LET n     == t.nodes[p]
      up    == n.parent
      index == LookUpChild(t.nodes[up], n.keys[Len(n.keys)])
      nb    == t.nodes[up].kids[IF index = 1 THEN 2 ELSE index - 1]
      held  == Pin(Pin(t, up), nb)
      large == Len(n.keys) + Len(t.nodes[nb].keys)
                 > (IF n.leaf THEN LeafMax ELSE InternalMax)
  IN  CASE Len(n.keys) >= MinSize(n) -> Unpin(t, {p})
        [] Len(n.keys) < MinSize(n) /\ up = NoPage ->
             IF Len(n.keys) > 1 THEN Unpin(t, {p}) ELSE AdjustRoot(t, p)
        [] Len(n.keys) < MinSize(n) /\ up # NoPage /\ Len(n.keys) = 0 ->
             [t EXCEPT !.aborted = TRUE]
        [] OTHER ->
             IF large THEN Redistribute(held, nb, p, up, index)
             ELSE LET left  == IF index = 1 THEN p ELSE nb
                      right == IF index = 1 THEN nb ELSE p
                      at    == IF index = 1 THEN 2 ELSE index
                  IN  CoalesceOrRedistribute(Coalesce(held, left, right, up, at), up)

DeleteEntryInternal(t, p, key) ==
  LET n   == t.nodes[p]
      hit == LookUpLeaf(n, key)
      u   == DirtyMark(SetNode(t, p, RemoveKey(n, hit.at)), {p})
  IN  IF hit.found
      THEN [r |-> "Success", t |-> CoalesceOrRedistribute(Pin(u, p), p)]
      ELSE [r |-> "NotExist", t |-> t]

DeleteFrom(t, key) ==
  IF t.root = NoPage THEN [r |-> "Empty", t |-> t]
  ELSE DeleteEntryInternal(t, FindLeaf(t, key), key)

-----------------------------------------------------------------------------
(* BplusTreeScanner: Open, then NextEntry until it does not succeed. *)

\* MakeKey for an end of a range: before or after all entries of the value
MinRid == <<0, 0>>
MaxRid == <<2147483647, 2147483647>>
EndKey(attr, before) == [attr |-> attr, rid |-> IF before THEN MinRid ELSE MaxRid]

\* where the scan starts: past the end of the last leaf there is no place
LeftEnd(t, lo, inclusive) ==
  LET key == EndKey(lo, inclusive)
      p   == FindLeaf(t, key)
      at  == LookUpLeaf(t.nodes[p], key).at
  IN  CASE lo = NoBound -> <<LeftMostPage(t), 1>>
        [] lo # NoBound /\ at <= Len(t.nodes[p].keys) -> <<p, at>>
        [] OTHER -> <<t.nodes[p].next, 1>>

\* mutant: the end is never on the leaf before
RightEnd_SamePage(t, hi, inclusive) ==
  LET key == EndKey(hi, ~inclusive)
      p   == FindLeaf(t, key)
  IN  IF hi = NoBound THEN <<RightMostPage(t), Len(t.nodes[RightMostPage(t)].keys)>>
      ELSE <<p, LookUpLeaf(t.nodes[p], key).at - 1>>

RightEnd(t, hi, inclusive) ==
  LET key  == EndKey(hi, ~inclusive)
      p    == FindLeaf(t, key)
      at   == LookUpLeaf(t.nodes[p], key).at
      prev == t.nodes[p].prev
      last(q) == Len(t.nodes[q].keys)
  IN  CASE hi = NoBound -> <<RightMostPage(t), last(RightMostPage(t))>>
        [] hi # NoBound /\ at > 1 -> <<p, at - 1>>
        [] OTHER -> <<prev, IF prev = NoPage THEN 0 ELSE last(prev)>>

\* NextEntry from <<p, i>> to <<q, j>>
RECURSIVE Walk(_, _, _, _, _)
Walk(t, p, i, q, j) ==
  LET n == t.nodes[p]
      end(r) == [r |-> r, rows |-> <<n.keys[i]>>]
      more(rest) == [rest EXCEPT !.rows = <<n.keys[i]>> \o @]
  IN  CASE p = q /\ i = j -> end("Eof")
        [] ~(p = q /\ i = j) /\ i < Len(n.keys) -> more(Walk(t, p, i + 1, q, j))
        [] ~(p = q /\ i = j) /\ i >= Len(n.keys) /\ (p = q \/ n.next = NoPage) ->
             end("Internal")
        [] OTHER -> more(Walk(t, n.next, 1, q, j))

Scan(t, lo, linc, hi, rinc) ==
  LET l == LeftEnd(t, lo, linc)
      r == RightEnd(t, hi, rinc)
      none(why) == [r |-> why, rows |-> <<>>]
  IN  CASE lo # NoBound /\ hi # NoBound /\ (lo > hi \/ (lo = hi /\ ~(linc /\ rinc))) ->
             none("InvalidArgument")
        [] t.root = NoPage -> none("Empty")
        [] l[1] = NoPage \/ r[1] = NoPage -> none("Eof")
        [] l[1] = r[1] /\ l[2] > r[2] -> none("Eof")
        [] t.nodes[l[1]].prev = r[1] -> none("Eof")
        [] OTHER -> Walk(t, l[1], l[2], r[1], r[2])

GetEntry(t, attr) == Scan(t, attr, TRUE, attr, TRUE)

-----------------------------------------------------------------------------
(* IsValidateTree, the check the handler has of itself. *)

IsOrdered(n) ==
  \A i \in (IF n.leaf THEN 2 ELSE 3) .. Len(n.keys) :
     KeyCompare(n.keys[i - 1], n.keys[i]) < 0

\* the keys of p are between the separators its parent has beside it
FitsParent(t, p) ==
  LET n  == t.nodes[p]
      up == t.nodes[n.parent]
      index == SelectInSeq(up.kids, LAMBDA k : k = p)
      first == IF n.leaf THEN n.keys[1] ELSE n.keys[2]
  IN  /\ index # 0
      /\ index > 1 => KeyCompare(first, up.keys[index]) >= 0
      /\ index < Len(up.kids) =>
           KeyCompare(n.keys[Len(n.keys)], up.keys[index + 1]) < 0

RootIsValidate(n) == Len(n.keys) >= (IF n.leaf THEN 1 ELSE 2)

IsValidate(t, p) ==
  LET n == t.nodes[p]
  IN  /\ IsOrdered(n)
      /\ \A k \in ToSet(n.kids) : t.nodes[k].parent = p
      /\ IF n.parent = NoPage THEN RootIsValidate(n) ELSE FitsParent(t, p)

RECURSIVE IsValidateNodeRecursive(_, _)
IsValidateNodeRecursive(t, p) ==
  /\ IsValidate(t, p)
  /\ \A k \in ToSet(t.nodes[p].kids) : IsValidateNodeRecursive(t, k)

RECURSIVE IsValidateLeafLink(_, _, _)
IsValidateLeafLink(t, prev, p) ==
  p # NoPage =>
    LET n == t.nodes[p]
        m == t.nodes[prev]
    IN  /\ n.prev = prev
        /\ prev # NoPage => KeyCompare(m.keys[Len(m.keys)], n.keys[1]) < 0
        /\ IsValidateLeafLink(t, p, n.next)

IsValidateTree(t) ==
  t.root # NoPage =>
    /\ IsValidateNodeRecursive(t, t.root)
    /\ IsValidateLeafLink(t, NoPage, LeftMostPage(t))

-----------------------------------------------------------------------------
(* The calls of Table, and the pool. *)

\* InsertEntry for each row, as long as they succeed
RECURSIVE InsertRows(_, _)
InsertRows(t, rows) ==
  IF rows = <<>> THEN [r |-> "Success", t |-> t]
  ELSE LET done == InsertInto(t, Head(rows))
       IN  IF done.r = "Success" THEN InsertRows(done.t, Tail(rows)) ELSE done

\* Create, and the rows of the table
Built(rows) ==
  LET done == InsertRows(EmptyTree, rows)
  IN  /\ tree' = done.t
      /\ result' = done.r
      /\ entries' = ToSet(rows)
      /\ calls' = 0
      /\ deleted' = FALSE /\ unlinked' = FALSE /\ lost' = FALSE

Init ==
  /\ tree = EmptyTree
  /\ entries = {}
  /\ result = "Success"
  /\ calls = 0
  /\ deleted = FALSE /\ unlinked = FALSE /\ lost = FALSE

\* A torn or reverted tree is left alone until the index is made again, and an
\* aborted process does nothing more.
Usable == ~tree.torn /\ ~lost /\ ~unlinked /\ ~tree.aborted

InsertEntry(e) ==
  LET done == InsertInto(tree, e)
  IN  /\ Usable /\ calls < MaxCalls
      /\ tree' = done.t
      /\ result' = done.r
      /\ entries' = IF done.r = "Success" THEN entries \cup {e} ELSE entries
      /\ calls' = calls + 1
      /\ UNCHANGED <<deleted, unlinked, lost>>

DeleteEntry(e) ==
  LET done == DeleteFrom(tree, e)
  IN  /\ Usable /\ calls < MaxCalls
      /\ tree' = done.t
      /\ result' = done.r
      /\ entries' = IF done.r = "Success" THEN entries \ {e} ELSE entries
      /\ deleted' = (deleted \/ done.r = "Success")
      /\ calls' = calls + 1
      /\ UNCHANGED <<unlinked, lost>>

\* Sync: FlushAllPages writes every frame
Sync ==
  /\ Usable /\ tree.root # NoPage
  /\ tree' = [tree EXCEPT !.saved = tree.nodes]
  /\ UNCHANGED <<entries, result, calls, deleted, unlinked, lost>>

\* The pool gives the frame of p away, and p is read again: of a frame that is
\* not marked the change is gone.  (A marked one is written, as in Sync.)
Evict(p) ==
  LET now == tree.nodes[p]
      old == tree.saved[p]
  IN  /\ Usable
      /\ p \in DOMAIN tree.saved /\ tree.pins[p] = 0 /\ now # old
      /\ tree' = [tree EXCEPT !.nodes = (p :> old) @@ @]
      /\ unlinked' = (now.prev # old.prev)
      /\ lost' = (now # [old EXCEPT !.prev = now.prev])
      /\ UNCHANGED <<entries, result, calls, deleted>>

\* CREATE INDEX, the file of an index before it gone with Close
CreateIndex(rows) == ~tree.aborted /\ Built(rows)

Next ==
  \/ \E e \in Entry : InsertEntry(e) \/ DeleteEntry(e)
  \/ Sync
  \/ \E p \in Pages : Evict(p)
  \/ \E rows \in Tables : CreateIndex(rows)

Spec == Init /\ [][Next]_vars

-----------------------------------------------------------------------------
(* Properties. *)

\* Shape of the state.
TypeOK ==
  /\ DOMAIN tree.saved \subseteq DOMAIN tree.nodes
  /\ DOMAIN tree.nodes \subseteq Pages
  /\ \A p \in DOMAIN tree.nodes : tree.nodes[p] \in Node
  /\ \A p \in DOMAIN tree.saved : tree.saved[p] \in Node
  /\ tree.root \in DOMAIN tree.nodes \cup {NoPage}
  /\ tree.pins \in [Pages -> Nat]
  /\ entries \subseteq Entry
  /\ result \in {"Success", "DuplicateKey", "NotExist", "Empty", "NoBuf"}
  /\ calls \in 0 .. MaxCalls
  /\ deleted \in BOOLEAN /\ unlinked \in BOOLEAN /\ lost \in BOOLEAN

Before(k, l) == KeyCompare(k, l) < 0

RECURSIVE Subtree(_, _)
Subtree(t, p) ==
  {p} \cup UNION {Subtree(t, k) : k \in ToSet(t.nodes[p].kids)}

TreePages(t) == IF t.root = NoPage THEN {} ELSE Subtree(t, t.root)

KeysUnder(t, p) ==
  UNION {ToSet(t.nodes[q].keys) : q \in {x \in Subtree(t, p) : t.nodes[x].leaf}}

\* A separator divides all the entries of the subtrees beside it, the first key
\* of an internal node is the separator its parent has for it (it becomes one
\* when the node is merged or gives its first child away), and no node but the
\* root is too small.
SeparatorsDivide ==
  \A p \in TreePages(tree) :
    LET n == tree.nodes[p] IN
    /\ \A i \in 2 .. Len(n.kids) :
         /\ \A k \in KeysUnder(tree, n.kids[i - 1]) : Before(k, n.keys[i])
         /\ \A k \in KeysUnder(tree, n.kids[i]) : ~Before(k, n.keys[i])
         /\ ~tree.nodes[n.kids[i]].leaf =>
              tree.nodes[n.kids[i]].keys[1] = n.keys[i]
    /\ p # tree.root => Len(n.keys) >= MinSize(n)

\* After every call that is not torn by a full file, and as long as the pool
\* dropped no change, splits, merges and moves have kept keys ordered, children
\* and leaves linked: the handler's own check accepts the tree, and so does what
\* that check leaves out and lookups need.
TreeStaysValid == Usable => IsValidateTree(tree) /\ SeparatorsDivide

\* Every range that a statement can ask for is answered with the entries in
\* it, each once and in order, whatever the calls before did to the pages
\* the two ends fall on: BplusTreeScanner on trees with stale separators.
RangesAnswered ==
  Usable /\ tree.root # NoPage =>
    \A lo, hi \in Attrs \cup {NoBound}, linc, rinc \in BOOLEAN :
      LET scan == Scan(tree, lo, linc, hi, rinc)
          Within(e) ==
            /\ lo # NoBound => IF linc THEN e.attr >= lo ELSE e.attr > lo
            /\ hi # NoBound => IF rinc THEN e.attr <= hi ELSE e.attr < hi
      IN  scan.r # "InvalidArgument" =>
            /\ scan.r = "Eof"
            /\ \A i \in 2 .. Len(scan.rows) : Before(scan.rows[i - 1], scan.rows[i])
            /\ ToSet(scan.rows) = {e \in entries : Within(e)}

\* A call leaves nothing behind: the pages allocated are those of the tree and
\* no frame stays pinned; and a merge never asks an empty node for its last key,
\* which the assertion in GetKeyAt would stop the server for.
CallsEndClean ==
  /\ ~tree.aborted
  /\ Usable => /\ DOMAIN tree.nodes = TreePages(tree)
               /\ \A p \in Pages : tree.pins[p] = 0

\* Insertions mark every page they change but for one link: without a deletion
\* an eviction drops nothing but a prev_brother.
InsertsAreMarked == lost => deleted

\* The index refuses an entry only if it holds it, refuses to delete one only
\* if it does not, and a file that is full is the only other refusal.
RefusesForCause ==
  [][\A e \in Entry :
       /\ InsertEntry(e) => /\ (result' = "DuplicateKey") <=> e \in entries
                            /\ result' = "NoBuf" => Full(tree) \/ tree'.torn
       /\ DeleteEntry(e) => ((result' = "Success") <=> e \in entries)]_vars

=============================================================================
