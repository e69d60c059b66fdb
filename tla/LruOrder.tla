------------------------------ MODULE LruOrder ------------------------------
(***************************************************************************)
(* Orders by recency of use: <<a, b>> is in the order when a was used more *)
(* recently than b.  This is what the linked list of common/lru_cache.h    *)
(* keeps for its users.                                                    *)
(***************************************************************************)
EXTENDS Integers

\* LruCache::LruRemove of every key in S
Without(order, S) == {r \in order : r[1] \notin S /\ r[2] \notin S}

\* LruCache::LruTouch and LruPush: k becomes the most recent among others
Touch(order, k, others) == Without(order, {k}) \cup ({k} \X (others \ {k}))

\* a strict total order of C
IsLruOrder(order, C) ==
  /\ order \subseteq C \X C
  /\ \A a \in C : <<a, a>> \notin order
  /\ \A a, b \in C : a # b => <<a, b>> \in order \/ <<b, a>> \in order
  /\ \A a, b, c \in C : <<a, b>> \in order /\ <<b, c>> \in order => <<a, c>> \in order
=============================================================================
