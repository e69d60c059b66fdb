----------------------------- MODULE PageStore -----------------------------
(***************************************************************************)
(* What the buffer pool promises its clients: files of pages that keep     *)
(* what was last written into them, whatever is cached, evicted, flushed   *)
(* or read back, and across a clean restart.  A page belongs to whoever    *)
(* holds it; a page is handed out by Allocate only when it is free, and a  *)
(* discarded page is freed once nobody holds it.                           *)
(***************************************************************************)
EXTENDS Naturals

CONSTANTS
  File,  \* the files
  Page,  \* the ids of the pages that can be allocated
  Data   \* what a page can hold

VARIABLES
  allocated,  \* the allocated pages of every file
  content,    \* what each of them holds
  users,      \* how many holds there are on a page
  doomed      \* pages to free when their last hold is returned

vars == <<allocated, content, users, doomed>>

Init ==
  /\ allocated = [f \in File |-> {}]
  /\ content = [f \in File |-> [p \in {} |-> p]]
  /\ users = [f \in File |-> [p \in Page |-> 0]]
  /\ doomed = [f \in File |-> {}]

Keep(f, pages) == [content EXCEPT ![f] = [p \in pages |-> content[f][p]]]

\* a free page becomes allocated, with unspecified contents
Reserve(f, p) ==
  /\ p \in Page \ allocated[f]
  /\ allocated' = [allocated EXCEPT ![f] = @ \cup {p}]
  /\ \E d \in Data :
       content' = [content EXCEPT ![f] =
                     [q \in allocated'[f] |-> IF q = p THEN d ELSE content[f][q]]]

Allocate(f, p) ==
  /\ Reserve(f, p)
  /\ users' = [users EXCEPT ![f][p] = @ + 1]
  /\ UNCHANGED doomed

\* an allocation that fails half way keeps the page allocated, held by nobody
Leak(f, p) == Reserve(f, p) /\ UNCHANGED <<users, doomed>>

Acquire(f, p) ==
  /\ p \in allocated[f]
  /\ users' = [users EXCEPT ![f][p] = @ + 1]
  /\ UNCHANGED <<allocated, content, doomed>>

Write(f, p, d) ==
  /\ users[f][p] > 0
  /\ content' = [content EXCEPT ![f][p] = d]
  /\ UNCHANGED <<allocated, users, doomed>>

Free(f, p) ==
  /\ allocated' = [allocated EXCEPT ![f] = @ \ {p}]
  /\ content' = Keep(f, allocated[f] \ {p})

Release(f, p) ==
  /\ users[f][p] > 0
  /\ users' = [users EXCEPT ![f][p] = @ - 1]
  /\ IF users[f][p] = 1 /\ p \in doomed[f]
     THEN Free(f, p) /\ doomed' = [doomed EXCEPT ![f] = @ \ {p}]
     ELSE UNCHANGED <<allocated, content, doomed>>

Discard(f, p) ==
  /\ p \in allocated[f]
  /\ IF users[f][p] = 0
     THEN Free(f, p) /\ UNCHANGED doomed
     ELSE doomed' = [doomed EXCEPT ![f] = @ \cup {p}] /\ UNCHANGED <<allocated, content>>
  /\ UNCHANGED users

\* holds and pending discards do not survive a restart, pages and contents do
Restart ==
  /\ users' = [f \in File |-> [p \in Page |-> 0]]
  /\ doomed' = [f \in File |-> {}]
  /\ UNCHANGED <<allocated, content>>

Next ==
  \/ \E f \in File, p \in Page :
       \/ Allocate(f, p) \/ Leak(f, p) \/ Acquire(f, p) \/ Release(f, p) \/ Discard(f, p)
       \/ \E d \in Data : Write(f, p, d)
  \/ Restart

Spec == Init /\ [][Next]_vars
=============================================================================
