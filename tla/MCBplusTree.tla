----------------------------- MODULE MCBplusTree -----------------------------
(* Instances of BplusTree: records of three pages, no two in the same slot. *)
EXTENDS BplusTree

\* No two of these compare equal: see RidCompare.
MCRids == {<<2, 0>>, <<3, 1>>, <<4, 2>>}

Sorted == [i \in 1 .. 15 |-> [attr |-> 1 + (i - 1) \div 3,
                              rid  |-> <<2 + ((i - 1) % 3), (i - 1) % 3>>]]

\* A table without rows, one that fills the root, and tables with rows enough
\* for three levels that were inserted in the order of the field, against it
\* and out of it.
MCTables == {<<>>, SubSeq(Sorted, 1, 10), SubSeq(Sorted, 1, 13),
             Reverse(SubSeq(Sorted, 3, 15)),
             SelectSeq(Sorted, LAMBDA e : e.rid = <<2, 0>>) \o
             SelectSeq(Sorted, LAMBDA e : e.rid = <<4, 2>>) \o
             SelectSeq(Sorted, LAMBDA e : e.rid = <<3, 1>>)}

=============================================================================
