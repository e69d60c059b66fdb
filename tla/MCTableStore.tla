---------------------------- MODULE MCTableStore ----------------------------
(* An instance of TableStore: three places in two pages. *)
EXTENDS TableStore

\* Two slots of a page, which compare equal, and a slot of another page that
\* compares equal to one of them and less than the other.
MCRids == {<<1, 0>>, <<1, 1>>, <<2, 0>>}

=============================================================================
