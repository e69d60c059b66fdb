------------------------------ MODULE MCCatalog ------------------------------
(* An instance of Catalog: four tables and a name that is too long, frames  *)
(* for the headers of three files.                                           *)
EXTENDS Catalog, TLC

CONSTANTS t1, t2, t3, t4, long

Attr(name, type, len) == [name |-> name, type |-> type, len |-> len]

MCTable == {t1, t2, t3, t4, long}
MCLong  == {long}
MCAttrs == { <<Attr("a", 2, 4)>>,
             <<Attr("b", 1, 7), Attr("a", 3, 4), Attr("c", 1, 1)>> }

Symmetry == Permutations({t1, t2, t3, t4})

=============================================================================
