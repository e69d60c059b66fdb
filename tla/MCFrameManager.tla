--------------------------- MODULE MCFrameManager ---------------------------
(***************************************************************************)
(* Instances of FrameManager for TLC.                                      *)
(***************************************************************************)
EXTENDS FrameManager, TLC

Symmetry == Permutations(Fd) \cup Permutations(Item)
=============================================================================
