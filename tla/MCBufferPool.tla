---------------------------- MODULE MCBufferPool ----------------------------
(***************************************************************************)
(* Instances of BufferPool for TLC.                                        *)
(***************************************************************************)
EXTENDS BufferPool, TLC

Symmetry == Permutations(File) \cup Permutations(Fd) \cup Permutations(Value)
=============================================================================
