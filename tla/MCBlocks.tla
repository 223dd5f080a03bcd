------------------------------ MODULE MCBlocks ------------------------------
(* Instances of Blocks for TLC. *)
EXTENDS Blocks, TLC

Symmetry == Permutations(Procs) \cup Permutations(Inums)
=============================================================================
