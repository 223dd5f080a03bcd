------------------------------ MODULE MCDisk ------------------------------
(* Instances of VirtioDisk for TLC. *)
EXTENDS VirtioDisk, TLC

Symmetry == Permutations(Procs) \cup Permutations(Harts)
=============================================================================
