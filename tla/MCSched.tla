------------------------------ MODULE MCSched ------------------------------
(* Instances of Sched for TLC: harts are alike, slots are not (the scans have *)
(* an order).                                                                 *)
EXTENDS Sched, TLC

Symmetry == Permutations(Harts)
=============================================================================
