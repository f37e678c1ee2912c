--------------------------- MODULE MCPeriodicFire ---------------------------
(* Instances of PeriodicFire for TLC. *)
EXTENDS PeriodicFire, TLC

InstanceSymmetry == Permutations(Instances)
=============================================================================
