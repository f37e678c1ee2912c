-------------------------- MODULE MCLeaderElection --------------------------
(* Instances of LeaderElection for TLC. *)
EXTENDS LeaderElection, TLC

InstanceSymmetry == Permutations(Instances)
=============================================================================
