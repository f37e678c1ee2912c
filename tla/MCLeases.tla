------------------------------ MODULE MCLeases ------------------------------
(* Instances of Leases for TLC. *)
EXTENDS Leases, TLC

CONSTANTS s1, s2, t1, t2
=============================================================================
