---------------------------- MODULE MCRegistry ----------------------------
(* Instances of Registry for TLC: a deploy that changes a schedule, and its *)
(* rollback with one schedule more.                                         *)
EXTENDS Registry

CONSTANTS i1, i2, i3, x1, x2, x3

Rollback ==
    [i \in Instances |->
        (IF i = i2 THEN {x2} ELSE {x1}) \cup (IF i = i3 THEN {x3} ELSE {})]
=============================================================================
