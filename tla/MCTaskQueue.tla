---------------------------- MODULE MCTaskQueue ----------------------------
(* Instances of TaskQueue for TLC. *)
EXTENDS TaskQueue, TLC

CONSTANTS t1, t2, k1

OneRetry == [t \in Tasks |-> 1]
TwoRetries == [t \in Tasks |-> 2]
NotUnique == [t \in Tasks |-> None]
SameKey == [t \in Tasks |-> k1]

ServerEntrySymmetry == Permutations(EntryIds) \cup Permutations(Servers)
=============================================================================
