----------------------------- MODULE MCWorkflow -----------------------------
(* Instances of Workflow for TLC: the shapes of two workflows. *)
EXTENDS Workflow, TLC

CONSTANTS a, m1, m2, cb, z, n1

\* Then(a).ThenGroup(m1, m2, OnComplete(cb)).Then(z)
StageNext == [t \in Tasks |-> IF t = cb /\ z \in Tasks THEN z ELSE None]
StageSlot == [t \in Tasks |-> IF t \in Slots THEN t ELSE None]

\* NewGroup().AddChain(m1 then n1).Add(m2).OnComplete(cb)
GroupNext == [t \in Tasks |-> IF t = m1 THEN n1 ELSE None]
GroupSlot == [t \in Tasks |-> IF t = n1 THEN m1 ELSE IF t \in Slots THEN t ELSE None]

WorkerSymmetry == Permutations(Workers)
=============================================================================
