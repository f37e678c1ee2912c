-------------------------- MODULE FetchLoopProofs --------------------------
(***************************************************************************)
(* SlotsAccounted and DispatchNeverWaits hold of FetchLoop for every       *)
(* number of queues, workers and waiting entries, every configuration and  *)
(* both modes.                                                             *)
(*                                                                         *)
(* DispatchNeverWaits speaks of the last step of a round. The batch was    *)
(* sized at its first, so the invariant follows it through: the batch is   *)
(* no larger than the round's slot and the free ones, no read returns more *)
(* than the batch, and in the meantime workers only free slots.            *)
(***************************************************************************)
EXTENDS FetchLoop, TLAPS

\* The counters are numbers, and the semaphore is within its capacity.
CountersOK ==
    /\ waiting \in [Queues -> Nat]
    /\ sem \in 0 .. Concurrency /\ running \in Nat
    /\ batch \in Nat /\ hand \in Nat

\* What is asked for, or in hand, fits the slot of the round and the free ones.
Fits ==
    /\ pc \in {"sweep", "block"} => batch >= 1 /\ batch <= 1 + (Concurrency - sem)
    /\ pc = "load" => /\ hand >= 1 /\ hand <= 1 + (Concurrency - sem)
                      /\ batch >= 1 /\ batch <= 1 + (Concurrency - sem)
    /\ pc = "first" => hand >= 1 /\ hand <= 1 + (Concurrency - sem)
    /\ pc = "dispatch" => hand <= Concurrency - sem

SInv == CountersOK /\ SlotsAccounted /\ Fits

\* A read that returned nothing leaves the round in order or gives its slot
\* back.
LEMMA AfterReadKeeps ==
    ASSUME SInv, NEW f, AfterRead(f), pc \in {"sweep", "block", "load"},
           hand' \in Nat, waiting' \in [Queues -> Nat], UNCHANGED running
    PROVE  SInv'
<1> USE FetchAssumption DEF SInv, CountersOK, SlotsAccounted, Fits, HoldsSlot
<1>1. CASE NextQueue
    BY <1>1 DEF NextQueue
<1>2. CASE EndRound("returned") \/ EndRound("top")
    BY <1>2 DEF EndRound, NoRound
<1>. QED
    BY <1>1, <1>2 DEF AfterRead

\* An XREADGROUP returns at least one entry and no more than the batch.
LEMMA TakeKeeps ==
    ASSUME SInv, NEW q \in Queues, Take(q), pc \in {"sweep", "block"}, UNCHANGED running
    PROVE  SInv'
<1> USE FetchAssumption DEF SInv, CountersOK, SlotsAccounted, Fits, HoldsSlot
<1> DEFINE n == IF waiting[q] < batch THEN waiting[q] ELSE batch
<1>1. n \in Nat /\ n >= 1 /\ n <= batch /\ n <= waiting[q]
    BY DEF Take
<1>2. hand' = n /\ waiting' = [waiting EXCEPT ![q] = @ - n]
    BY DEF Take
<1>3. waiting' \in [Queues -> Nat]
    BY <1>1, <1>2
<1>. QED
    BY <1>1, <1>2, <1>3 DEF Take, roundVars

\* The batch is sized to the held slot and the free ones.
LEMMA BatchFits ==
    ASSUME sem \in 0 .. Concurrency
    PROVE  BatchSize \in Nat /\ BatchSize >= 1 /\ BatchSize <= 1 + (Concurrency - sem)
  BY FetchAssumption DEF BatchSize

\* Every step of the loop, the workers and the surroundings keeps the slots
\* accounted for and the batch within them.
LEMMA SlotStep == SInv /\ [Next]_vars => SInv'
<1> SUFFICES ASSUME SInv, [Next]_vars PROVE SInv'
    OBVIOUS
<1> USE FetchAssumption DEF SInv, CountersOK, SlotsAccounted, Fits, HoldsSlot, roundVars
<1>1. CASE Return \/ Top \/ IdleOver \/ SweepOver
    BY <1>1 DEF Return, Top, IdleOver, SweepOver
<1>2. CASE AcquireSlot
    BY <1>2 DEF AcquireSlot
<1>3. CASE SkipPaused
  <2>1. EndRound("idle") \/ (pc' = "sweep" /\ batch' = BatchSize /\ UNCHANGED <<at, sem>>)
    BY <1>3 DEF SkipPaused
  <2>2. UNCHANGED <<waiting, hand, running>> /\ pc = "refresh"
    BY <1>3 DEF SkipPaused
  <2>3. CASE EndRound("idle")
    BY <2>2, <2>3 DEF EndRound, NoRound
  <2>4. CASE pc' = "sweep" /\ batch' = BatchSize /\ UNCHANGED <<at, sem>>
    BY <2>2, <2>4, BatchFits
  <2>. QED
    BY <2>1, <2>3, <2>4
<1>4. ASSUME NEW q \in Queues, SweepRead(q) \/ BlockRead(q) PROVE SInv'
    BY <1>4, TakeKeeps, AfterReadKeeps DEF SweepRead, BlockRead, Sweeping
<1>5. CASE ReadFails
    BY <1>5, AfterReadKeeps DEF ReadFails, Sweeping
<1>6. CASE Load
  <2>1. PICK n \in 0 .. hand :
           /\ hand' = n
           /\ IF n = 0 THEN AfterRead(FALSE) ELSE pc' = "first" /\ UNCHANGED <<roundVars, sem>>
    BY <1>6 DEF Load
  <2>2. CASE n = 0
    BY <1>6, <2>1, <2>2, AfterReadKeeps DEF Load
  <2>3. CASE n # 0
    BY <1>6, <2>1, <2>3 DEF Load
  <2>. QED
    BY <2>2, <2>3
<1>7. CASE LoadFails
    BY <1>7, AfterReadKeeps DEF LoadFails
<1>8. CASE DispatchFirst
    BY <1>8 DEF DispatchFirst, NoRound
<1>9. CASE Dispatch \/ Dispatched
    BY <1>9 DEF Dispatch, Dispatched
<1>10. CASE WorkerEnds
    BY <1>10 DEF WorkerEnds
<1>11. CASE CheckDue \/ Shutdown
    BY <1>11 DEF CheckDue, Shutdown
<1>12. ASSUME NEW q \in Queues, Enqueue(q) \/ PauseQueue(q) \/ ResumeQueue(q) PROVE SInv'
    BY <1>12 DEF Enqueue, PauseQueue, ResumeQueue
<1>13. CASE UNCHANGED vars
    BY <1>13 DEF vars
<1>. QED
    BY <1>1, <1>2, <1>3, <1>4, <1>5, <1>6, <1>7, <1>8, <1>9, <1>10, <1>11, <1>12, <1>13
    DEF Next, FetchStep

\* At the start no slot is taken and nothing is in hand.
LEMMA SlotInit == Init => SInv
  BY FetchAssumption DEF Init, SInv, CountersOK, SlotsAccounted, Fits, HoldsSlot

\* No path of fetchLoop leaks or doubles a semaphore slot.
THEOREM SlotsSound == Spec => []SlotsAccounted
<1>1. SInv => SlotsAccounted
    BY DEF SInv
<1>. QED
    BY <1>1, SlotInit, SlotStep, PTL DEF Spec

\* A batch always finds its slots free, so the Requeue on shutdown is never
\* reached.
THEOREM BatchesFit == Spec => []DispatchNeverWaits
<1>1. SInv => DispatchNeverWaits
    BY DEF SInv, Fits, DispatchNeverWaits
<1>. QED
    BY <1>1, SlotInit, SlotStep, PTL DEF Spec
=============================================================================
