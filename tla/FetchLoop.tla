----------------------------- MODULE FetchLoop -----------------------------
(***************************************************************************)
(* The fetch loop of one server: it takes a slot of the concurrency        *)
(* semaphore, orders the queues (smooth weighted round-robin or strict     *)
(* priority), leaves out the paused ones, reads a batch from the first     *)
(* queue that has entries and hands the tasks to worker goroutines. The    *)
(* workers, the clients, the operator's pause and resume, and Shutdown     *)
(* interleave with it.                                                     *)
(*                                                                         *)
(* A queue is its position in the sorted list of names, and its stream the *)
(* number of entries not yet delivered. What becomes of a task once its    *)
(* worker has started is module TaskQueue's.                               *)
(***************************************************************************)
EXTENDS Integers, SequencesExt

CONSTANTS
    N,              \* number of queues
    Configs,        \* values of ServerConfig.Queues
    MaxWeight,      \* maxWeight, 1 << 20 in the code
    StrictPriority, \* ServerConfig.StrictPriority
    Concurrency,    \* capacity of the semaphore
    MaxFetchBatch,  \* maxFetchBatch
    MaxWaiting,     \* bound: undelivered entries of a stream
    Errors          \* TRUE: a Redis call may fail

ASSUME FetchAssumption ==
    /\ N \in Nat \ {0} /\ \A c \in Configs : c \in [1 .. N -> Int]
    /\ MaxWeight \in Nat \ {0} /\ StrictPriority \in BOOLEAN
    /\ Concurrency \in Nat \ {0} /\ MaxFetchBatch \in Nat \ {0}
    /\ MaxWaiting \in Nat /\ Errors \in BOOLEAN

Queues == 1 .. N

VARIABLES
    weights,    \* the picker's weights
    current,    \* its running scores
    picks,      \* history: picks of each queue in this cycle
    waiting,    \* undelivered entries of each stream
    paused,     \* the paused SET
    cache,      \* fetchLoop's copy of it
    fresh,      \* the copy is younger than pauseCheckInterval
    pc,         \* where fetchLoop is
    order,      \* the queues of this round
    at,         \* position of the sweep in order
    batch,      \* COUNT of this round's reads
    hand,       \* tasks read and not dispatched
    sem,        \* slots of the semaphore taken
    running,    \* worker goroutines
    cancelled   \* Shutdown has cancelled the context

pickerVars == <<weights, current, picks>>
pauseVars == <<paused, cache, fresh>>
roundVars == <<order, at, batch>>
vars == <<pickerVars, waiting, pauseVars, pc, roundVars, hand, sem, running, cancelled>>

\* "acquire" waits for a slot; "idle" waits while every queue is paused;
\* "block" is the blocking read; "load" has read entries and not their bodies.
PCs == {"top", "acquire", "refresh", "idle", "sweep", "block", "load", "first",
        "dispatch", "returned"}
HoldsSlot == {"refresh", "sweep", "block", "load", "first"}

-----------------------------------------------------------------------------
(* Queue selection. *)

normalizeWeight(w) == IF w <= 0 THEN 1 ELSE IF w > MaxWeight THEN MaxWeight ELSE w

total == MapThenSumSet(LAMBDA q : weights[q], Queues)

\* Higher weight first, ties by name.
queuesByWeight ==
    SetToSortSeq(Queues, LAMBDA p, q : weights[p] > weights[q] \/ (weights[p] = weights[q] /\ p < q))

\* The first of the highest scores wins.
Best(scores) ==
    CHOOSE q \in Queues : \A p \in Queues : scores[p] < scores[q] \/ (scores[p] = scores[q] /\ q <= p)

\* Mutant: the winner pays its own weight.
PickOwnWeight(q) ==
    LET raised == [p \in Queues |-> current[p] + weights[p]]
    IN  /\ q = Best(raised)
        /\ current' = [raised EXCEPT ![q] = @ - weights[q]]

\* Mutant: the winner starts again from nothing.
PickResets(q) ==
    LET raised == [p \in Queues |-> current[p] + weights[p]]
    IN  /\ q = Best(raised)
        /\ current' = [raised EXCEPT ![q] = 0]

\* wrrPicker.pick returns q.
Pick(q) ==
    LET raised == [p \in Queues |-> current[p] + weights[p]]
    IN  /\ q = Best(raised)
        /\ current' = [raised EXCEPT ![q] = @ - total]

\* The history starts again after every cycle of total picks.
CountPick(q) ==
    LET over == MapThenSumSet(LAMBDA p : picks[p], Queues) = total
    IN  picks' = [p \in Queues |-> (IF over THEN 0 ELSE picks[p]) + (IF p = q THEN 1 ELSE 0)]

\* Mutant: the sweep starts with the heaviest queue, whatever was picked.
OrderByWeight(primary) == queuesByWeight

RoundOrder(primary) ==
    <<primary>> \o SelectSeq(queuesByWeight, LAMBDA q : q # primary)

\* Mutant: as many tasks as there are workers.
BatchOfCapacity == IF 1 + Concurrency > MaxFetchBatch THEN MaxFetchBatch ELSE 1 + Concurrency

\* The held slot and the free ones.
BatchSize ==
    LET free == 1 + (Concurrency - sem)
    IN  IF free > MaxFetchBatch THEN MaxFetchBatch ELSE free

-----------------------------------------------------------------------------
Init ==
    /\ \E c \in Configs : weights = [q \in Queues |-> normalizeWeight(c[q])]
    /\ current = [q \in Queues |-> 0]
    /\ picks = [q \in Queues |-> 0]
    /\ waiting = [q \in Queues |-> 0]
    /\ paused = {} /\ cache = {} /\ fresh = FALSE
    /\ pc = "top"
    /\ order = <<>> /\ at = 1 /\ batch = 0 /\ hand = 0
    /\ sem = 0 /\ running = 0
    /\ cancelled = FALSE

NoRound == order' = <<>> /\ at' = 1 /\ batch' = 0

\* The round ends with its slot given back.
EndRound(next) ==
    /\ pc' = next
    /\ sem' = sem - 1
    /\ NoRound

Return ==
    /\ pc \in {"top", "acquire", "idle"}
    /\ cancelled
    /\ pc' = "returned"
    /\ UNCHANGED <<pickerVars, waiting, pauseVars, roundVars, hand, sem, running, cancelled>>

Top ==
    /\ pc = "top"
    /\ ~cancelled
    /\ pc' = "acquire"
    /\ UNCHANGED <<pickerVars, waiting, pauseVars, roundVars, hand, sem, running, cancelled>>

\* With the slot in hand, the order of this round is decided.
AcquireSlot ==
    /\ pc = "acquire"
    /\ sem < Concurrency
    /\ sem' = sem + 1
    /\ IF StrictPriority
       THEN order' = queuesByWeight /\ UNCHANGED <<current, picks>>
       ELSE \E q \in Queues : Pick(q) /\ CountPick(q) /\ order' = RoundOrder(q)
    /\ pc' = "refresh"
    /\ UNCHANGED <<weights, waiting, pauseVars, at, batch, hand, running, cancelled>>

\* Mutant: a lookup leaves the copy as it was.
LookupForgotten(known) == known = cache

\* refreshPaused knows the set known: the copy while it is fresh or when the
\* lookup fails, and otherwise what the lookup returns.
Lookup(known) ==
    \/ fresh /\ known = cache
    \/ ~fresh /\ ~cancelled /\ known = paused
    \/ ~fresh /\ (Errors \/ cancelled) /\ known = cache

\* Mutant: the slot is kept while every queue is paused.
SkipPausedHolds ==
    /\ pc = "refresh"
    /\ \E known \in SUBSET Queues :
          /\ Lookup(known)
          /\ cache' = known
          /\ LET kept == SelectSeq(order, LAMBDA q : q \notin known)
             IN  IF kept = <<>>
                 THEN pc' = "idle" /\ NoRound
                 ELSE pc' = "sweep" /\ order' = kept /\ batch' = BatchSize /\ UNCHANGED at
    /\ fresh' = TRUE
    /\ UNCHANGED <<pickerVars, waiting, paused, hand, sem, running, cancelled>>

SkipPaused ==
    /\ pc = "refresh"
    /\ \E known \in SUBSET Queues :
          /\ Lookup(known)
          /\ cache' = known
          /\ LET kept == SelectSeq(order, LAMBDA q : q \notin known)
             IN  IF kept = <<>>
                 THEN EndRound("idle")
                 ELSE /\ pc' = "sweep" /\ order' = kept /\ batch' = BatchSize
                      /\ UNCHANGED <<at, sem>>
    /\ fresh' = TRUE
    /\ UNCHANGED <<pickerVars, waiting, paused, hand, running, cancelled>>

\* pauseCheckInterval has passed.
IdleOver ==
    /\ pc = "idle"
    /\ pc' = "top"
    /\ fresh' = FALSE
    /\ UNCHANGED <<pickerVars, waiting, paused, cache, roundVars, hand, sem, running, cancelled>>

-----------------------------------------------------------------------------
(* The two reads. DequeueBatch is an XREADGROUP, then the pipelines that    *)
(* load the bodies and mark the tasks active. A command begun after the     *)
(* context was cancelled fails without effect.                              *)

Sweeping == pc = "sweep" /\ at <= Len(order)

\* The queue being read: the blocking read is of the first.
Reading == IF at <= Len(order) THEN order[at] ELSE order[1]

NextQueue == pc' = "sweep" /\ at' = at + 1 /\ UNCHANGED <<order, batch, sem>>

\* What follows a read that returned nothing.
AfterRead(failed) ==
    IF failed /\ cancelled THEN EndRound("returned")
    ELSE IF at <= Len(order) THEN NextQueue
    ELSE EndRound("top")

Take(q) ==
    /\ waiting[q] > 0
    /\ LET n == IF waiting[q] < batch THEN waiting[q] ELSE batch
       IN  waiting' = [waiting EXCEPT ![q] = @ - n] /\ hand' = n
    /\ pc' = "load"
    /\ UNCHANGED <<roundVars, sem>>

SweepRead(q) ==
    /\ Sweeping /\ q = Reading
    /\ ~cancelled
    /\ \/ Take(q)
       \/ waiting[q] = 0 /\ AfterRead(FALSE) /\ UNCHANGED <<waiting, hand>>
    /\ UNCHANGED <<pickerVars, pauseVars, running, cancelled>>

\* Every queue was empty or failed: the blocking read begins.
SweepOver ==
    /\ pc = "sweep" /\ at > Len(order)
    /\ ~cancelled
    /\ pc' = "block"
    /\ UNCHANGED <<pickerVars, waiting, pauseVars, roundVars, hand, sem, running, cancelled>>

\* The blocking read returns entries, or nothing after pollBlock. It is not
\* interrupted by Shutdown.
BlockRead(q) ==
    /\ pc = "block" /\ q = Reading
    /\ \/ Take(q)
       \/ waiting[q] = 0 /\ AfterRead(FALSE) /\ UNCHANGED <<waiting, hand>>
    /\ UNCHANGED <<pickerVars, pauseVars, running, cancelled>>

ReadFails ==
    /\ \/ pc = "sweep" /\ cancelled
       \/ (Sweeping \/ pc = "block") /\ Errors
    /\ AfterRead(TRUE)
    /\ UNCHANGED <<pickerVars, waiting, pauseVars, hand, running, cancelled>>

\* The bodies are loaded; entries without one are acked and left out.
Load ==
    /\ pc = "load"
    /\ ~cancelled
    /\ \E n \in 0 .. hand :
          /\ hand' = n
          /\ IF n = 0 THEN AfterRead(FALSE) ELSE pc' = "first" /\ UNCHANGED <<roundVars, sem>>
    /\ UNCHANGED <<pickerVars, waiting, pauseVars, running, cancelled>>

\* A pipeline fails: the entries stay in the PEL, for the recoverer to find.
LoadFails ==
    /\ pc = "load"
    /\ Errors \/ cancelled
    /\ hand' = 0
    /\ AfterRead(TRUE)
    /\ UNCHANGED <<pickerVars, waiting, pauseVars, running, cancelled>>

-----------------------------------------------------------------------------
(* Dispatch. *)

\* The first task runs on the slot taken for the round.
DispatchFirst ==
    /\ pc = "first"
    /\ running' = running + 1
    /\ hand' = hand - 1
    /\ pc' = "dispatch"
    /\ NoRound
    /\ UNCHANGED <<pickerVars, waiting, pauseVars, sem, cancelled>>

\* Each of the others takes a slot of its own. The wait for one, and the
\* Requeue behind it, are not reached: DispatchNeverWaits.
Dispatch ==
    /\ pc = "dispatch" /\ hand > 0
    /\ sem < Concurrency
    /\ sem' = sem + 1
    /\ running' = running + 1
    /\ hand' = hand - 1
    /\ UNCHANGED <<pickerVars, waiting, pauseVars, pc, roundVars, cancelled>>

Dispatched ==
    /\ pc = "dispatch" /\ hand = 0
    /\ pc' = "top"
    /\ UNCHANGED <<pickerVars, waiting, pauseVars, roundVars, hand, sem, running, cancelled>>

WorkerEnds ==
    /\ running > 0
    /\ running' = running - 1
    /\ sem' = sem - 1
    /\ UNCHANGED <<pickerVars, waiting, pauseVars, pc, roundVars, hand, cancelled>>

-----------------------------------------------------------------------------
(* The surroundings. *)

Enqueue(q) ==
    /\ waiting[q] < MaxWaiting
    /\ waiting' = [waiting EXCEPT ![q] = @ + 1]
    /\ UNCHANGED <<pickerVars, pauseVars, pc, roundVars, hand, sem, running, cancelled>>

PauseQueue(q) ==
    /\ paused' = paused \cup {q}
    /\ UNCHANGED <<pickerVars, waiting, cache, fresh, pc, roundVars, hand, sem, running, cancelled>>

ResumeQueue(q) ==
    /\ paused' = paused \ {q}
    /\ UNCHANGED <<pickerVars, waiting, cache, fresh, pc, roundVars, hand, sem, running, cancelled>>

\* The copy of the paused set grows old.
CheckDue ==
    /\ fresh
    /\ fresh' = FALSE
    /\ UNCHANGED <<pickerVars, waiting, paused, cache, pc, roundVars, hand, sem, running, cancelled>>

Shutdown ==
    /\ ~cancelled
    /\ cancelled' = TRUE
    /\ UNCHANGED <<pickerVars, waiting, pauseVars, pc, roundVars, hand, sem, running>>

FetchStep ==
    \/ Return \/ Top \/ AcquireSlot \/ SkipPaused \/ IdleOver \/ SweepOver
    \/ \E q \in Queues : SweepRead(q) \/ BlockRead(q)
    \/ ReadFails \/ Load \/ LoadFails \/ DispatchFirst \/ Dispatch \/ Dispatched

Next ==
    \/ FetchStep \/ WorkerEnds \/ CheckDue \/ Shutdown
    \/ \E q \in Queues : Enqueue(q) \/ PauseQueue(q) \/ ResumeQueue(q)

Spec == Init /\ [][Next]_vars

\* The goroutines run, handlers end, time passes, and a call that is made again
\* and again is answered in the end.
Fairness ==
    /\ WF_vars(FetchStep) /\ WF_vars(WorkerEnds) /\ WF_vars(CheckDue)
    /\ SF_vars(SkipPaused /\ cache' = paused)
    /\ \A q \in Queues : SF_vars(SweepRead(q))

FairSpec == Spec /\ Fairness

-----------------------------------------------------------------------------
(* Properties. *)

\* Every variable keeps its type; the scores "stay bounded by
\* total in magnitude" (wrr.go:31), so the picker never overflows.
TypeOK ==
    /\ weights \in [Queues -> 1 .. MaxWeight]
    /\ current \in [Queues -> -total .. total]
    /\ waiting \in [Queues -> 0 .. MaxWaiting]
    /\ paused \subseteq Queues /\ cache \subseteq Queues
    /\ pc \in PCs
    /\ at \in 1 .. N + 1 /\ batch \in 0 .. MaxFetchBatch /\ hand \in 0 .. MaxFetchBatch
    /\ sem \in 0 .. Concurrency /\ running \in 0 .. Concurrency

\* No path of fetchLoop leaks or doubles a slot: whatever failed, was paused or
\* was cancelled, the semaphore holds one slot for each worker and one for the
\* round in progress.
SlotsAccounted == sem = running + (IF pc \in HoldsSlot THEN 1 ELSE 0)

\* "batch was sized to the free slots, so this normally never blocks"
\* (server.go:432): a batch in hand always finds its slots free, so the
\* wait, and the Requeue on shutdown behind it, are never reached.
DispatchNeverWaits == pc = "dispatch" => hand <= Concurrency - sem

\* "over each cycle of total picks a queue is selected exactly weight times"
\* (wrr.go:30): within a cycle no queue is picked more often than its weight.
PicksProportional == \A q \in Queues : picks[q] <= weights[q]

\* "none starves" (server.go:275): in weighted mode a queue with undelivered
\* entries that is not paused is read from again and again, however busy the
\* others are.
NoStarvation ==
    \A q \in Queues :
        []<>(waiting[q] = 0 \/ q \in paused \/ cancelled \/ (pc = "load" /\ Reading = q))

\* "servers stop consuming it" (pause.go:7): the reads of a queue that stays
\* paused end, although each server looks at the set only now and then and may
\* fail to.
PauseTakesHold ==
    \A q \in Queues :
        <>[](q \in paused) => <>[]~(pc = "load" /\ Reading = q)
=============================================================================
