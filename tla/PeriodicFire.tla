---------------------------- MODULE PeriodicFire ----------------------------
(***************************************************************************)
(* The tick loop of the scheduler composed with its leader election: one   *)
(* schedule, the lastFired key, the dedup keys with their TTL and the      *)
(* triggers put on the queue. fireDue is four Redis calls at most, and an  *)
(* instance may crash, be shut down or stop being leader between any two.  *)
(***************************************************************************)
EXTENDS LeaderElection, ComputeFires

CONSTANTS
    Triggers,       \* the schedule
    FireOnce,       \* its misfire policy
    DedupFactor,    \* dedup TTL in leader TTLs, 10 in the code
    FireErrors,     \* the calls of fireDue that may fail
    MaxFaults,      \* bound on failed calls and on ticks with no instance running
    Unset           \* lastFired is absent

ASSUME FireAssumption ==
    /\ Triggers \subseteq 1 .. Horizon /\ FireOnce \in BOOLEAN
    /\ DedupFactor \in Nat \ {0}
    /\ FireErrors \subseteq {"read", "enqueue", "store"}
    /\ MaxFaults \in Nat
    /\ Unset \notin Times

VARIABLES
    clock,      \* time.Now, the same for all instances
    lastFired,  \* the schedule's lastFired key
    dedup,      \* ticks until each trigger's dedup key expires
    enqueued,   \* how often each trigger was put on the queue
    ticked,     \* instances with a tick to read
    fire,       \* where each instance is in fireDue
    faults,     \* history: failed calls and ticks with no instance running
    headless    \* history: ticks in a row without a leader, while instances run and
                \* none of them leaves

fireVars == <<lastFired, dedup, enqueued, ticked, fire>>
vars == <<electionVars, clock, fireVars, faults, headless>>

DedupTTL == DedupFactor * LeaderTTL

Steps == {"idle", "read", "baseline", "enqueue", "store"}
Idle == [step |-> "idle", now |-> 0, last |-> 0]

PInit ==
    /\ Init
    /\ clock = 0
    /\ lastFired = Unset
    /\ dedup = [t \in Triggers |-> 0]
    /\ enqueued = [t \in Triggers |-> 0]
    /\ ticked = {}
    /\ fire = [i \in Instances |-> Idle]
    /\ faults = 0
    /\ headless = 0

At(i, step) == fire[i].step = step

Fault == faults < MaxFaults /\ faults' = faults + 1

EndFire(i) == fire' = [fire EXCEPT ![i] = Idle]

\* On to the next call; once the context is cancelled, the call in flight was
\* the last one that Redis sees.
Goto(i, step, last) ==
    IF ShuttingDown(i) \/ step = "idle" THEN EndFire(i)
    ELSE fire' = [fire EXCEPT ![i] = [step |-> step, now |-> @.now, last |-> last]]

\* What computeFires returned to this instance.
Plan(i) == computeFires(Triggers, fire[i].last, fire[i].now, FireOnce)

-----------------------------------------------------------------------------
(* fireDue, run by the run goroutine on a tick. *)

FireBegin(i) ==
    /\ pc[i] = "idle" /\ At(i, "idle") /\ i \in ticked
    /\ Running(i)
    /\ ticked' = ticked \ {i}
    /\ IF isLeader[i]
       THEN fire' = [fire EXCEPT ![i] = [step |-> "read", now |-> clock, last |-> 0]]
       ELSE UNCHANGED fire
    /\ UNCHANGED <<electionVars, clock, lastFired, dedup, enqueued, faults>>

\* GetLastFired answers, and computeFires decides.
ReadLastFired(i) ==
    /\ At(i, "read")
    /\ lastFired # Unset
    /\ LET plan == computeFires(Triggers, lastFired, fire[i].now, FireOnce)
           step == IF plan.fires # {} THEN "enqueue"
                   ELSE IF plan.newLast # lastFired THEN "store" ELSE "idle"
       IN  Goto(i, step, lastFired)
    /\ UNCHANGED <<electionVars, clock, lastFired, dedup, enqueued, ticked, faults>>

\* The key is absent, or the call failed.
ReadNothing(i) ==
    /\ At(i, "read")
    /\ lastFired = Unset \/ "read" \in FireErrors
    /\ IF lastFired = Unset THEN UNCHANGED faults ELSE Fault
    /\ Goto(i, "baseline", fire[i].now)
    /\ UNCHANGED <<electionVars, clock, lastFired, dedup, enqueued, ticked>>

\* lastFiredOrInit stores now; no trigger after now is due at now.
Baseline(i) ==
    /\ At(i, "baseline")
    /\ \/ lastFired' = fire[i].now /\ UNCHANGED faults
       \/ "store" \in FireErrors /\ Fault /\ UNCHANGED lastFired
    /\ EndFire(i)
    /\ UNCHANGED <<electionVars, clock, dedup, enqueued, ticked>>

\* Mutant: XADD without SET NX.
EnqueueAlways(t) ==
    /\ dedup' = [dedup EXCEPT ![t] = DedupTTL]
    /\ enqueued' = [enqueued EXCEPT ![t] = @ + 1]

\* enqueuePeriodicCmd.
EnqueuePeriodic(t) ==
    IF dedup[t] = 0
    THEN /\ dedup' = [dedup EXCEPT ![t] = DedupTTL]
         /\ enqueued' = [enqueued EXCEPT ![t] = @ + 1]
    ELSE UNCHANGED <<dedup, enqueued>>

\* enqueueTrigger: a duplicate counts as done.
EnqueueTrigger(i) ==
    /\ At(i, "enqueue")
    /\ \A t \in Plan(i).fires : EnqueuePeriodic(t)
    /\ Goto(i, "store", fire[i].last)
    /\ UNCHANGED <<electionVars, clock, lastFired, ticked, faults>>

\* Mutant: fireDue goes on to SetLastFired after a failed enqueue.
EnqueueErrorAdvances(i) ==
    /\ At(i, "enqueue")
    /\ "enqueue" \in FireErrors /\ Fault
    /\ Goto(i, "store", fire[i].last)
    /\ UNCHANGED <<electionVars, clock, lastFired, dedup, enqueued, ticked>>

\* The enqueue fails, with or without effect: lastFired is left where it is.
EnqueueError(i) ==
    /\ At(i, "enqueue")
    /\ "enqueue" \in FireErrors /\ Fault
    /\ \/ UNCHANGED <<dedup, enqueued>>
       \/ \A t \in Plan(i).fires : EnqueuePeriodic(t)
    /\ EndFire(i)
    /\ UNCHANGED <<electionVars, clock, lastFired, ticked>>

StoreLastFired(i) ==
    /\ At(i, "store")
    /\ \/ lastFired' = Plan(i).newLast /\ UNCHANGED faults
       \/ "store" \in FireErrors /\ Fault /\ UNCHANGED lastFired
    /\ EndFire(i)
    /\ UNCHANGED <<electionVars, clock, dedup, enqueued, ticked>>

\* The next call is not begun: its context is cancelled.
FireCancelled(i) ==
    /\ ~At(i, "idle")
    /\ ShuttingDown(i)
    /\ EndFire(i)
    /\ UNCHANGED <<electionVars, clock, lastFired, dedup, enqueued, ticked, faults>>

FireStep(i) ==
    \/ FireBegin(i) \/ ReadLastFired(i) \/ ReadNothing(i) \/ Baseline(i)
    \/ EnqueueTrigger(i) \/ EnqueueError(i) \/ StoreLastFired(i)
    \/ FireCancelled(i)

-----------------------------------------------------------------------------
(* The election's steps: the run goroutine is in one call at a time. *)

ElectStep(i) ==
    /\ At(i, "idle")
    /\ RunStep(i)
    /\ UNCHANGED <<clock, fireVars, faults>>

LifeStep(i) ==
    /\ Start(i) \/ ShutdownCancel(i) \/ ShutdownResign(i) \/ ShutdownSkip(i)
    /\ UNCHANGED <<clock, fireVars, faults>>

CrashStep(i) ==
    /\ Crash(i)
    /\ EndFire(i)
    /\ UNCHANGED <<clock, lastFired, dedup, enqueued, ticked, faults>>

Live == {i \in Instances : Running(i)}

\* A running instance leads, and knows it.
Led == \E i \in Live : isLeader[i] /\ leader = i

\* A second passes; the tick ticker drops a tick that was not read.
PassTime ==
    /\ clock < Horizon
    /\ IF Live # {} THEN UNCHANGED faults ELSE Fault
    /\ Stalls \/ \A i \in Instances : At(i, "idle") /\ (Running(i) => i \notin ticked)
    /\ Tick
    /\ clock' = clock + 1
    /\ dedup' = [t \in Triggers |-> Down(dedup[t])]
    /\ ticked' = Live
    /\ headless' = IF Live = {} \/ Led THEN 0 ELSE headless + 1
    /\ UNCHANGED <<lastFired, enqueued, fire>>

PNext ==
    \/ /\ \E i \in Instances : FireStep(i) \/ ElectStep(i) \/ LifeStep(i) \/ CrashStep(i)
       /\ headless' = IF Live \subseteq Live' THEN headless ELSE 0
    \/ PassTime

PSpec == PInit /\ [][PNext]_vars

-----------------------------------------------------------------------------
(* Properties. *)

\* "the same (schedule, trigger-time) is enqueued at most once cluster-wide"
\* (scheduler.go:326): across crashes and handovers between any two calls of
\* fireDue, no trigger is put on the queue twice, as long as the failed calls
\* and the time without an instance stay within what the dedup TTL allows for.
AtMostOnce == \A t \in Triggers : enqueued[t] <= 1

\* "Dedup key lives well beyond a leader-handover window" (scheduler.go:335):
\* the window is bounded. However the leader goes - a crash, a shutdown whose
\* resign message is lost, a renewal still in flight that takes the key back
\* after the resign ("it cannot re-acquire the lock", scheduler.go:258) - a
\* running instance leads again within one TTL and one renew interval of the
\* last departure.
HandoverInTime == headless < LeaderTTL + RenewEvery

\* "leaving it put lets the next tick retry the trigger instead of silently
\* losing it" (scheduler.go:285-287), and a baseline is for "the first time a
\* schedule is ever seen" (scheduler.go:311): whichever instances believe they
\* lead and wherever they stop, under FireOnce lastFired only moves to an
\* instant that was put on the queue.
NoTriggerLost ==
    [][lastFired # Unset /\ lastFired' # lastFired =>
          \E t \in Triggers : lastFired' = t /\ enqueued[t] > 0]_vars
=============================================================================
