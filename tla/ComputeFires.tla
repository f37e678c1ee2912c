---------------------------- MODULE ComputeFires ----------------------------
(* The misfire computation of the scheduler, over a schedule S given as its *)
(* set of trigger instants.                                                 *)
EXTENDS Integers, FiniteSetsExt

CONSTANTS
    Horizon,    \* the last instant considered
    MaxScan     \* maxScan, 100_000 in the code

ASSUME FiresAssumption == Horizon \in Nat /\ MaxScan \in Nat

Times == 0 .. Horizon

\* time.Time{}, which robfig/cron returns for a spec that no date satisfies.
ZeroTime == -1

\* cronSchedule.Next: the first activation after t, beyond the horizon if there
\* is none within it. The empty set stands for a spec that no date satisfies.
NextTrigger(S, t) ==
    IF S = {} THEN ZeroTime ELSE Min({x \in S : x > t} \cup {Horizon + 1})

\* Mutant: no scan, so every missed trigger is replayed in turn.
FirstElapsed(S, first, now) == first

\* The bounded loop: at most MaxScan further triggers that are not after now.
LatestElapsed(S, first, now) ==
    LET step[k \in 0 .. MaxScan] ==
            IF k = 0 THEN first
            ELSE LET n == NextTrigger(S, step[k - 1])
                 IN  IF n > now THEN step[k - 1] ELSE n
    IN  step[MaxScan]

\* Mutant: the catch-up is for the oldest missed trigger.
computeFiresOldest(S, lastFired, now, fireOnce) ==
    LET next == NextTrigger(S, lastFired)
        latest == LatestElapsed(S, next, now)
    IN  IF next > now THEN [fires |-> {}, newLast |-> lastFired]
        ELSE IF latest = next \/ fireOnce
             THEN [fires |-> {next}, newLast |-> latest]
             ELSE [fires |-> {}, newLast |-> latest]

\* Mutant: MisfireSkip fast-forwards by one trigger only.
computeFiresNoForward(S, lastFired, now, fireOnce) ==
    LET next == NextTrigger(S, lastFired)
        latest == LatestElapsed(S, next, now)
    IN  IF next > now THEN [fires |-> {}, newLast |-> lastFired]
        ELSE IF latest = next \/ fireOnce
             THEN [fires |-> {latest}, newLast |-> latest]
             ELSE [fires |-> {}, newLast |-> next]

\* fireOnce is the policy: MisfireFireOnce or, if FALSE, MisfireSkip.
computeFires(S, lastFired, now, fireOnce) ==
    LET next == NextTrigger(S, lastFired)
        latest == LatestElapsed(S, next, now)
    IN  IF next > now THEN [fires |-> {}, newLast |-> lastFired]
        ELSE IF latest = next \/ fireOnce
             THEN [fires |-> {latest}, newLast |-> latest]
             ELSE [fires |-> {}, newLast |-> latest]
=============================================================================
