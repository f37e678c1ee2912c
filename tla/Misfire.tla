------------------------------- MODULE Misfire -------------------------------
(***************************************************************************)
(* One leader that ticks, is late or away for a while, and ticks again:    *)
(* what the misfire policy fires for the triggers that elapsed meanwhile,  *)
(* for every schedule within the horizon and with a scan cap that absences *)
(* exceed. Redis, the election and the calls of fireDue that fail are left *)
(* to PeriodicFire.                                                        *)
(***************************************************************************)
EXTENDS ComputeFires

CONSTANT MaxGap     \* the longest time between two ticks

ASSUME GapAssumption == MaxGap \in Nat \ {0}

VARIABLES
    sched,      \* the schedule's trigger instants, {} if no date satisfies it
    fireOnce,   \* its policy: MisfireFireOnce or MisfireSkip
    now,        \* the time of the last fireDue
    lastFired,  \* the persisted lastFired
    fired,      \* every trigger enqueued
    missed      \* history: what some late tick found elapsed

vars == <<sched, fireOnce, now, lastFired, fired, missed>>

Init ==
    /\ sched \in SUBSET (1 .. Horizon)
    /\ fireOnce \in BOOLEAN
    /\ now = 0
    /\ lastFired = 0
    /\ fired = {}
    /\ missed = {}

Elapsed(t) == {x \in sched : lastFired < x /\ x <= t}

\* fireDue, d seconds after the one before. The ticker's period is 1; more is an
\* absence of the leader or, with 2, a late tick that crossed two seconds. Its
\* calls succeed.
FireDue(d) ==
    /\ now + d <= Horizon
    /\ LET plan == computeFires(sched, lastFired, now + d, fireOnce)
       IN  /\ fired' = fired \cup plan.fires
           /\ lastFired' = plan.newLast
    /\ now' = now + d
    /\ \/ d > 1 /\ missed' = Elapsed(now + d)
       \/ UNCHANGED missed
    /\ UNCHANGED <<sched, fireOnce>>

Next == \E d \in 1 .. MaxGap : FireDue(d)

Spec == Init /\ [][Next]_vars

-----------------------------------------------------------------------------
(* Properties, of schedules that some date satisfies. *)

\* How many triggers one tick can pass over.
Reach == MaxScan + 1

\* "FireOnce fires once (for the latest) then resumes" (schedule.go:29) and "if
\* the cap is hit, this tick fast-forwards partway and the next tick continues"
\* (schedule.go:41): of the triggers a late tick found elapsed, that tick and all
\* the ticks after it, late or not, fire at least one, and no more than one for
\* each tick that the scan of them takes.
CatchUpBounded ==
    fireOnce /\ missed # {} =>
        /\ fired \cap missed # {}
        /\ (Cardinality(fired \cap missed) - 1) * Reach < Cardinality(missed)

\* "Skip fires none and fast-forwards to the latest elapsed trigger"
\* (schedule.go:28): of several triggers a late tick found elapsed, none is ever
\* fired, then or later. Beyond the scan cap the last of them may be left over
\* and be taken for an ordinary tick. A single one is not a gap to computeFires
\* (schedule.go:27), and nothing is said of it here.
SkippedForGood ==
    ~fireOnce /\ Cardinality(missed) > 1 =>
        fired \cap missed \subseteq
            (IF Cardinality(missed) <= Reach THEN {} ELSE {Max(missed)})

\* Against the definition without a loop: a tick deals with the first Reach of
\* the triggers that have elapsed. It fires the latest of them if it is alone or
\* the policy is FireOnce, and leaves exactly the others to the next tick.
TickMatchesReference ==
    [][LET due == Elapsed(now')
           seen == {x \in due : Cardinality({y \in due : y <= x}) <= Reach}
       IN  sched # {} =>
               /\ fired' \ fired = IF seen # {} /\ (fireOnce \/ Cardinality(seen) = 1)
                                   THEN {Max(seen)} ELSE {}
               /\ lastFired' = Max(seen \cup {lastFired})]_vars
=============================================================================
