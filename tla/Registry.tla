------------------------------ MODULE Registry ------------------------------
(***************************************************************************)
(* The schedule registry: a HASH of schedules with a last_seen each, which *)
(* scheduler instances of several versions share. An instance registers    *)
(* its schedules when it starts, touches them on its renew ticker, and     *)
(* prunes the stale entries of others, together with their lastFired keys. *)
(* Touch and prune read in one call and write in later ones.               *)
(*                                                                         *)
(* Time is counted in ticks; last_seen is kept as the age of the entry.    *)
(* Election and firing are PeriodicFire's: here a running instance may     *)
(* store the lastFired key of a schedule of its own at any time.           *)
(***************************************************************************)
EXTENDS Integers

CONSTANTS
    Instances,      \* scheduler instances
    Schedules,      \* schedule IDs
    Registers,      \* the schedules each instance registers
    RenewEvery,     \* period of the renew ticker
    StaleAfter,     \* staleAfter
    MaxFaults       \* bound: failed calls

ASSUME RegistryAssumption ==
    /\ Registers \in [Instances -> SUBSET Schedules]
    /\ RenewEvery \in Nat \ {0} /\ StaleAfter \in Nat /\ MaxFaults \in Nat

VARIABLES
    age,        \* age of each entry, Absent without one; Stale at most
    lastFired,  \* the schedules with a lastFired key
    pc,         \* where each instance is
    due,        \* ticks until the renew ticker fires
    seen,       \* the entries an instance's touch has read
    doomed,     \* the entries an instance's prune is to delete
    faults,     \* history: failed calls
    listed,     \* history: instances whose registration succeeded
    raced       \* history: schedules registered or touched while doomed

registryVars == <<age, lastFired>>
localVars == <<pc, due, seen, doomed>>
vars == <<registryVars, localVars, faults, listed, raced>>

Absent == -1
Stale == StaleAfter + 1
PCs == {"new", "idle", "touch", "scan", "hdel", "del", "stopped"}

Running(i) == pc[i] \notin {"new", "stopped"}

Init ==
    /\ age = [x \in Schedules |-> Absent]
    /\ lastFired = {}
    /\ pc = [i \in Instances |-> "new"]
    /\ due = [i \in Instances |-> 0]
    /\ seen = [i \in Instances |-> {}]
    /\ doomed = [i \in Instances |-> {}]
    /\ faults = 0 /\ listed = {} /\ raced = {}

Goto(i, p) == pc' = [pc EXCEPT ![i] = p]

Fault == faults < MaxFaults /\ faults' = faults + 1

\* HSET of the entries X, with last_seen now.
Write(X) ==
    /\ age' = [x \in Schedules |-> IF x \in X THEN 0 ELSE age[x]]
    /\ raced' = raced \cup {x \in X : \E j \in Instances : x \in doomed[j]}

-----------------------------------------------------------------------------
\* RegisterSchedules; a failure is not fatal.
Start(i) ==
    /\ pc[i] = "new"
    /\ \/ Write(Registers[i]) /\ listed' = listed \cup {i} /\ UNCHANGED faults
       \/ Fault /\ UNCHANGED <<age, listed, raced>>
    /\ Goto(i, "scan")
    /\ due' = [due EXCEPT ![i] = RenewEvery]
    /\ UNCHANGED <<lastFired, seen, doomed>>

\* TouchSchedules reads its entries; unknown IDs are skipped.
TouchRead(i) ==
    /\ pc[i] = "idle" /\ due[i] = 0
    /\ due' = [due EXCEPT ![i] = RenewEvery]
    /\ LET found == {x \in Registers[i] : age[x] # Absent}
       IN  \/ /\ seen' = [seen EXCEPT ![i] = found]
              /\ Goto(i, IF found = {} THEN "scan" ELSE "touch")
              /\ UNCHANGED faults
           \/ Goto(i, "scan") /\ Fault /\ UNCHANGED seen
    /\ UNCHANGED <<registryVars, doomed, listed, raced>>

\* Mutant: prunes at Start only.
TouchWriteOnly(i) ==
    /\ pc[i] = "touch"
    /\ \/ Write(seen[i]) /\ UNCHANGED faults
       \/ Fault /\ UNCHANGED <<age, raced>>
    /\ seen' = [seen EXCEPT ![i] = {}]
    /\ Goto(i, "idle")
    /\ UNCHANGED <<lastFired, due, doomed, listed>>

\* It writes back what it has read, then the prune follows.
TouchWrite(i) ==
    /\ pc[i] = "touch"
    /\ \/ Write(seen[i]) /\ UNCHANGED faults
       \/ Fault /\ UNCHANGED <<age, raced>>
    /\ seen' = [seen EXCEPT ![i] = {}]
    /\ Goto(i, "scan")
    /\ UNCHANGED <<lastFired, due, doomed, listed>>

\* Mutant: whatever is not its own is pruned.
PrunableNotMine(i) == {x \in Schedules \ Registers[i] : age[x] # Absent}

Prunable(i) == {x \in Schedules \ Registers[i] : age[x] > StaleAfter}

\* Mutant: HDEL also without fields.
ScanNoReturn(i) ==
    /\ pc[i] = "scan"
    /\ doomed' = [doomed EXCEPT ![i] = Prunable(i)]
    /\ Goto(i, "hdel")
    /\ UNCHANGED <<registryVars, due, seen, faults, listed, raced>>

\* PruneSchedules reads the registry.
Scan(i) ==
    /\ pc[i] = "scan"
    /\ \/ /\ doomed' = [doomed EXCEPT ![i] = Prunable(i)]
          /\ Goto(i, IF Prunable(i) = {} THEN "idle" ELSE "hdel")
          /\ UNCHANGED faults
       \/ Goto(i, "idle") /\ Fault /\ UNCHANGED doomed
    /\ UNCHANGED <<registryVars, due, seen, listed, raced>>

\* It deletes the entries it found stale; a failure, which may be that of the
\* reply alone, ends it.
HDel(i) ==
    /\ pc[i] = "hdel"
    /\ LET left == [x \in Schedules |-> IF x \in doomed[i] THEN Absent ELSE age[x]]
       IN  \/ age' = left /\ Goto(i, "del") /\ UNCHANGED <<doomed, faults>>
           \/ /\ Fault /\ age' \in {age, left}
              /\ Goto(i, "idle")
              /\ doomed' = [doomed EXCEPT ![i] = {}]
    /\ UNCHANGED <<lastFired, due, seen, listed, raced>>

\* Mutant: DEL for every entry of others.
DelKeysNotMine(i, x) == lastFired' = lastFired \cap Registers[i]

\* DEL of the lastFired key of x.
DelKeys(i, x) == lastFired' = lastFired \ {x}

\* Then their lastFired keys, one call each; errors are ignored.
Del(i) ==
    /\ pc[i] = "del"
    /\ \E x \in doomed[i] :
          /\ \/ DelKeys(i, x) /\ UNCHANGED faults
             \/ Fault /\ UNCHANGED lastFired
          /\ doomed' = [doomed EXCEPT ![i] = @ \ {x}]
          /\ Goto(i, IF doomed[i] = {x} THEN "idle" ELSE "del")
    /\ UNCHANGED <<age, due, seen, listed, raced>>

\* SetLastFired for one of its schedules.
Fire(i) ==
    /\ pc[i] = "idle"
    /\ \E x \in Registers[i] : lastFired' = lastFired \cup {x}
    /\ UNCHANGED <<age, localVars, faults, listed, raced>>

\* Shutdown or a crash, between any two calls.
Stop(i) ==
    /\ Running(i)
    /\ Goto(i, "stopped")
    /\ seen' = [seen EXCEPT ![i] = {}]
    /\ doomed' = [doomed EXCEPT ![i] = {}]
    /\ UNCHANGED <<registryVars, due, faults, listed, raced>>

\* A tick passes once every instance has served its renew ticker.
Tick ==
    /\ \A i \in Instances : Running(i) => pc[i] = "idle" /\ due[i] > 0
    /\ age' = [x \in Schedules |-> IF age[x] \in {Absent, Stale} THEN age[x] ELSE age[x] + 1]
    /\ due' = [i \in Instances |-> IF Running(i) THEN due[i] - 1 ELSE 0]
    /\ UNCHANGED <<lastFired, pc, seen, doomed, faults, listed, raced>>

RunStep(i) == TouchRead(i) \/ TouchWrite(i) \/ Scan(i) \/ HDel(i) \/ Del(i)

Next ==
    \/ \E i \in Instances : Start(i) \/ RunStep(i) \/ Fire(i) \/ Stop(i)
    \/ Tick

Spec == Init /\ [][Next]_vars

\* The goroutines run and time passes; at most MaxFaults calls fail.
Fairness == WF_vars(Tick) /\ \A i \in Instances : WF_vars(RunStep(i))

FairSpec == Spec /\ Fairness

-----------------------------------------------------------------------------
(* Properties. *)

\* Every variable keeps its type, and a prune with nothing to delete has ended.
TypeOK ==
    /\ age \in [Schedules -> Absent .. Stale]
    /\ lastFired \subseteq Schedules
    /\ pc \in [Instances -> PCs]
    /\ due \in [Instances -> 0 .. RenewEvery]
    /\ \A i \in Instances : pc[i] \in {"hdel", "del"} <=> doomed[i] # {}
    /\ \A i \in Instances : pc[i] = "touch" <=> seen[i] # {}

\* The schedules of running instances that published them, but for those that
\* were published while a prune had already found them stale.
Kept == UNION {Registers[i] : i \in {j \in listed : Running(j)}} \ raced

\* "that pod keeps its own entries fresh, so the staleness check spares them
\* until it exits" (registry.go:79): whoever prunes and whoever else stops,
\* the entry of a running instance is there and not stale, although as many
\* calls fail as StaleAfter leaves room for.
LiveEntriesFresh == \A x \in Kept : age[x] \in 0 .. StaleAfter

\* A prune takes no lastFired key from a running instance, which would take
\* its schedule for one never seen and skip what is due.
LastFiredKept == [][\A x \in Kept : x \in lastFired => x \in lastFired']_vars

\* "so a changed cron spec does not strand its old ID forever"
\* (scheduler.go:195): while some instance runs, an entry that no running
\* instance registers goes in the end.
StaleLeave ==
    \A x \in Schedules :
        (/\ <>[](\A i \in Instances : Running(i) => x \notin Registers[i])
         /\ <>[](\E i \in Instances : Running(i)))
            => <>[](age[x] = Absent)
=============================================================================
