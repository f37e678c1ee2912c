------------------------------- MODULE Leases -------------------------------
(***************************************************************************)
(* The clocks behind recovery: the idle time of delivered entries, the     *)
(* heartbeat that resets it for the tasks a server has in flight, the      *)
(* sweeps of the recoverer, and the TTL of the unique lock.                *)
(*                                                                         *)
(* TaskQueue says what a reclaim does to a task and leaves open when one   *)
(* happens; here time is counted in ticks, and what a task is worth (its   *)
(* retry budget, its ZSETs) is left open: a task waits, is delivered, or   *)
(* has ended. A tick is long against a Redis call: what a running server   *)
(* has to do by its clocks is done before the next tick, while a handler   *)
(* runs for as long as it likes. Calls fail at most MaxFaults times.       *)
(***************************************************************************)
EXTENDS Integers, Sequences, FiniteSets

CONSTANTS
    Servers,            \* server processes
    Steady,             \* servers that are never stopped
    Tasks,              \* tasks, each with a unique lock of its own
    Corrupt,            \* tasks whose stored message does not decode
    MaxEntries,         \* bounds the stream entries remembered at once
    None,
    RecoverMinIdle,     \* ServerConfig, in ticks
    RecoverInterval,
    HeartbeatInterval,  \* as configured; 0 is unset
    UniqueTTL,          \* the TTL given to WithUnique
    RecoverBatch,       \* recoverBatchSize
    MaxFaults           \* bounds the calls that fail

ASSUME LeaseAssumption ==
    /\ Steady \subseteq Servers /\ Corrupt \subseteq Tasks
    /\ None \notin Servers \cup Tasks
    /\ {MaxEntries, RecoverMinIdle, RecoverInterval, UniqueTTL, RecoverBatch}
          \subseteq Nat \ {0}
    /\ HeartbeatInterval \in Nat /\ MaxFaults \in Nat

VARIABLES
    status,     \* of each server: down, up, or draining after Shutdown
    beatIn,     \* ticks until its heartbeat ticker fires
    sweepIn,    \* ticks until its recover ticker fires
    inflight,   \* Server.inflight: the entry tracked for each task
    sweep,      \* the entries its recoverer has claimed and not treated yet
    pel,        \* delivered, unacked entries: the task of each
    order,      \* the same entries in stream order
    idle,       \* their idle time
    run,        \* the goroutine that was given each entry
    waiting,    \* tasks in the stream or in the retry ZSET
    body,       \* tasks that have a hash
    lock,       \* what is left of the TTL of each task's lock, 0 without a lock
    faults,     \* calls that have failed
    missed,     \* history: lease calls of each server that failed in a row
    drained,    \* history: ticks since its Shutdown
    renewed     \* history: entries whose last lease call renewed the lock too

serverVars == <<status, beatIn, sweepIn, inflight, sweep>>
redisVars == <<pel, order, idle, waiting, body, lock>>
vars == <<serverVars, redisVars, run, faults, missed, drained, renewed>>

EntryIds == 1 .. MaxEntries

\* Mutant: the heartbeat defaults to the whole window.
HeartbeatWholeWindow ==
    IF HeartbeatInterval = 0 \/ HeartbeatInterval >= RecoverMinIdle
    THEN RecoverMinIdle ELSE HeartbeatInterval

\* newServer: unset or too long becomes a third of the recover window, with a
\* floor of the smallest unit.
Heartbeat ==
    LET h == IF HeartbeatInterval = 0 \/ HeartbeatInterval >= RecoverMinIdle
             THEN RecoverMinIdle \div 3 ELSE HeartbeatInterval
    IN  IF h < 1 THEN 1 ELSE h

\* The longest a stuck entry is left alone after n failed calls: its window and
\* a sweep for each entry ahead of it, and each failed call starts this over.
Patience(n) == (1 + n) * (RecoverMinIdle + RecoverInterval * MaxEntries)
MaxIdle == Patience(MaxFaults) + 1

NoRun == [server |-> None, task |-> None, tracked |-> FALSE]

Init ==
    /\ status = [s \in Servers |-> IF s \in Steady THEN "up" ELSE "down"]
    /\ beatIn = [s \in Servers |-> Heartbeat]
    /\ sweepIn = [s \in Servers |-> RecoverInterval]
    /\ inflight = [s \in Servers |-> [t \in Tasks |-> None]]
    /\ sweep = [s \in Servers |-> {}]
    /\ pel = [e \in EntryIds |-> None]
    /\ order = <<>>
    /\ idle = [e \in EntryIds |-> 0]
    /\ run = [e \in EntryIds |-> NoRun]
    /\ waiting = {} /\ body = {}
    /\ lock = [t \in Tasks |-> 0]
    /\ faults = 0
    /\ missed = [s \in Servers |-> 0]
    /\ drained = [s \in Servers |-> 0]
    /\ renewed = {}

\* The call works, or fails without effect and is counted.
Works == UNCHANGED faults
Fails == faults < MaxFaults /\ faults' = faults + 1

Remembered(e) ==
    pel[e] # None \/ run[e] # NoRun \/ \E s \in Servers, t \in Tasks : <<e, t>> \in sweep[s]

\* XACK + XDEL.
AckDel(e) ==
    /\ pel' = [pel EXCEPT ![e] = None]
    /\ order' = SelectSeq(order, LAMBDA f : f # e)
    /\ idle' = [idle EXCEPT ![e] = 0]

\* AckDel alone, or with releaseUnique: the lock names the task, so the end of
\* one run of a task releases it whatever other entries the task has.
AckKeep(e) == AckDel(e) /\ renewed' = renewed \ {e} /\ UNCHANGED lock
AckRelease(e, t) ==
    /\ AckDel(e)
    /\ renewed' = {f \in renewed \ {e} : pel[f] # t}
    /\ lock' = [lock EXCEPT ![t] = 0]

-----------------------------------------------------------------------------
(* Clients, delivery and handlers. *)

\* EnqueueUnique of a task nothing is left of.
Submit(t) ==
    /\ lock[t] = 0
    /\ t \notin waiting
    /\ \A e \in EntryIds : pel[e] # t /\ run[e].task # t
    /\ waiting' = waiting \cup {t}
    /\ body' = body \cup {t}
    /\ lock' = [lock EXCEPT ![t] = UniqueTTL]
    /\ UNCHANGED <<serverVars, pel, order, idle, run, faults, missed, drained, renewed>>

\* DequeueBatch: XREADGROUP delivers t, and its body is read. An orphan is
\* dropped; an entry that does not decode, or a failing read, stays behind.
Deliver(s, t) ==
    /\ status[s] = "up"
    /\ t \in waiting
    /\ waiting' = waiting \ {t}
    /\ \E e \in EntryIds :
          /\ ~Remembered(e) /\ \A f \in 1 .. (e - 1) : Remembered(f)
          /\ IF t \notin body
             THEN Works /\ UNCHANGED <<pel, order, idle, run>>
             ELSE /\ pel' = [pel EXCEPT ![e] = t]
                  /\ order' = Append(order, e)
                  /\ idle' = [idle EXCEPT ![e] = 0]
                  /\ \/ /\ t \notin Corrupt /\ Works
                        /\ run' = [run EXCEPT ![e] =
                              [server |-> s, task |-> t, tracked |-> FALSE]]
                     \/ t \in Corrupt /\ Works /\ UNCHANGED run
                     \/ Fails /\ UNCHANGED run
    /\ UNCHANGED <<serverVars, body, lock, missed, drained, renewed>>

\* trackInflight: the map is keyed by the task.
Track(e) ==
    LET r == run[e]
    IN  /\ r # NoRun /\ ~r.tracked
        /\ run' = [run EXCEPT ![e].tracked = TRUE]
        /\ inflight' = [inflight EXCEPT ![r.server][r.task] = e]
        /\ UNCHANGED <<status, beatIn, sweepIn, sweep, redisVars, faults, missed,
                       drained, renewed>>

\* The handler returns and the task is acked, then untrackInflight. Success and
\* a dead letter end the task; an error puts it into the retry ZSET, with its
\* message, whoever has moved it meanwhile. A failed call leaves it unacked.
Finish(e) ==
    LET r == run[e]
    IN  /\ r.tracked
        /\ \/ /\ Works /\ AckRelease(e, r.task)
              /\ body' = body \ {r.task}
              /\ UNCHANGED waiting
           \/ /\ Works /\ AckKeep(e)
              /\ body' = body \cup {r.task}
              /\ waiting' = waiting \cup {r.task}
           \/ Fails /\ UNCHANGED <<redisVars, renewed>>
        /\ run' = [run EXCEPT ![e] = NoRun]
        /\ inflight' = [inflight EXCEPT ![r.server][r.task] = None]
        /\ UNCHANGED <<status, beatIn, sweepIn, sweep, missed, drained>>

-----------------------------------------------------------------------------
(* heartbeaterLoop. *)

\* The entries a server tracks that are still in the PEL: XCLAIM without FORCE
\* leaves the others alone.
Beaten(s) == {e \in EntryIds : pel[e] # None /\ \E t \in Tasks : inflight[s][t] = e}

\* ExtendLease resets the idle time of what is tracked.
ExtendLease(s) ==
    idle' = [e \in EntryIds |-> IF e \in Beaten(s) THEN 0 ELSE idle[e]]

\* Mutant: one window.
RenewTTLShort == RecoverMinIdle

RenewTTL == 2 * RecoverMinIdle

\* renewUniqueCmd for the keys in flight: raises a TTL, never creates a lock.
RenewUnique(s) ==
    lock' = [t \in Tasks |->
                IF inflight[s][t] # None /\ lock[t] \in 1 .. (RenewTTL - 1)
                THEN RenewTTL ELSE lock[t]]

\* beat: either call may fail, and is only logged.
Beat(s) ==
    /\ status[s] = "up"
    /\ beatIn[s] = 0
    /\ beatIn' = [beatIn EXCEPT ![s] = Heartbeat]
    /\ \E leaseFails, renewFails \in BOOLEAN :
          /\ faults' = faults + (IF leaseFails THEN 1 ELSE 0) + (IF renewFails THEN 1 ELSE 0)
          /\ faults' <= MaxFaults
          /\ leaseFails \/ renewFails => \E t \in Tasks : inflight[s][t] # None
          /\ IF leaseFails THEN UNCHANGED idle ELSE ExtendLease(s)
          /\ IF renewFails THEN UNCHANGED lock ELSE RenewUnique(s)
          /\ missed' = [missed EXCEPT ![s] = IF leaseFails THEN @ + 1 ELSE 0]
          /\ renewed' = IF leaseFails THEN renewed
                        ELSE IF renewFails THEN renewed \ Beaten(s)
                        ELSE renewed \cup {e \in Beaten(s) : lock[pel[e]] > 0}
    /\ UNCHANGED <<status, sweepIn, inflight, sweep, pel, order, waiting, body, run, drained>>

-----------------------------------------------------------------------------
(* recovererLoop. *)

\* XAUTOCLAIM looks at ten entries for each one it is asked for.
ScanLimit == 10 * RecoverBatch
Scanned == IF Len(order) <= ScanLimit THEN order ELSE SubSeq(order, 1, ScanLimit)

\* XAUTOCLAIM from the start of the PEL, since the cursor it returns is dropped:
\* the first entries that are idle, of those it looks at.
Claimable == SelectSeq(Scanned, LAMBDA e : idle[e] >= RecoverMinIdle)
Batch == {Claimable[i] : i \in 1 .. (IF Len(Claimable) < RecoverBatch
                                     THEN Len(Claimable) ELSE RecoverBatch)}

\* Mutant: a claim leaves the idle time alone (XCLAIM ... IDLE).
SweepClaimKeepsIdle(s) ==
    /\ status[s] = "up"
    /\ sweepIn[s] = 0
    /\ sweepIn' = [sweepIn EXCEPT ![s] = RecoverInterval]
    /\ \/ Works /\ sweep' = [sweep EXCEPT ![s] = {<<e, pel[e]>> : e \in Batch}]
       \/ Fails /\ UNCHANGED sweep
    /\ renewed' = renewed \ Batch
    /\ UNCHANGED <<status, beatIn, inflight, redisVars, run, missed, drained>>

SweepClaim(s) ==
    /\ status[s] = "up"
    /\ sweepIn[s] = 0
    /\ sweepIn' = [sweepIn EXCEPT ![s] = RecoverInterval]
    /\ \/ /\ Works
          /\ sweep' = [sweep EXCEPT ![s] = {<<e, pel[e]>> : e \in Batch}]
          /\ idle' = [e \in EntryIds |-> IF e \in Batch THEN 0 ELSE idle[e]]
          /\ renewed' = renewed \ Batch
       \/ Fails /\ UNCHANGED <<sweep, idle, renewed>>
    /\ UNCHANGED <<status, beatIn, inflight, pel, order, waiting, body, lock, run,
                   missed, drained>>

\* Recover, one claimed entry: an orphan is dropped; a message that does not
\* decode, or a failing call, is skipped; the others are retried or archived.
SweepEntry(s, e, t) ==
    /\ <<e, t>> \in sweep[s]
    /\ sweep' = [sweep EXCEPT ![s] = @ \ {<<e, t>>}]
    /\ \/ /\ t \notin body /\ Works /\ AckKeep(e)
          /\ UNCHANGED waiting
       \/ /\ t \in body /\ t \in Corrupt /\ Works
          /\ UNCHANGED <<pel, order, idle, waiting, lock, renewed>>
       \/ /\ Fails
          /\ UNCHANGED <<pel, order, idle, waiting, lock, renewed>>
       \/ /\ t \in body \ Corrupt /\ Works /\ AckKeep(e)
          /\ waiting' = waiting \cup {t}
       \/ /\ t \in body \ Corrupt /\ Works /\ AckRelease(e, t)
          /\ UNCHANGED waiting
    /\ UNCHANGED <<status, beatIn, sweepIn, inflight, body, run, missed, drained>>

-----------------------------------------------------------------------------
(* Starting and stopping, and time. *)

Start(s) ==
    /\ status[s] = "down"
    /\ status' = [status EXCEPT ![s] = "up"]
    /\ UNCHANGED <<beatIn, sweepIn, inflight, sweep, redisVars, run, faults, missed,
                   drained, renewed>>

\* The loops of a stopped server are gone.
LoopsEnd(s) ==
    /\ beatIn' = [beatIn EXCEPT ![s] = Heartbeat]
    /\ sweepIn' = [sweepIn EXCEPT ![s] = RecoverInterval]
    /\ sweep' = [sweep EXCEPT ![s] = {}]

\* Shutdown: the loops end at once, handlers run on.
Shutdown(s) ==
    /\ s \notin Steady /\ status[s] = "up"
    /\ status' = [status EXCEPT ![s] = "draining"]
    /\ LoopsEnd(s)
    /\ UNCHANGED <<inflight, redisVars, run, faults, missed, drained, renewed>>

\* The process ends: after its last handler, at the end of Shutdown's context,
\* or by a crash.
Exit(s) ==
    /\ s \notin Steady /\ status[s] # "down"
    /\ status' = [status EXCEPT ![s] = "down"]
    /\ LoopsEnd(s)
    /\ inflight' = [inflight EXCEPT ![s] = [t \in Tasks |-> None]]
    /\ run' = [e \in EntryIds |-> IF run[e].server = s THEN NoRun ELSE run[e]]
    /\ missed' = [missed EXCEPT ![s] = 0]
    /\ drained' = [drained EXCEPT ![s] = 0]
    /\ UNCHANGED <<redisVars, faults, renewed>>

Tick ==
    /\ \A s \in Servers : sweep[s] = {}
    /\ \A s \in Servers : status[s] = "up" => beatIn[s] > 0 /\ sweepIn[s] > 0
    /\ \A e \in EntryIds : run[e] # NoRun => run[e].tracked
    /\ beatIn' = [s \in Servers |-> IF status[s] = "up" THEN beatIn[s] - 1 ELSE beatIn[s]]
    /\ sweepIn' = [s \in Servers |-> IF status[s] = "up" THEN sweepIn[s] - 1 ELSE sweepIn[s]]
    /\ idle' = [e \in EntryIds |-> IF pel[e] # None /\ idle[e] < MaxIdle
                                   THEN idle[e] + 1 ELSE idle[e]]
    /\ lock' = [t \in Tasks |-> IF lock[t] > 0 THEN lock[t] - 1 ELSE 0]
    /\ drained' = [s \in Servers |-> IF status[s] = "draining" /\ drained[s] < RecoverMinIdle
                                     THEN drained[s] + 1 ELSE drained[s]]
    /\ UNCHANGED <<status, inflight, sweep, pel, order, waiting, body, run, faults,
                   missed, renewed>>

Next ==
    \/ \E t \in Tasks : Submit(t)
    \/ \E s \in Servers, t \in Tasks : Deliver(s, t)
    \/ \E e \in EntryIds : Track(e) \/ Finish(e)
    \/ \E s \in Servers :
          \/ Beat(s) \/ SweepClaim(s)
          \/ \E e \in EntryIds, t \in Tasks : SweepEntry(s, e, t)
          \/ Start(s) \/ Shutdown(s) \/ Exit(s)
    \/ Tick

Spec == Init /\ [][Next]_vars

-----------------------------------------------------------------------------
(* Properties. *)

\* A step of server s claims entry e.
Claims(s, e) == \E t \in Tasks : <<e, t>> \in sweep'[s] \ sweep[s]

\* The handler given e still runs, and the heartbeat of its server knows it.
Tracked(e) == run[e].tracked /\ inflight[run[e].server][run[e].task] = e

\* "so a long-running task is not reclaimed by the recoverer" (server.go:745):
\* an entry whose handler still runs is claimed only if a lease call of its
\* server failed, and enough of them in a row to use up RecoverMinIdle, or if
\* Shutdown has ended the heartbeat and the handler has outlived it for the rest
\* of the window. No HeartbeatInterval that newServer settles on is too long.
LeaseKept ==
    [][\A s \in Servers, e \in EntryIds :
          Claims(s, e) /\ Tracked(e) =>
              LET h == run[e].server
              IN  /\ missed[h] > 0 \/ drained[h] > 0
                  /\ drained[h] + Heartbeat * (missed[h] + 1) >= RecoverMinIdle]_vars

\* "so a long-running task is neither reclaimed nor loses its lock
\* mid-processing" (README.md:44): an entry whose handler still runs on a server
\* that is up, and whose last lease calls succeeded, is not claimed. LeaseKept
\* without the exception for a handler that inflight has lost sight of: two
\* runs of one task share a key of the map.
LongRunsKept ==
    [][\A s \in Servers, e \in EntryIds :
          Claims(s, e) /\ run[e].tracked /\ status[run[e].server] = "up"
              => missed[run[e].server] > 0]_vars

\* "a crash (heartbeat stops) lets the recoverer take over before the lock
\* lapses" (server.go:751): a lock renewed with the lease is held for two
\* recover windows from then, whatever TTL the client gave it.
LockOutlivesLease ==
    \A e \in renewed : pel[e] # None /\ idle[e] < 2 * RecoverMinIdle => lock[pel[e]] > 0

\* A server stays up, a sweep can look at the whole PEL, and the entries that
\* never leave it do not fill every batch of a recover window.
SweepsSuffice ==
    /\ Steady # {}
    /\ MaxEntries <= ScanLimit
    /\ Cardinality(Corrupt) * RecoverInterval < RecoverBatch * RecoverMinIdle

\* "one bad task cannot stall recovery of the rest" (recover.go:40): an entry
\* nobody works on is claimed in bounded time, although every sweep starts at
\* the head of the PEL, where the entries that do not decode collect.
RecoveredInTime ==
    SweepsSuffice =>
        \A e \in EntryIds :
            pel[e] \in Tasks \ Corrupt /\ run[e] = NoRun => idle[e] <= Patience(faults)
=============================================================================
