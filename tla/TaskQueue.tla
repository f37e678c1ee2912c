----------------------------- MODULE TaskQueue -----------------------------
(***************************************************************************)
(* The life of the tasks of one queue: the Redis keys that hold them       *)
(* (task hash, stream with its consumer group, state ZSETs, unique locks), *)
(* the workers of all servers, the forwarder, recoverer and janitor loops, *)
(* and the operator's Inspector calls.                                     *)
(*                                                                         *)
(* One Redis command, script or MULTI block is one step: Redis runs them   *)
(* one at a time, and everything else may happen between two of them.      *)
(* Scripts and loops that treat a batch of tasks one after the other are   *)
(* modelled one task per step, a finer interleaving of the same effects.   *)
(*                                                                         *)
(* Left out: what tells two servers apart (a claim is known by its stream  *)
(* entry, and any of them may be lost, which is what a crash does), time   *)
(* (a ZSET entry may be due, and a lease may lapse, at any moment), and    *)
(* the chain and group steps of Server.process.                            *)
(***************************************************************************)
EXTENDS Integers

CONSTANTS
    Tasks,          \* task IDs
    EntryIds,       \* stream entry IDs: bounds the entries alive at once
    Servers,        \* servers; each runs one recoverer loop
    Keys,           \* unique-lock keys
    None,           \* no task, no entry, no key
    MaxRetry,       \* TaskMessage.MaxRetry of each task
    NoArchive,      \* tasks enqueued with WithDeadLetterDiscard
    Retained,       \* tasks enqueued with WithRetention
    UniqueKey,      \* the lock key of each task, None without WithUnique
    LeasesLapse,    \* TRUE: a lease or lock may run out under a live holder
    Operator        \* the Inspector calls in use: RunTask, DeleteTask

ASSUME NoneAssumption == None \notin Tasks \cup EntryIds \cup Keys
ASSUME TaskAssumption ==
    /\ MaxRetry \in [Tasks -> Nat]
    /\ NoArchive \subseteq Tasks
    /\ Retained \subseteq Tasks
    /\ UniqueKey \in [Tasks -> Keys \cup {None}]
ASSUME SwitchAssumption ==
    /\ LeasesLapse \in BOOLEAN
    /\ Operator \subseteq {"RunTask", "DeleteTask"}

VARIABLES
    body,       \* "msg" field of the task hash: TaskMessage.Retried, or NoBody
    state,      \* "state" field of the task hash, "absent" without a hash
    entry,      \* the stream: the task_id of every live entry
    pel,        \* entries delivered to the consumer group and not acked
    zset,       \* the four state ZSETs
    lock,       \* unique locks: the task ID stored under each key
    job,        \* what the worker that was delivered an entry is doing
    rec,        \* the entry each server's recoverer is moving
    unlocking,  \* tasks with a releaseUnique call still to come
    owed        \* history: accepted tasks without an outcome yet

redisVars == <<body, state, entry, pel, zset, lock>>
vars == <<body, state, entry, pel, zset, lock, job, rec, unlocking, owed>>

NoBody == -1
ZSets == {"scheduled", "retry", "archived", "completed"}
States == {"pending", "active"} \cup ZSets
JobPhases == {"none", "read", "orphan", "loaded", "active"}
RecPhases == {"none", "claimed", "orphan", "loaded"}

NoJob == [phase |-> "none", task |-> None, retried |-> 0]
NoRec == [phase |-> "none", entry |-> None, task |-> None, retried |-> 0]

Init ==
    /\ body = [t \in Tasks |-> NoBody]
    /\ state = [t \in Tasks |-> "absent"]
    /\ entry = [e \in EntryIds |-> None]
    /\ pel = {}
    /\ zset = [z \in ZSets |-> {}]
    /\ lock = [k \in Keys |-> None]
    /\ job = [e \in EntryIds |-> NoJob]
    /\ rec = [s \in Servers |-> NoRec]
    /\ unlocking = {}
    /\ owed = {}

-----------------------------------------------------------------------------
(* Redis commands and scripts. *)

\* Stream IDs are never reused: an ID is free only if nobody remembers it.
Fresh(e) ==
    /\ entry[e] = None
    /\ job[e].phase = "none"
    /\ \A s \in Servers : rec[s].entry # e

\* XADD of the task's ID under the new ID e.
XAdd(e, t) ==
    /\ Fresh(e)
    /\ entry' = [entry EXCEPT ![e] = t]

\* XACK + XDEL of entry e, always issued together.
AckDel(e) ==
    /\ entry' = [entry EXCEPT ![e] = None]
    /\ pel' = pel \ {e}

\* HSET of both fields of the task hash.
WriteHash(t, n, s) ==
    /\ body' = [body EXCEPT ![t] = n]
    /\ state' = [state EXCEPT ![t] = s]

\* DEL of the task hash.
DelHash(t) ==
    /\ body' = [body EXCEPT ![t] = NoBody]
    /\ state' = [state EXCEPT ![t] = "absent"]

\* HSET of the state field alone: it creates the hash when there is none.
SetState(t, s) == state' = [state EXCEPT ![t] = s]

ZAdd(z, t) == zset' = [zset EXCEPT ![z] = @ \cup {t}]
ZRem(Z, t) == zset' = [z \in ZSets |-> IF z \in Z THEN zset[z] \ {t} ELSE zset[z]]

MoveToZSet(e, t, n, z) ==
    /\ AckDel(e)
    /\ WriteHash(t, n, z)
    /\ ZAdd(z, t)

\* Done without retention: one MULTI block.
AckDelHash(e, t) ==
    /\ AckDel(e)
    /\ DelHash(t)
    /\ UNCHANGED zset

\* releaseUnique returns at once for a task without a key; otherwise the
\* script is a second round trip, which a crash or an error may suppress.
ReleaseLater(t) ==
    unlocking' = IF UniqueKey[t] = None THEN unlocking ELSE unlocking \cup {t}

-----------------------------------------------------------------------------
(* Clients. *)

InStream(t) == \E e \in EntryIds : entry[e] = t

\* Nothing of an earlier life of the ID t is still on its way. A generated ID
\* (a UUID) is always so; a WithTaskID ID is when its last task has ended.
Quiescent(t) ==
    /\ ~InStream(t)
    /\ t \notin zset["scheduled"] \cup zset["retry"] \cup unlocking
    /\ \A e \in EntryIds : job[e].task # t
    /\ \A s \in Servers : rec[s].task # t

\* SET NX of the unique lock; without it the call returns ErrDuplicateTask
\* and changes nothing.
AcquireUnique(t) ==
    IF UniqueKey[t] = None
    THEN UNCHANGED lock
    ELSE /\ lock[UniqueKey[t]] = None
         /\ lock' = [lock EXCEPT ![UniqueKey[t]] = t]

\* Mutant: the stale completed/archived entry of an earlier task stays.
EnqueueKeepsStale(t) ==
    /\ Quiescent(t)
    /\ AcquireUnique(t)
    /\ WriteHash(t, 0, "pending")
    /\ \E e \in EntryIds : XAdd(e, t)
    /\ owed' = owed \cup {t}
    /\ UNCHANGED <<pel, zset, job, rec, unlocking>>

Enqueue(t) ==
    /\ Quiescent(t)
    /\ AcquireUnique(t)
    /\ WriteHash(t, 0, "pending")
    /\ \E e \in EntryIds : XAdd(e, t)
    /\ ZRem({"completed", "archived"}, t)
    /\ owed' = owed \cup {t}
    /\ UNCHANGED <<pel, job, rec, unlocking>>

Schedule(t) ==
    /\ Quiescent(t)
    /\ AcquireUnique(t)
    /\ WriteHash(t, 0, "scheduled")
    /\ zset' = [zset EXCEPT !["scheduled"] = @ \cup {t},
                            !["completed"] = @ \ {t},
                            !["archived"] = @ \ {t}]
    /\ owed' = owed \cup {t}
    /\ UNCHANGED <<entry, pel, job, rec, unlocking>>

-----------------------------------------------------------------------------
(* DequeueBatch: XREADGROUP, then the bodies, then the orphans, then the    *)
(* state of the others. An error or a crash anywhere leaves the entry in    *)
(* the PEL with nobody working on it (JobLost).                             *)

XReadGroup(e) ==
    /\ entry[e] # None
    /\ e \notin pel
    /\ pel' = pel \cup {e}
    /\ job' = [job EXCEPT ![e] = [phase |-> "read", task |-> entry[e], retried |-> 0]]
    /\ UNCHANGED <<body, state, entry, zset, lock, rec, unlocking, owed>>

\* The claim on task t once its body has been read.
Loaded(t) ==
    IF body[t] = NoBody
    THEN [phase |-> "orphan", task |-> t, retried |-> 0]
    ELSE [phase |-> "loaded", task |-> t, retried |-> body[t]]

LoadBody(e) ==
    /\ job[e].phase = "read"
    /\ job' = [job EXCEPT ![e] = Loaded(job[e].task)]
    /\ UNCHANGED <<redisVars, rec, unlocking, owed>>

TrimOrphan(e) ==
    /\ job[e].phase = "orphan"
    /\ AckDel(e)
    /\ job' = [job EXCEPT ![e] = NoJob]
    /\ UNCHANGED <<body, state, zset, lock, rec, unlocking, owed>>

MarkActive(e) ==
    /\ job[e].phase = "loaded"
    /\ SetState(job[e].task, "active")
    /\ job' = [job EXCEPT ![e] = [phase |-> "active", task |-> job[e].task,
                                  retried |-> job[e].retried]]
    /\ UNCHANGED <<body, entry, pel, zset, lock, rec, unlocking, owed>>

\* A claimed task that Shutdown overtakes before it is dispatched.
Requeue(e) ==
    LET t == job[e].task
    IN  /\ job[e].phase = "active"
        /\ pel' = pel \ {e}
        /\ IF state[t] = "absent"
           THEN /\ entry' = [entry EXCEPT ![e] = None]
                /\ UNCHANGED state
           ELSE /\ \E f \in EntryIds :
                      /\ Fresh(f)
                      /\ entry' = [entry EXCEPT ![e] = None, ![f] = t]
                /\ SetState(t, "pending")
        /\ job' = [job EXCEPT ![e] = NoJob]
        /\ UNCHANGED <<body, zset, lock, rec, unlocking, owed>>

-----------------------------------------------------------------------------
(* Server.process: the outcomes of a handler run.                           *)

ProcessSuccess(e) ==
    LET t == job[e].task
    IN  /\ job[e].phase = "active"
        /\ IF t \in Retained
           THEN MoveToZSet(e, t, job[e].retried, "completed")
           ELSE AckDelHash(e, t)
        /\ job' = [job EXCEPT ![e] = NoJob]
        /\ ReleaseLater(t)
        /\ owed' = owed \ {t}
        /\ UNCHANGED <<lock, rec>>

\* Mutant: the budget test is off by one.
ProcessRetryOverBudget(e) ==
    LET t == job[e].task
    IN  /\ job[e].phase = "active"
        /\ job[e].retried <= MaxRetry[t]
        /\ MoveToZSet(e, t, job[e].retried + 1, "retry")
        /\ job' = [job EXCEPT ![e] = NoJob]
        /\ UNCHANGED <<lock, rec, unlocking, owed>>

ProcessRetry(e) ==
    LET t == job[e].task
    IN  /\ job[e].phase = "active"
        /\ job[e].retried < MaxRetry[t]
        /\ MoveToZSet(e, t, job[e].retried + 1, "retry")
        /\ job' = [job EXCEPT ![e] = NoJob]
        /\ UNCHANGED <<lock, rec, unlocking, owed>>

\* The error is a SkipRetry, or the budget is spent.
ProcessDeadLetter(e) ==
    LET t == job[e].task
    IN  /\ job[e].phase = "active"
        /\ IF t \in NoArchive
           THEN AckDelHash(e, t)
           ELSE MoveToZSet(e, t, job[e].retried, "archived")
        /\ job' = [job EXCEPT ![e] = NoJob]
        /\ ReleaseLater(t)
        /\ owed' = owed \ {t}
        /\ UNCHANGED <<lock, rec>>

\* The server dies, or the closing Redis call fails: the entry stays unacked.
JobLost(e) ==
    /\ job[e].phase # "none"
    /\ job' = [job EXCEPT ![e] = NoJob]
    /\ UNCHANGED <<redisVars, rec, unlocking, owed>>

-----------------------------------------------------------------------------
(* Background loops.                                                        *)

\* Mutant: the member that was forwarded stays in its ZSET.
ForwardKeepsMember(z, t) ==
    /\ z \in {"retry", "scheduled"}
    /\ t \in zset[z]
    /\ \E e \in EntryIds : XAdd(e, t)
    /\ SetState(t, "pending")
    /\ UNCHANGED <<body, pel, zset, lock, job, rec, unlocking, owed>>

Forward(z, t) ==
    /\ z \in {"retry", "scheduled"}
    /\ t \in zset[z]
    /\ \E e \in EntryIds : XAdd(e, t)
    /\ SetState(t, "pending")
    /\ ZRem({z}, t)
    /\ UNCHANGED <<body, pel, lock, job, rec, unlocking, owed>>

\* Mutant: no heartbeat, so only the recoverer's own claim resets idle time.
LeaseHeldByRecoverer(e) == \E s \in Servers : rec[s].entry = e

\* Somebody alive is working on entry e, so its idle time is being reset.
LeaseHeld(e) ==
    \/ job[e].phase # "none"
    \/ \E s \in Servers : rec[s].entry = e

\* XAUTOCLAIM: the entry has been idle for RecoverMinIdle.
RecoverClaim(s, e) ==
    /\ rec[s].phase = "none"
    /\ e \in pel
    /\ LeasesLapse \/ ~LeaseHeld(e)
    /\ rec' = [rec EXCEPT ![s] = [phase |-> "claimed", entry |-> e,
                                  task |-> entry[e], retried |-> 0]]
    /\ UNCHANGED <<redisVars, job, unlocking, owed>>

RecoverLoad(s) ==
    /\ rec[s].phase = "claimed"
    /\ LET l == Loaded(rec[s].task)
       IN  rec' = [rec EXCEPT ![s] = [phase |-> l.phase, entry |-> rec[s].entry,
                                      task |-> l.task, retried |-> l.retried]]
    /\ UNCHANGED <<redisVars, job, unlocking, owed>>

RecoverTrim(s) ==
    /\ rec[s].phase = "orphan"
    /\ AckDel(rec[s].entry)
    /\ rec' = [rec EXCEPT ![s] = NoRec]
    /\ UNCHANGED <<body, state, zset, lock, job, unlocking, owed>>

\* Mutant: a reclaim costs no retry budget.
RecoverRetryFree(s) ==
    LET r == rec[s]
    IN  /\ r.phase = "loaded"
        /\ r.retried < MaxRetry[r.task]
        /\ MoveToZSet(r.entry, r.task, r.retried, "retry")
        /\ rec' = [rec EXCEPT ![s] = NoRec]
        /\ UNCHANGED <<lock, job, unlocking, owed>>

\* Mutant: a reclaimed task goes straight back to the stream, as in Requeue.
RecoverRetryRequeues(s) ==
    LET r == rec[s]
    IN  /\ r.phase = "loaded"
        /\ r.retried < MaxRetry[r.task]
        /\ pel' = pel \ {r.entry}
        /\ \E f \in EntryIds :
              /\ Fresh(f)
              /\ entry' = [entry EXCEPT ![r.entry] = None, ![f] = r.task]
        /\ SetState(r.task, "pending")
        /\ rec' = [rec EXCEPT ![s] = NoRec]
        /\ UNCHANGED <<body, zset, lock, job, unlocking, owed>>

RecoverRetry(s) ==
    LET r == rec[s]
    IN  /\ r.phase = "loaded"
        /\ r.retried < MaxRetry[r.task]
        /\ MoveToZSet(r.entry, r.task, r.retried + 1, "retry")
        /\ rec' = [rec EXCEPT ![s] = NoRec]
        /\ UNCHANGED <<lock, job, unlocking, owed>>

RecoverArchive(s) ==
    LET r == rec[s]
    IN  /\ r.phase = "loaded"
        /\ r.retried >= MaxRetry[r.task]
        /\ MoveToZSet(r.entry, r.task, r.retried, "archived")
        /\ rec' = [rec EXCEPT ![s] = NoRec]
        /\ ReleaseLater(r.task)
        /\ owed' = owed \ {r.task}
        /\ UNCHANGED <<lock, job>>

\* The recovering server dies, or the call fails: the next sweep starts over.
RecoverLost(s) ==
    /\ rec[s].phase # "none"
    /\ rec' = [rec EXCEPT ![s] = NoRec]
    /\ UNCHANGED <<redisVars, job, unlocking, owed>>

\* Mutant: the hash is deleted and its ZSET member is not.
TrimKeepsMember(z, t) ==
    /\ z \in {"archived", "completed"}
    /\ t \in zset[z]
    /\ DelHash(t)
    /\ UNCHANGED <<entry, pel, zset, lock, job, rec, unlocking, owed>>

\* TrimArchived and TrimCompleted, whichever pass selects t.
Trim(z, t) ==
    /\ z \in {"archived", "completed"}
    /\ t \in zset[z]
    /\ DelHash(t)
    /\ ZRem({z}, t)
    /\ UNCHANGED <<entry, pel, lock, job, rec, unlocking, owed>>

-----------------------------------------------------------------------------
(* Inspector, and the unique lock's own steps.                              *)

InSomeZSet(t) == \E z \in ZSets : t \in zset[z]

RunTask(t) ==
    /\ "RunTask" \in Operator
    /\ InSomeZSet(t)
    /\ ZRem(ZSets, t)
    /\ IF state[t] = "absent"
       THEN UNCHANGED <<entry, state, owed>>
       ELSE /\ \E e \in EntryIds : XAdd(e, t)
            /\ SetState(t, "pending")
            /\ owed' = IF body[t] = NoBody THEN owed ELSE owed \cup {t}
    /\ UNCHANGED <<body, pel, lock, job, rec, unlocking>>

\* The lock is released when GetTask, one call earlier, saw the body; a release
\* left out because it did not is one that ReleaseLost drops.
DeleteTask(t) ==
    /\ "DeleteTask" \in Operator
    /\ InSomeZSet(t) \/ state[t] # "absent"
    /\ ZRem(ZSets, t)
    /\ DelHash(t)
    /\ ReleaseLater(t)
    /\ owed' = owed \ {t}
    /\ UNCHANGED <<entry, pel, lock, job, rec>>

\* Mutant: the lock is deleted whoever holds it.
ReleaseUniqueAny(t) ==
    /\ t \in unlocking
    /\ lock' = [lock EXCEPT ![UniqueKey[t]] = None]
    /\ unlocking' = unlocking \ {t}
    /\ UNCHANGED <<body, state, entry, pel, zset, job, rec, owed>>

\* releaseUniqueCmd: delete the lock only while it names this task.
ReleaseUnique(t) ==
    LET k == UniqueKey[t]
    IN  /\ t \in unlocking
        /\ lock' = [lock EXCEPT ![k] = IF @ = t THEN None ELSE @]
        /\ unlocking' = unlocking \ {t}
        /\ UNCHANGED <<body, state, entry, pel, zset, job, rec, owed>>

ReleaseLost(t) ==
    /\ t \in unlocking
    /\ unlocking' = unlocking \ {t}
    /\ UNCHANGED <<redisVars, job, rec, owed>>

\* The task waits or runs: pending, active, scheduled or retrying.
InPipeline(t) ==
    \/ t \in zset["scheduled"] \cup zset["retry"]
    \/ InStream(t) /\ body[t] # NoBody

\* The lock's TTL runs out. WithUnique asks for a TTL above the waiting time,
\* and the heartbeat renews it during processing.
LockExpire(k) ==
    /\ lock[k] # None
    /\ LeasesLapse \/ ~InPipeline(lock[k])
    /\ lock' = [lock EXCEPT ![k] = None]
    /\ UNCHANGED <<body, state, entry, pel, zset, job, rec, unlocking, owed>>

-----------------------------------------------------------------------------
ClientStep(t) == Enqueue(t) \/ Schedule(t)

WorkerStep(e) ==
    \/ XReadGroup(e) \/ LoadBody(e) \/ TrimOrphan(e) \/ MarkActive(e)
    \/ Requeue(e)
    \/ ProcessSuccess(e) \/ ProcessRetry(e) \/ ProcessDeadLetter(e)
    \/ JobLost(e)

RecoverStep(s) ==
    \/ \E e \in EntryIds : RecoverClaim(s, e)
    \/ RecoverLoad(s) \/ RecoverTrim(s) \/ RecoverRetry(s) \/ RecoverArchive(s)
    \/ RecoverLost(s)

ForwarderStep(t) == \E z \in ZSets : Forward(z, t)

JanitorStep(t) == \E z \in ZSets : Trim(z, t)

InspectorStep(t) == RunTask(t) \/ DeleteTask(t)

LockStep == \/ \E t \in Tasks : ReleaseUnique(t) \/ ReleaseLost(t)
            \/ \E k \in Keys : LockExpire(k)

Next ==
    \/ \E t \in Tasks : ClientStep(t) \/ ForwarderStep(t) \/ JanitorStep(t) \/ InspectorStep(t)
    \/ \E e \in EntryIds : WorkerStep(e)
    \/ \E s \in Servers : RecoverStep(s)
    \/ LockStep

Spec == Init /\ [][Next]_vars

-----------------------------------------------------------------------------
(* Properties.                                                              *)

Budgeted(t, n) == t \in Tasks /\ n \in 0 .. MaxRetry[t]

\* Every variable keeps its type, and no stored or held copy of a message
\* ever counts more retries than its MaxRetry allows, whichever of the worker
\* and the recoverer did the counting.
TypeOK ==
    /\ body \in [Tasks -> Int]
    /\ \A t \in Tasks : body[t] = NoBody \/ Budgeted(t, body[t])
    /\ state \in [Tasks -> States \cup {"absent"}]
    /\ entry \in [EntryIds -> Tasks \cup {None}]
    /\ pel \subseteq EntryIds
    /\ zset \in [ZSets -> SUBSET Tasks]
    /\ lock \in [Keys -> Tasks \cup {None}]
    /\ job \in [EntryIds -> [phase : JobPhases, task : Tasks \cup {None}, retried : Nat]]
    /\ \A e \in EntryIds : job[e].phase # "none" => Budgeted(job[e].task, job[e].retried)
    /\ rec \in [Servers -> [phase : RecPhases, entry : EntryIds \cup {None},
                            task : Tasks \cup {None}, retried : Nat]]
    /\ \A s \in Servers : rec[s].phase # "none" => Budgeted(rec[s].task, rec[s].retried)
    /\ unlocking \subseteq Tasks
    /\ owed \subseteq Tasks

\* Entry e is about to be dropped as an orphan.
Orphaned(e) ==
    \/ job[e].phase = "orphan"
    \/ \E s \in Servers : rec[s].entry = e /\ rec[s].phase = "orphan"

\* Some loop will still find t: the forwarder in a ZSET, a worker or the
\* recoverer through an entry that is not being dropped.
Reachable(t) ==
    \/ t \in zset["scheduled"] \cup zset["retry"]
    \/ \E e \in EntryIds : entry[e] = t /\ ~Orphaned(e)

\* At-least-once (README.md:479): a task that was accepted, or re-run by the
\* operator, and has neither succeeded, been dead-lettered nor been deleted
\* still has its body and is still where a loop will find it - whatever was
\* interleaved, lost, reclaimed too early, trimmed or re-run meanwhile.
NoTaskLost == \A t \in owed : body[t] # NoBody /\ Reachable(t)

\* With leases held by their heartbeats a task is in one place: one stream
\* entry or one ZSET. RunTask, Forward, Retry and Requeue move it and never
\* copy it ("prevents a duplicate stream entry", internal/rdb/inspect.go:228),
\* crashes and lost calls included.
SinglePlace ==
    /\ \A e, f \in EntryIds : entry[e] = entry[f] /\ entry[e] # None => e = f
    /\ \A y, z \in ZSets : y # z => zset[y] \cap zset[z] = {}
    /\ \A t \in Tasks : ~(InStream(t) /\ InSomeZSet(t))

\* With leases held, no task is in the hands of two workers, or of a worker
\* and the recoverer, at once: the loops hand it over only through Redis.
OneHolder ==
    /\ \A e, f \in EntryIds : job[e].task = job[f].task /\ job[e].task # None => e = f
    /\ \A r, s \in Servers : rec[r].task = rec[s].task /\ rec[r].task # None => r = s
    /\ \A e \in EntryIds, s \in Servers : job[e].task = rec[s].task => rec[s].task = None

\* With leases held, the hash of a task that waits in a ZSET is complete and
\* its "state" field names that ZSET, which is what the Inspector and the
\* group-stage drain rely on ("the authoritative state", forward.go:17).
ZSetsAgree ==
    \A z \in ZSets : \A t \in zset[z] : state[t] = z /\ body[t] # NoBody

\* WithUnique (chronos.go:209): of the tasks that share a unique key at most
\* one is anywhere in the pipeline, because its lock outlives every hand-over
\* from stream to worker to ZSET and a late release frees only its own lock.
UniqueInPipeline ==
    \A t, u \in Tasks :
        (t # u /\ UniqueKey[t] # None /\ UniqueKey[t] = UniqueKey[u])
            => ~(InPipeline(t) /\ InPipeline(u))

-----------------------------------------------------------------------------
(* Refinement: with leases held by their heartbeats the queue implements    *)
(* TaskLifecycle.                                                           *)

\* The workers and recoverers that hold a loaded copy of t's message.
HeldByJob(t) == {e \in EntryIds : job[e].task = t /\ job[e].phase \in {"loaded", "active"}}
HeldByRec(t) == {s \in Servers : rec[s].task = t /\ rec[s].phase = "loaded"}

Stage(t) ==
    IF HeldByJob(t) # {} \/ HeldByRec(t) # {} THEN "held"
    ELSE IF InSomeZSet(t) THEN CHOOSE z \in ZSets : t \in zset[z]
    ELSE IF InStream(t) /\ body[t] # NoBody THEN "pending"
    ELSE "absent"

Spent(t) ==
    IF HeldByJob(t) # {} THEN job[CHOOSE e \in EntryIds : e \in HeldByJob(t)].retried
    ELSE IF HeldByRec(t) # {} THEN rec[CHOOSE s \in Servers : s \in HeldByRec(t)].retried
    ELSE IF Stage(t) = "absent" THEN 0
    ELSE body[t]

Lifecycle == INSTANCE TaskLifecycle WITH
    stage <- [t \in Tasks |-> Stage(t)],
    spent <- [t \in Tasks |-> Spent(t)]

\* The life cycle of a task (internal/base/task.go:8): with leases held, what
\* the scripts, loops, crashes, lost calls and operator calls do to a task
\* together never takes it off the edges of its life cycle, and it spends a
\* retry exactly when a run or a reclaim of it ends in the retry ZSET.
FollowsLifecycle == Lifecycle!Spec

-----------------------------------------------------------------------------
(* Liveness. A started server keeps polling, forwarding and sweeping, and a *)
(* handler returns: each step that stays possible is taken. Shutdowns and   *)
(* failed calls may undo a claim any number of times but not for ever,      *)
(* hence strong fairness for the outcome of a run and for the recoverer.    *)

Outcome(e) == ProcessSuccess(e) \/ ProcessRetry(e) \/ ProcessDeadLetter(e)
RecoverOutcome(s) == RecoverTrim(s) \/ RecoverRetry(s) \/ RecoverArchive(s)

Fairness ==
    /\ \A e \in EntryIds :
          /\ WF_vars(XReadGroup(e))
          /\ WF_vars(LoadBody(e))
          /\ WF_vars(TrimOrphan(e))
          /\ WF_vars(MarkActive(e))
          /\ SF_vars(\E s \in Servers : RecoverClaim(s, e))
    /\ \A t \in Tasks :
          /\ SF_vars(\E e \in EntryIds : job[e].task = t /\ Outcome(e))
          /\ SF_vars(\E s \in Servers : rec[s].task = t /\ RecoverLoad(s))
          /\ SF_vars(\E s \in Servers : rec[s].task = t /\ RecoverOutcome(s))
          /\ WF_vars(Forward("retry", t))
          /\ WF_vars(Forward("scheduled", t))

FairSpec == Spec /\ Fairness

\* Every accepted task gets an outcome: it succeeds, is dead-lettered or is
\* deleted, however often workers die on it, because a reclaim spends retry
\* budget and the budget ends in the archive.
EventuallySettled == \A t \in Tasks : t \in owed ~> t \notin owed

=============================================================================
