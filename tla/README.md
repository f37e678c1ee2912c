# A TLA+ verification of chronos-go

chronos-go is a task queue and scheduler on Redis. Any number of server
processes share the queues, any number of scheduler processes share the
periodic schedules, and Redis holds all the state. This directory holds TLA+
models of its concurrent parts, TLC configurations that check them on small
instances, and TLAPS proofs, for every instance, of the at-least-once guarantee,
of the unique lock, of the life cycle of a task and of the fetch loop's slot
accounting.

Everything is translated from the Go code and the Lua scripts. `PROJECT.json`
names, for each definition, the lines it stands for. Paths below are relative
to `src/`.

## The system

| part | state | operations | what makes it hard |
|---|---|---|---|
| task queue on Redis (`internal/rdb`) | task HASH (`msg`, `state`), stream with a consumer group and its PEL, four ZSETs, unique locks | enqueue, schedule, dequeue, done, retry, archive, requeue, forward, recover, trim | every script is atomic, everything between two is not; an entry can be in the hands of two processes |
| server (`server.go`) | semaphore, in-flight map, cached pause set | fetch loop, `process`, forwarder, recoverer, heartbeater, janitor, `Shutdown` | crash anywhere, failed calls, leases that lapse, shutdown racing a batch |
| queue selection (`wrr.go`) | running scores | `pick` | proportional and free of starvation for any weights, with paused queues |
| client (`chronos.go`, `chain.go`, `group.go`) | none of its own | enqueue paths, chains, groups | a group is dispatched by several calls and may fail half-way |
| workflow hand-over (`server.go`, `internal/rdb/chain.go`, `internal/rdb/group.go`) | pending SET, result HASH | successor, stage creation, drain, report, callback | the hand-over and the ack are separate calls, so each is repeated |
| leader election (`scheduler.go`, `internal/rdb/leader.go`) | one key with a TTL | acquire, renew, resign, notify | in-flight renewals, crashes, lost pub/sub messages |
| periodic firing (`scheduler.go`, `schedule.go`, `internal/rdb/periodic.go`) | `lastFired`, dedup keys | `fireDue`, `computeFires` | crash or hand-over between the calls, gaps |
| schedule registry (`internal/rdb/registry.go`) | HASH of schedules | register, touch, prune | prune reads and deletes in two calls |
| inspector (`inspector.go`, `internal/rdb/inspect.go`, `internal/rdb/pause.go`) | none of its own | RunTask, DeleteTask, pause, resume, listings | races with every loop |
| the rest: handlers, retry delay, codec, keys, metrics, CLI, web UI, examples, benchmarks | | | sequential or presentation |

A client writes a task to the stream or to the scheduled ZSET. A server's
fetch loop claims it (PEL), loads its body, runs the handler and settles it:
deleted or completed, retry ZSET, archived ZSET, or discarded. Forwarders move
due ZSET members to the stream. Recoverers reclaim entries whose lease lapsed
and charge a retry. Janitors trim finished tasks. Before it is acked, a task of
a workflow creates its successor or reports to its group. The scheduler that
leads enqueues a periodic task once per trigger.

## Modules

| module | models | extends |
|---|---|---|
| `TaskQueue` | the life of the tasks of one queue | |
| `TaskLifecycle` | what a queue promises of each task; `TaskQueue` implements it | |
| `TaskQueueProofs` | types and the facts that hold whatever lapses | `TaskQueue` |
| `DeliveryProofs` | at least once | `TaskQueueProofs` |
| `LeasedProofs`, `UniqueProofs` | one place, one holder; one unique task | `TaskQueueProofs`; `LeasedProofs` |
| `PlaceProofs`, `OutcomeProofs`, `LifecycleProofs` | the refinement of `TaskLifecycle`, action by action | `UniqueProofs` and each other, in this order |
| `Leases` | heartbeat, recover sweeps, lock TTLs and shutdown, with clocks | |
| `FetchLoop` | one server's fetch loop, queue selection, pause | |
| `FetchLoopProofs` | theorems about it | `FetchLoop` |
| `Workflow` | chains, groups and parallel stages | |
| `LeaderElection` | the leader key and the instances | |
| `ComputeFires` | the misfire computation, as operators | |
| `Misfire` | it against a definition without a loop | `ComputeFires` |
| `PeriodicFire` | `fireDue` composed with the election | `LeaderElection`, `ComputeFires` |
| `Registry` | the schedule registry shared by several versions | |
| `MC...` | values of the constants for TLC | |

### TaskQueue

State: `body` and `state` are the two fields of each task hash (of the message
only `Retried` matters), `entry` and `pel` the stream and its consumer group,
`zset` the four ZSETs, `lock` the unique locks. `job[e]` is what the worker that
was delivered entry `e` is doing, `rec[s]` what server `s`'s recoverer has in
hand, `unlocking` the tasks whose `releaseUnique` is still to come. `owed` is
history: tasks that were accepted (or re-run) and have no outcome yet.

| action | code |
|---|---|
| `Enqueue`, `Schedule` | `enqueueCmd`, `scheduleCmd`, with or without the unique lock |
| `XReadGroup`, `LoadBody`, `TrimOrphan`, `MarkActive` | the calls of `DequeueBatch` |
| `Requeue` | `requeueCmd` |
| `ProcessSuccess`, `ProcessRetry`, `ProcessDeadLetter` | the outcomes of `process` |
| `JobLost` | a crash, a failed call or an expired shutdown at any point |
| `Forward` | `forwardCmd` for the retry and scheduled ZSETs |
| `RecoverClaim`, `RecoverLoad`, `RecoverTrim`, `RecoverRetry`, `RecoverArchive`, `RecoverLost` | `Recover`, call by call |
| `Trim` | the two trim scripts |
| `RunTask`, `DeleteTask` | the operator's calls |
| `ReleaseUnique`, `ReleaseLost`, `LockExpire` | the end of a unique lock |

A Redis command, script or MULTI block is one step. Scripts that treat a batch
do it here one task per step, which allows more interleavings than the code.
Time is left open: a ZSET member may be due at any moment. With `LeasesLapse`
a lease may lapse under a live worker; without it the heartbeat keeps every
lease of a live worker, from the claim on, and a lock does not expire under a
task that waits. Task IDs are reused only once nothing of the earlier task is
on its way (`Quiescent`), which is so for generated IDs and an assumption on
users of `WithTaskID`. `Requeue` is allowed after any load, although the
fetch loop never reaches it (`BatchesFit`, below). `DeleteTask`, a read and a MULTI block, is
one step. Repeated sends inside the Redis client are left out, as is the order
in which the stream delivers. Corrupt bodies are in `Leases`.

### TaskLifecycle

The abstract specification: each task has a `stage` (absent, pending, held,
scheduled, retry, archived, completed) and a number of `spent` retries, and
moves along the edges of `TaskState` (`internal/base/task.go:8`). There are no
entries, claims, loops, crashes or lost calls. `TaskQueue` maps to it with
`Stage` and `Spent`: a task is held while a worker or a recoverer has a loaded
copy of its message, and then `spent` is read off that copy; otherwise its place
is the ZSET or the stream and `spent` is what its hash says. An entry whose hash
is gone is no task. A crash before an outcome maps to `GiveBack`, an entry
claimed and not loaded to nothing at all.

Two edges are there because the code takes them: `Die` archives a task with
`WithDeadLetterDiscard` as well (see below), and `Delete` removes a task in any
stage.

### Leases

`TaskQueue` assumes either that leases may lapse at any moment or that they do
not. `Leases` says when they do. Time is counted in ticks. `idle` is the idle
time of each PEL entry, `lock` what is left of each task's unique lock, `beatIn`
and `sweepIn` the two tickers of each server. `inflight` is `Server.inflight`,
keyed by task as in the code; `run[e]` is the goroutine that was given entry `e`.
`order` is the PEL in stream order, since every sweep starts at its head (the
cursor of XAUTOCLAIM is dropped), looks at ten times `RecoverBatch` entries at
most (`ScanLimit`, which XAUTOCLAIM imposes) and takes `RecoverBatch`.

| action | code |
|---|---|
| `Deliver`, `Track`, `Finish` | `DequeueBatch`, `trackInflight`, `process` with `untrackInflight` |
| `Beat` | `beat`: `ExtendLease`, then `RenewUnique`; either may fail |
| `SweepClaim`, `SweepEntry` | XAUTOCLAIM, and `Recover`'s treatment of one claimed entry |
| `Start`, `Shutdown`, `Exit` | the loops start; they end at once while handlers run on; the process ends |
| `Tick` | time |

A tick is long against a Redis call: what a server has to do by its clocks is
done before the next tick. A handler runs for as long as it likes. Calls fail
at most `MaxFaults` times. `Steady` servers are never stopped. The message of a
`Corrupt` task does not decode. A client submits a task again only when nothing
of it is left.

### FetchLoop

`pc` follows `fetchLoop` for one server. `sem` and `running` are the slots taken
and the workers, `order`, `at` and `batch` the round in progress, `hand` the
tasks read and not dispatched, `cache` and `fresh` the copy of the paused set.
`current` is the picker's state and `picks` the history of the cycle. A queue is
its rank among the sorted names. A stream is the number of its undelivered
entries. The context is tested where the code tests it, and a Redis command
begun after cancellation fails without effect, which is how the client library
behaves; the blocking read in flight is not interrupted.

The wait for a slot in the middle of a batch and the `Requeue` behind it
(`server.go:435-455`) have no action: `DispatchNeverWaits` shows that they are
not reached, because only the loop itself takes slots.

### Workflow

One workflow with at most one group. The constants give its shape: who follows
whom (`NextLink`), which task is followed by the stage (`StageTask`), which slot
a task reports to (`SlotOf`) and the callback. `hash`, `tail`, `waiting` and
`claimed` are the queue, coarser than in `TaskQueue`; `tail` says whether the
stored message still has its `Chain`. `run[w]` is a worker's position in
`process`, `pending` and `results` are the group's SET and HASH, `fired` is the
history of the callback's creations. A report sets the TTL of both keys,
`createGroupIfAbsentCmd` on a stage in flight that of the SET alone; `lagging`
says that this was the last to happen. `GroupExpire` ends both keys,
`ResultsExpire` a lagging HASH alone. Either happens only when nothing of the
workflow waits or runs, and once at most (`expired`).

Each call of the hand-over is an action: `EnqueueNext`, `CreateGroupIfAbsent`,
`GroupMembers`, `EnqueueMember`, `Drain`, `Redo`, `Report`, `Done`. `LinkRetry`,
`StageRetry` and `ReportRetry` are the calls that are repeated after an error,
which may have had its effect, and `RunLost` is a crash or the end of the
repetitions. Abstractions: several entries of one task count
as one and a task is delivered again only when it is not claimed; a finished
task's ZSET is read off its state; attempts are not counted
(three in the code); members are enqueued in any order; every task has a result;
the drain reads state and message in one step. Discarded dead letters, delays,
`registerQueue` and `DeleteTask` are left out.

### LeaderElection, PeriodicFire, Misfire

An instance is a process with a run goroutine (`pc`) and a `Shutdown` (`status`).
`leader` and `ttl` are the key, `isLeader` the instance's belief, `due` its renew
ticker, `notified` the unread resign messages, `lost` the history of failed
calls. A renewal is three steps: the context test, the script, the reply.
`Tick` is one unit of time for everyone. Without `Stalls` it waits until every
instance has served its timers and has no call open.

`PeriodicFire` adds one schedule: `lastFired`, the dedup keys with their TTL, and
`fire[i]`, the position in `fireDue` (read, baseline, enqueue, store). `faults`
counts failed calls and ticks with no instance running, up to `MaxFaults`.
`headless` counts the ticks since an instance last led. The
clocks of the instances agree.

`computeFires` keeps the code's bounded scan; `Misfire` runs it over every
schedule within a horizon and every pattern of ticks up to `MaxGap` seconds
apart, for both policies. Time is in whole seconds, so a gap of two stands both
for an absence and for a tick that comes a few milliseconds late and finds two
second boundaries crossed. The calls of `fireDue` succeed there; the ones that
fail are in `PeriodicFire`. The empty schedule is a cron spec that no date
satisfies, such as 30 February: robfig/cron's `Next` then returns the zero time.

### Registry

`age` is the registry HASH: for each schedule the age of its `last_seen`, in
ticks of the renew period, cut off once it is stale. `lastFired` is the set of
schedules with such a key. `pc[i]` follows an instance through `Start`
(`RegisterSchedules`, then the prune) and the renew branch of `run` (touch, then
the prune); `seen[i]` is what its `TouchSchedules` has read and not yet written
back, `doomed[i]` what its `PruneSchedules` has found stale and not yet deleted.
Each Redis call is a step, any call may fail (`faults`), and `Stop` is a shutdown
or a crash between two calls. `Tick` waits until every instance has served its
ticker. `raced` is the history of the schedules that were registered or touched
while some prune had them in hand. The election and the firing are those of
`PeriodicFire`; here `Fire` stores the key of any schedule of a running instance.
Entries of a foreign shape, which both touch and prune skip, are left out.

## Runs

| run | instance | shows | distinct states |
|---|---|---|---|
| `queue_lapse` | 1 task, 2 entries, 2 servers, leases lapse, operator | `TypeOK`, `NoTaskLost` | 78,732 |
| `queue_live` | 2 tasks with one unique key, 3 entries, 2 servers, 2 retries, leases held, fairness | `SinglePlace`, `OneHolder`, `ZSetsAgree`, `UniqueInPipeline`, `FollowsLifecycle`, `EventuallySettled` | 2,490 |
| `leases_clocks` | 2 servers (one steady), 2 tasks (one corrupt), 2 entries, window 2, batch 1, one failed call | `LeaseKept`, `LockOutlivesLease`, `RecoveredInTime` | 779,147 |
| `fetch_rounds` | 2 queues, 2 workers, weights 1:2 and 1:1, failing calls, fairness | `TypeOK`, `SlotsAccounted`, `DispatchNeverWaits`, `PicksProportional`, `NoStarvation`, `PauseTakesHold` | 97,920 |
| `workflow_stage` | task, stage of two, callback, task; 2 workers, operator, the SET or the HASH expires | `TypeOK`, `ResultsComplete`, `NoSlotStranded`, `NoWorkflowLost` | 1,589,267 |
| `workflow_group` | group of two and callback; 2 workers, leases lapse, the SET expires | `CallbackOnce`, `CallbackNotEarly`, `NoSlotStranded` | 219,125 |
| `leader_terms` | 2 instances, TTL 5, failing calls, fairness | `TypeOK`, `SoleLeader`, `TermKept`, `Failover` | 65,567 |
| `misfire_policies` | horizon 8, gaps up to 6, scan cap 2, both policies | `CatchUpBounded`, `SkippedForGood`, `TickMatchesReference` | 51,555 |
| `periodic_once` | 2 instances, two triggers, 8 ticks, one fault, dedup TTL of 6 | `AtMostOnce`, `HandoverInTime`, `NoTriggerLost` | 602,764 |
| `registry_rollout` | 3 instances of two versions, 3 schedules, stale after 3 renew periods, 2 failed calls, fairness | `TypeOK`, `LiveEntriesFresh`, `LastFiredKept`, `StaleLeave` | 177,979 |
| `leases_untracked` | 2 servers, 1 task, window 3, two failed calls | `LongRunsKept` is violated | |
| `workflow_early` | group with a chain member | `CallbackNotEarly` is violated | |

Bounds. `EntryIds` bounds the entries alive at once, and two per task are the
most a lapsed lease makes. One task suffices for `NoTaskLost`, since tasks
interact only through unique locks and reused IDs; the proof removes the bound.
A budget of two separates the first, a middle and the last attempt. Two queues, two
slots and batches of two give a batch larger than one beside a busy worker. A
group of two has a first and a last report. A leader TTL of 5 gives a renew
interval of 2, so that a renewal is neither at the start nor at the end of the
term. In `periodic_once` the dedup TTL is three leader TTLs (ten in the code),
scaled to what one crash, one hand-over and one fault need: no key runs out
while its trigger could still be fired again. In `misfire_policies` one tick can
pass over three triggers (100,001 in the code) and an absence has up to six, so
that a scan is resumed, with one trigger left over or with several. `MaxFired` = 2 is
one more than allowed. In `registry_rollout` an entry is stale after three renew
periods, as in the code with the longest interval (20 s against one minute). The
two failed calls are all that leaves room for: with three, `LiveEntriesFresh` is
violated. The instances are a version, its successor and the rollback.

`leases_clocks` has a window of two ticks and a heartbeat of one, so that a
single failed call decides, and a lock TTL below the window, so that only the
renewal keeps the lock. Batches of one entry put the corrupt entry ahead of the
other at every sweep. `leases_untracked` has the ratio of the defaults, three
beats in a window.
The properties of `leases_clocks` also hold there without the corrupt task.
`SinglePlace`, `OneHolder` and `FollowsLifecycle` are checked
without operator calls, which `UniqueInPipeline` and `EventuallySettled` do not
allow; the theorems cover them with operator calls.

`CHECK_DEADLOCK FALSE` stands where the system may stop: all instances have shut
down, the workflow has ended, the horizon is reached.

Fairness. `queue_live`: a started server keeps polling, forwarding and sweeping,
handlers return, and a crash or failed call undoes a claim any number of times
but not for ever (strong fairness for outcomes and for the recoverer).
`fetch_rounds`: the goroutines run, handlers end, time passes, and a read or
lookup repeated for ever is answered some time. `leader_terms`: tickers tick,
and renewals repeated for ever are answered some time. `registry_rollout`: the
run goroutines run and time passes. These are what the loops
in the code give as long as Redis is reachable again and again.

What the runs do not show. `AtMostOnce` and `Failover` hold without stalls:
with a paused leader duplicates are documented (`README.md:482`). `SoleLeader`
excepts an instance whose own last call failed, since `tryElect` then keeps its
belief. With stalls `lastFired` may also move back: a former leader overwrites
a newer value with its own. `RecoveredInTime` holds while the entries that do not
decode are fewer than the sweeps of one window can take and the PEL is no longer
than one sweep looks at (`SweepsSuffice`); the instance has two entries and does
not reach that limit. `NoSlotStranded` ends with the first callback or the expiry
of the SET, `NoWorkflowLost` with the latter, and `ResultsComplete` with an expiry
of the HASH alone. The properties of `misfire_policies` are about schedules that
some date satisfies, and `SkippedForGood` about two triggers or more.
`HandoverInTime` allows a renew interval more than the "~LeaderTTL" of
`scheduler.go:30`, and `PauseTakesHold` says that a pause takes hold, not within
how many seconds (`README.md:489`).

## Disagreements between the code and its documentation

Two have a run of their own.

- `leases_untracked`: `Server.inflight` is keyed by the task ID, and
  `untrackInflight` (`server.go:740`) deletes the key whatever entry it names.
  When a task was reclaimed from a live handler and delivered to the same server
  again, the end of the first run hides the second from the heartbeat, and it is
  reclaimed while it runs, against `README.md:44`.
- `workflow_early`: `process` drops a link's `Chain` before it is stored with
  retention (`server.go:504`). When such an inner link of a member chain runs
  again, it reports the slot as if it were the last, and the callback fires
  early, against `README.md:224`.

Others were met while modelling. Each of these appears with a formula and an
instance other than those of the runs above:

- the recoverer archives a task with `WithDeadLetterDiscard`
  (`internal/rdb/recover.go:71`), where `internal/base/task.go:82` says it is
  discarded (`TaskQueue`: `zset["archived"] \cap NoArchive = {}`);
- a failed read of `lastFired` is taken for a schedule never seen, and a due
  trigger is skipped for good, contrary to `scheduler.go:311` (`NoTriggerLost`
  with `FireErrors = {"read"}`);
- an instance that registers a schedule after another's prune has read it as
  stale and before it deletes it loses the entry, and its touches skip what is
  missing until it restarts, contrary to `internal/rdb/registry.go:78`; if it
  registers before the `lastFired` key is deleted, it loses that key
  (`LiveEntriesFresh` and `LastFiredKept` with `raced` left out of `Kept`);
- a renewal in flight across `Shutdown`'s resign takes the key again, contrary
  to `scheduler.go:257` (`LeaderElection`: `status[i] = "resigned" => leader # i`);
- a re-run unique task is in the pipeline without its lock, contrary to
  `chronos.go:209` (`UniqueInPipeline` with `Operator = {"RunTask"}`); deleting
  a task that has been delivered and is not yet active frees its lock while it
  runs (`Operator = {"DeleteTask"}`);
- the forwarder re-creates the hash of a task that a slow worker has settled,
  and nothing deletes it (`TaskQueue` with `LeasesLapse`: every hash is named by
  an entry, a ZSET or a worker), contrary to `README.md:47`;
- an absence with more missed triggers than `maxScan` is answered by several
  catch-up triggers, contrary to `schedule.go:12` (`Misfire`: `fireOnce /\ missed
  # {} => Cardinality(fired \cap missed) = 1`), and under Skip the one trigger
  that the capped scan leaves over is fired;
- `MisfireSkip` "discards missed triggers" (`schedule.go:10`) and does not catch
  up (`docs/superpowers/specs/2026-07-05-multi-cluster-scheduler-design.md:275`
  and `:324`), but a trigger that is the only one missed in an absence, however
  long ago, is an ordinary tick to `computeFires` (`schedule.go:27`) and is fired
  (`Misfire`: `~fireOnce => fired \cap missed = {}`);
- conversely, two triggers between two ticks of a leader that was never away are
  a gap to `computeFires`, and Skip fires neither; the repository lists this as a
  defect (S2 of `docs/research/2026-11-05-scheduler-known-issues.md`). It is the
  step `FireDue(2)` from a state with no trigger elapsed, and what
  `TickMatchesReference` and `SkippedForGood` say of it is what the code does;
- a cron spec that no date satisfies is due at every tick, since its `Next` is the
  zero time and not "the first activation time after t" (`schedule.go:18`): the
  zero time is enqueued as a trigger and becomes `lastFired` (`Misfire`: `fired
  \subseteq sched`, violated by the empty schedule), again and again as its dedup
  key expires;
- a crash between the enqueue and `SetLastFired`, followed by an outage longer
  than the dedup TTL, enqueues a trigger twice, contrary to `scheduler.go:326`
  (`AtMostOnce` with `MaxFaults` of at least the dedup TTL);
- a stage whose SET expired is created again while a member, which has already
  reported in vain, is about to be acked; its slot is stranded, contrary to
  `server.go:694` (`NoSlotStranded` in `workflow_stage` without its
  condition on `expired`);
- when the task before a stage runs again while the stage is in flight,
  `createGroupIfAbsentCmd` sets the TTL of the SET again and not that of the result
  HASH (`internal/rdb/group.go:136`), which then expires first; the callback lacks
  the results recorded so far, contrary to `README.md:232` and to the purpose
  stated at `internal/rdb/group.go:23` (`ResultsComplete` without its condition on
  `expired`);
- after the callback came and went, a stage created again may wait for a member
  that was trimmed before the drain read it, contrary to `server.go:714`
  (`NoSlotStranded` without its condition on `fired`);
- as many entries that do not decode as a batch holds, all due at every sweep,
  keep the recoverer from ever reaching the others, contrary to
  `internal/rdb/recover.go:40` (`RecoveredInTime` without `SweepsSuffice`).

Read off the code, without a run: an entry that does not decode is never
archived, contrary to `internal/rdb/rdb.go:215`, since `Recover` skips it as
well; and a sweep that skipped an entry reports neither its dead letters to
`OnDeadLetter` nor its counts to the metrics (`server.go:888`). A PEL whose first
ten batches are all fresh hides lapsed entries behind them from every sweep, since
`Recover` starts at its head each time (`internal/rdb/recover.go:33`). And a
trigger whose enqueue failed is retried by the next tick (`scheduler.go:286`) only
if no further trigger has elapsed by then; otherwise Skip discards both.

## Proofs

Five theorems about `TaskQueue` hold for every set of tasks, entries, servers
and keys, every retry budget and every assignment of options. The assumptions
are the named ones of `TaskQueue`: `None` is no task, entry or key, and the
options are functions and sets over the tasks.

| theorem | states | under | inductive invariant |
|---|---|---|---|
| `TypeCorrect` | `Spec => []TypeOK` | | `TInv` |
| `AtLeastOnce` | `Spec => []NoTaskLost` | | `IInv` |
| `MovedNotCopied` | `Spec => [](SinglePlace /\ OneHolder /\ ZSetsAgree)` | `~LeasesLapse` | `PInv` |
| `UniqueKept` | `Spec => []UniqueInPipeline` | `~LeasesLapse`, no operator calls | `LInv /\ LockOK` |
| `Implements` | `Spec => FollowsLifecycle` | `~LeasesLapse` | `LInv` |

`~LeasesLapse` is what `Leases` examines: it holds as long as fewer lease calls
fail in a row than a window has beats, no handler outlives a shutdown by the
rest of its window, and no second run of a task is hidden as in
`leases_untracked`.

*At least once.* `NoTaskLost` is not inductive. `IInv` adds four facts. The PEL
names live entries only (`PelLive`), since the recoverer reads the task of what
it claims. A hash with a body has a state (`HashOK`), since `requeueCmd` tests
EXISTS. A claim's entry is gone or still the claimed task's (`Consistent`), so
that an ack by a stale worker removes only entries of its own task. And a task
that is owed an outcome is in neither ZSET the janitor trims (`OwedSafe`), since
every script that gives a task a new life takes it out of them.

*One place.* `PInv` joins `SinglePlace` and `ZSetsAgree` with `ClaimsHold`: while a
worker or a recoverer has a claim, the entry is still in the stream and the PEL
under that task, and nobody else claims it. `OneHolder` follows: a task in two
hands would have two entries, which `SinglePlace` excludes.

*Unique.* `LInv` adds `CopiesAgree`: a loaded copy and the hash agree on the
retries spent unless the task was deleted meanwhile. `LockOK` says that a unique
task in the pipeline holds its lock; a release frees only the lock of its own
task, and only once that task has left the pipeline.

*Refinement.* `Stage` and `Spent` are defined with CHOOSE, which is awkward in a
proof. `Place(t, stage, n)` says the same as a relation; under `LInv` it
determines both (`PlaceMaps`). Each action then has a lemma that follows one
task from its old place to its new one, while the others stay where they are,
and names the edge of `TaskLifecycle` it takes. `StepRefines` collects them.

`FetchLoopProofs` proves, for every number of queues, workers and entries, every
configuration and both modes, under `FetchAssumption`:

- `SlotsSound`: `Spec => []SlotsAccounted`;
- `BatchesFit`: `Spec => []DispatchNeverWaits`.

The inductive invariant `SInv` follows the batch through its round (`Fits`): it
is sized to the held slot and the free ones, no read returns more, and until it
is dispatched workers only free slots.

Only model-checked: everything else, in particular all liveness (outside the
prover's reach, like ENABLED), `computeFires` for unbounded schedules, which
needs induction over data, and the safety of `Workflow`, `Leases`,
`LeaderElection`, `PeriodicFire` and `Registry`.

## Not modelled

- Handler registration and dispatch, argument encoding, `DefaultRetryDelay`
  (a random delay below a cap), option parsing and the validation in the chain
  and group builders: sequential code that rejects or fills in a message before
  anything is shared. What the options decide later is in `TaskQueue` and
  `Workflow` as constants.
- Key construction and namespaces: string building. The models take the keys of
  different queues, tasks and locks as distinct.
- The Inspector's listings (`QueueStats`, `ListTasks`, `GetTask`,
  `SchedulerStatus`): several reads without a snapshot, and the code promises
  none. The index of queue names serves only them.
- The hooks `Metrics` and `OnDeadLetter`, and the ages and size caps that decide
  which finished tasks the janitor takes: `Trim` may take any.
- The command line, the web UI, the Prometheus collector, examples, benchmarks
  and test helpers: presentation over the public API.
- Redis Cluster's partial failures and the Redis client's own retries are taken
  as failed calls, and the clocks of the processes agree.
