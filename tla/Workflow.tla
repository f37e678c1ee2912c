------------------------------ MODULE Workflow ------------------------------
(***************************************************************************)
(* Chains and groups: how a finished task hands over to its successor, to  *)
(* a parallel stage or to its group's callback, call by call, while        *)
(* workers crash, calls fail, leases lapse and tasks are re-run.           *)
(*                                                                         *)
(* One workflow with at most one group is modelled: a chain with a         *)
(* parallel stage (StageTask # None) or a standalone group whose members   *)
(* are tasks or chains (StageTask = None). The constants say which task    *)
(* follows which.                                                          *)
(*                                                                         *)
(* TaskQueue has the queue in detail. Here a task waits (stream, retry or  *)
(* scheduled ZSET) or is claimed (PEL), retry budgets are left open, and   *)
(* the ZSET of a finished task is read off its state field.                *)
(***************************************************************************)
EXTENDS Integers, Sequences, FiniteSets

CONSTANTS
    Tasks,          \* the tasks of the workflow
    Slots,          \* the members of the group, as the pending SET names them
    None,           \* no task, no slot
    First,          \* the tasks the client dispatches itself
    NextLink,       \* the single task that follows a task in its chain
    StageTask,      \* the task followed by the parallel stage, or None
    SlotOf,         \* TaskMessage.GroupMemberID, carried along a member chain
    Callback,       \* the group's callback task
    Retained,       \* tasks with WithRetention
    Workers,        \* goroutines that process tasks
    LeasesLapse,    \* TRUE: a task may be reclaimed from a live worker
    Operator,       \* TRUE: RunTask is called on finished tasks
    Janitor,        \* the finished states whose retention may run out
    Expires         \* TRUE: GroupTTL may run out on a workflow that has stopped

ASSUME ShapeAssumption ==
    /\ None \notin Tasks \cup Slots
    /\ First \subseteq Tasks /\ Retained \subseteq Tasks
    /\ NextLink \in [Tasks -> Tasks \cup {None}]
    /\ StageTask \in Tasks \cup {None} /\ Callback \in Tasks
    /\ SlotOf \in [Tasks -> Slots \cup {None}]
    /\ {LeasesLapse, Operator, Expires} \subseteq BOOLEAN
    /\ Janitor \subseteq {"archived", "completed"}

\* The message of t as first created: it carries the links after t.
HasTail(t) == NextLink[t] # None \/ t = StageTask

\* A member is a task or a chain: its links carry its slot, in order, and one
\* of them is the last.
ASSUME MemberAssumption ==
    /\ \A t \in Tasks : SlotOf[t] # None /\ NextLink[t] # None => SlotOf[NextLink[t]] = SlotOf[t]
    /\ \A s \in Slots : \E t \in Tasks :
          \A u \in Tasks : (SlotOf[u] = s /\ ~HasTail(u)) <=> u = t
    /\ \E pos \in [Tasks -> 1 .. Cardinality(Tasks)] :
          \A t \in Tasks : NextLink[t] # None => pos[t] < pos[NextLink[t]]

VARIABLES
    hash,       \* the task hash: absent, live, archived or completed
    tail,       \* the stored message has a non-empty Chain
    waiting,    \* tasks some loop will deliver
    claimed,    \* tasks with an entry in the PEL
    moving,     \* the Chain of the message a recoverer has loaded, or None
    run,        \* what each worker is doing
    pending,    \* the group's pending-member SET
    results,    \* the group's result HASH: whose result is in each slot
    lagging,    \* the SET's TTL was set again later than the HASH's
    client,     \* the client: what it has still to dispatch
    succeeded,  \* history: tasks whose handler succeeded
    fired,      \* history: the results each creation of the callback carried
    expired     \* history: the key of the group that GroupTTL has run out on

queueVars == <<hash, tail, waiting, claimed, moving>>
groupVars == <<pending, results, lagging, fired>>
vars == <<queueVars, run, groupVars, client, succeeded, expired>>

MaxFired == 2       \* bounds the creations of the callback that are counted

Hashes == {"absent", "live", "archived", "completed"}
Phases == {"idle", "handler", "link", "create", "members", "enqueue", "drain",
           "redo", "report", "ack"}

\* A run of task t with the loaded Chain c; stale once t was reclaimed from it;
\* todo and slot are the stage members still to enqueue and the one in hand.
Run(phase, t, c, stale, todo, slot) ==
    [phase |-> phase, task |-> t, tail |-> c, stale |-> stale, todo |-> todo, slot |-> slot]

Idle == Run("idle", None, FALSE, FALSE, {}, None)

\* The last link of a member; a flat member is its own last link.
LastLink(s) == CHOOSE t \in Tasks : SlotOf[t] = s /\ ~HasTail(t)

NoResults == [s \in Slots |-> None]

Init ==
    /\ hash = [t \in Tasks |-> "absent"]
    /\ tail = [t \in Tasks |-> FALSE]
    /\ waiting = {} /\ claimed = {}
    /\ moving = [t \in Tasks |-> None]
    /\ run = [w \in Workers |-> Idle]
    /\ pending = {}
    /\ results = NoResults
    /\ lagging = FALSE
    /\ client = [state |-> "new", todo |-> {}]
    /\ succeeded = {}
    /\ fired = <<>>
    /\ expired = None

\* Bound: GroupTTL runs out at most once.
MayExpire == Expires /\ expired = None

SetRun(w, r) == run' = [run EXCEPT ![w] = r]

\* On to the next phase, or within enqueueNextGroup.
Goto(w, phase) == SetRun(w, Run(phase, run[w].task, run[w].tail, run[w].stale, {}, None))
InStage(w, phase, todo, slot) ==
    SetRun(w, Run(phase, run[w].task, run[w].tail, run[w].stale, todo, slot))

Store(t, h, c) ==
    /\ hash' = [hash EXCEPT ![t] = h]
    /\ tail' = [tail EXCEPT ![t] = c]

-----------------------------------------------------------------------------
(* The client: Chain.Enqueue and Group.Enqueue. *)

CreateGroup == pending' = Slots

\* A standalone group's SET is created before any member is dispatched.
ClientBegin ==
    /\ client.state = "new"
    /\ client' = [state |-> "busy", todo |-> First]
    /\ IF StageTask = None THEN CreateGroup ELSE UNCHANGED pending
    /\ UNCHANGED <<queueVars, run, results, lagging, fired, succeeded>>

ClientDispatch(t) ==
    /\ t \in client.todo
    /\ Store(t, "live", HasTail(t))
    /\ waiting' = waiting \cup {t}
    /\ client' = [state |-> IF client.todo = {t} THEN "done" ELSE "busy",
                  todo |-> client.todo \ {t}]
    /\ UNCHANGED <<claimed, moving, run, groupVars, succeeded>>

\* A dispatch fails, or the client dies: the rest is never dispatched.
ClientFails ==
    /\ client.state = "busy"
    /\ client' = [state |-> "failed", todo |-> {}]
    /\ UNCHANGED <<queueVars, run, groupVars, succeeded>>

-----------------------------------------------------------------------------
(* Delivery and the outcome of the handler. *)

Deliver(w, t) ==
    /\ run[w] = Idle
    /\ t \in waiting /\ t \notin claimed
    /\ waiting' = waiting \ {t}
    /\ IF hash[t] = "absent"
       THEN UNCHANGED <<hash, claimed, run>>
       ELSE /\ claimed' = claimed \cup {t}
            /\ hash' = [hash EXCEPT ![t] = "live"]
            /\ SetRun(w, Run("handler", t, tail[t], FALSE, {}, None))
    /\ UNCHANGED <<tail, moving, groupVars, client, succeeded>>

\* XACK + XDEL of the run's own entry, which a reclaim has already replaced.
Ack(w) == claimed' = IF run[w].stale THEN claimed ELSE claimed \ {run[w].task}

\* The error is retried, or it dead-letters the task.
HandlerFails(w) ==
    /\ run[w].phase = "handler"
    /\ Ack(w)
    /\ \/ /\ Store(run[w].task, "live", run[w].tail)
          /\ waiting' = waiting \cup {run[w].task}
       \/ /\ Store(run[w].task, "archived", run[w].tail)
          /\ UNCHANGED waiting
    /\ SetRun(w, Idle)
    /\ UNCHANGED <<moving, groupVars, client, succeeded>>

\* Mutant: a member is acked without having reported.
AfterHandlerSilent(r) ==
    IF r.tail THEN (IF r.task = StageTask THEN "create" ELSE "link") ELSE "ack"

\* What process does first once the handler has succeeded.
AfterHandler(r) ==
    IF r.tail THEN (IF r.task = StageTask THEN "create" ELSE "link")
    ELSE IF SlotOf[r.task] # None THEN "report" ELSE "ack"

HandlerSucceeds(w) ==
    /\ run[w].phase = "handler"
    /\ Goto(w, AfterHandler(run[w]))
    /\ succeeded' = succeeded \cup {run[w].task}
    /\ UNCHANGED <<queueVars, groupVars, client>>

-----------------------------------------------------------------------------
(* enqueueNext and enqueueNextGroup. *)

\* EnqueueChainLink: create-if-absent.
CreateIfAbsent(t) ==
    IF hash[t] = "absent"
    THEN Store(t, "live", HasTail(t)) /\ waiting' = waiting \cup {t}
    ELSE UNCHANGED <<hash, tail, waiting>>

\* On to the ack, with msg.Chain = nil.
HandedOver(w) == SetRun(w, Run("ack", run[w].task, FALSE, run[w].stale, {}, None))

\* Mutant: a failed successor enqueue is logged and the task acked.
EnqueueNextIgnored(w) ==
    /\ run[w].phase = "link"
    /\ CreateIfAbsent(NextLink[run[w].task]) \/ UNCHANGED <<hash, tail, waiting>>
    /\ HandedOver(w)
    /\ UNCHANGED <<claimed, moving, groupVars, client, succeeded>>

EnqueueNext(w) ==
    /\ run[w].phase = "link"
    /\ CreateIfAbsent(NextLink[run[w].task])
    /\ HandedOver(w)
    /\ UNCHANGED <<claimed, moving, groupVars, client, succeeded>>

\* The successor is created and the reply is lost: enqueueNextWithRetry calls
\* again after its backoff, by when the successor may have run and gone.
LinkRetry(w) ==
    /\ run[w].phase = "link"
    /\ CreateIfAbsent(NextLink[run[w].task])
    /\ UNCHANGED <<claimed, moving, run, groupVars, client, succeeded>>

\* Mutant: the result HASH goes also when the stage is in flight.
CreateGroupForgets(w) ==
    /\ run[w].phase = "create"
    /\ \/ /\ hash[Callback] # "absent"
          /\ HandedOver(w)
          /\ UNCHANGED <<pending, results, lagging>>
       \/ /\ hash[Callback] = "absent"
          /\ pending' = IF pending = {} THEN Slots ELSE pending
          /\ results' = NoResults /\ lagging' = FALSE
          /\ IF pending = {} THEN InStage(w, "enqueue", Slots, None) ELSE Goto(w, "members")
    /\ UNCHANGED <<queueVars, fired, client, succeeded>>

\* createGroupIfAbsentCmd: the callback's hash fences a completed stage; of a
\* stage in flight only the SET gets its TTL again.
CreateGroupIfAbsent(w) ==
    /\ run[w].phase = "create"
    /\ \/ /\ hash[Callback] # "absent"
          /\ HandedOver(w)
          /\ UNCHANGED <<pending, results, lagging>>
       \/ /\ hash[Callback] = "absent" /\ pending # {}
          /\ Goto(w, "members")
          /\ lagging' = (MayExpire /\ results # NoResults)
          /\ UNCHANGED <<pending, results>>
       \/ /\ hash[Callback] = "absent" /\ pending = {}
          /\ pending' = Slots
          /\ results' = NoResults /\ lagging' = FALSE
          /\ InStage(w, "enqueue", Slots, None)
    /\ UNCHANGED <<queueVars, fired, client, succeeded>>

\* The stage exists: only members still in the SET are enqueued.
GroupMembers(w) ==
    /\ run[w].phase = "members"
    /\ InStage(w, "enqueue", pending, None)
    /\ UNCHANGED <<queueVars, groupVars, client, succeeded>>

\* A member that already has a hash is looked at next.
EnqueueMember(w, s) ==
    /\ run[w].phase = "enqueue"
    /\ s \in run[w].todo
    /\ CreateIfAbsent(LastLink(s))
    /\ IF hash[LastLink(s)] = "absent"
       THEN InStage(w, "enqueue", run[w].todo \ {s}, None)
       ELSE InStage(w, "drain", run[w].todo \ {s}, s)
    /\ UNCHANGED <<claimed, moving, groupVars, client, succeeded>>

\* drainCompletedStageMember, its reads: only a completed member is reported.
Drain(w) ==
    /\ run[w].phase = "drain"
    /\ IF hash[LastLink(run[w].slot)] = "completed"
       THEN InStage(w, "redo", run[w].todo, run[w].slot)
       ELSE InStage(w, "enqueue", run[w].todo, None)
    /\ UNCHANGED <<queueVars, groupVars, client, succeeded>>

\* Mutant: a partly enqueued stage counts as enqueued.
StageEnqueuedEarly(w) ==
    /\ run[w].phase = "enqueue"
    /\ HandedOver(w)
    /\ UNCHANGED <<queueVars, groupVars, client, succeeded>>

StageEnqueued(w) ==
    /\ run[w].phase = "enqueue" /\ run[w].todo = {}
    /\ HandedOver(w)
    /\ UNCHANGED <<queueVars, groupVars, client, succeeded>>

\* A call of enqueueNextGroup fails: enqueueNextWithRetry starts it over.
StageRetry(w) ==
    /\ run[w].phase \in {"members", "enqueue", "drain", "redo"}
    /\ Goto(w, "create")
    /\ UNCHANGED <<queueVars, groupVars, client, succeeded>>

-----------------------------------------------------------------------------
(* Reports, the ack, and what becomes of unfinished runs. *)

\* Mutant: no EXISTS test of the SET.
ReportUnguarded(s, t) ==
    LET res == [results EXCEPT ![s] = t]
    IN  IF pending \ {s} # {}
        THEN /\ pending' = pending \ {s}
             /\ results' = res /\ lagging' = FALSE
             /\ UNCHANGED <<hash, tail, waiting, fired>>
        ELSE /\ pending' = {}
             /\ results' = NoResults /\ lagging' = FALSE
             /\ CreateIfAbsent(Callback)
             /\ fired' = IF hash[Callback] = "absent" /\ Len(fired) < MaxFired
                         THEN Append(fired, res) ELSE fired

\* Mutant: no SREM of the member that completes the group.
ReportKeepsLast(s, t) ==
    LET res == [results EXCEPT ![s] = t]
    IN  IF pending = {}
        THEN UNCHANGED <<hash, tail, waiting, groupVars>>
        ELSE IF pending \ {s} # {}
        THEN /\ pending' = pending \ {s}
             /\ results' = res /\ lagging' = FALSE
             /\ UNCHANGED <<hash, tail, waiting, fired>>
        ELSE /\ CreateIfAbsent(Callback)
             /\ fired' = IF hash[Callback] = "absent" /\ Len(fired) < MaxFired
                         THEN Append(fired, res) ELSE fired
             /\ UNCHANGED <<pending, results, lagging>>

\* groupCompleteCmd for slot s with the result of task t: an absent SET means
\* that the group has completed or expired.
CompleteGroupMember(s, t) ==
    LET res == [results EXCEPT ![s] = t]
    IN  IF pending = {}
        THEN UNCHANGED <<hash, tail, waiting, groupVars>>
        ELSE IF pending \ {s} # {}
        THEN /\ pending' = pending \ {s}
             /\ results' = res /\ lagging' = FALSE
             /\ UNCHANGED <<hash, tail, waiting, fired>>
        ELSE /\ pending' = {}
             /\ results' = NoResults /\ lagging' = FALSE
             /\ CreateIfAbsent(Callback)
             /\ fired' = IF hash[Callback] = "absent" /\ Len(fired) < MaxFired
                         THEN Append(fired, res) ELSE fired

Redo(w) ==
    /\ run[w].phase = "redo"
    /\ CompleteGroupMember(run[w].slot, LastLink(run[w].slot))
    /\ InStage(w, "enqueue", run[w].todo, None)
    /\ UNCHANGED <<claimed, moving, client, succeeded>>

Report(w) ==
    /\ run[w].phase = "report"
    /\ CompleteGroupMember(SlotOf[run[w].task], run[w].task)
    /\ Goto(w, "ack")
    /\ UNCHANGED <<claimed, moving, client, succeeded>>

\* The report takes effect and its reply is lost: completeGroupWithRetry
\* reports the same member again.
ReportRetry(w) ==
    /\ run[w].phase = "report"
    /\ CompleteGroupMember(SlotOf[run[w].task], run[w].task)
    /\ UNCHANGED <<claimed, moving, run, client, succeeded>>

\* Done: a retained task keeps the message as it is now, without its Chain.
Done(w) ==
    /\ run[w].phase = "ack"
    /\ Ack(w)
    /\ IF run[w].task \in Retained
       THEN Store(run[w].task, "completed", run[w].tail)
       ELSE Store(run[w].task, "absent", FALSE)
    /\ SetRun(w, Idle)
    /\ UNCHANGED <<waiting, moving, groupVars, client, succeeded>>

\* The server dies, or a call fails for good: the task is left unacked.
RunLost(w) ==
    /\ run[w] # Idle
    /\ SetRun(w, Idle)
    /\ UNCHANGED <<queueVars, groupVars, client, succeeded>>

\* The recoverer acks the entry of t: no run owns it any more.
Disown(t) ==
    /\ claimed' = claimed \ {t}
    /\ run' = [w \in Workers |->
                  IF run[w].task = t
                  THEN Run(run[w].phase, t, run[w].tail, TRUE, run[w].todo, run[w].slot)
                  ELSE run[w]]

\* Recover loads the message of an idle entry, or drops an orphan.
RecoverLoad(t) ==
    /\ t \in claimed /\ moving[t] = None
    /\ LeasesLapse \/ \A w \in Workers : run[w].task # t \/ run[w].stale
    /\ IF hash[t] = "absent"
       THEN Disown(t) /\ UNCHANGED moving
       ELSE moving' = [moving EXCEPT ![t] = tail[t]] /\ UNCHANGED <<claimed, run>>
    /\ UNCHANGED <<hash, tail, waiting, groupVars, client, succeeded>>

\* Mutant: an entry whose message was not loaded is moved as well.
RecoverMoveUnloaded(t) ==
    /\ t \in claimed /\ \A w \in Workers : run[w].task # t
    /\ Store(t, "live", moving[t])
    /\ waiting' = waiting \cup {t}
    /\ claimed' = claimed \ {t}
    /\ moving' = [moving EXCEPT ![t] = None]
    /\ UNCHANGED <<run, groupVars, client, succeeded>>

\* Its Retry or Archive.
RecoverMove(t) ==
    /\ moving[t] # None
    /\ \/ Store(t, "live", moving[t]) /\ waiting' = waiting \cup {t}
       \/ Store(t, "archived", moving[t]) /\ UNCHANGED waiting
    /\ Disown(t)
    /\ moving' = [moving EXCEPT ![t] = None]
    /\ UNCHANGED <<groupVars, client, succeeded>>

RecoverLost(t) ==
    /\ moving[t] # None
    /\ moving' = [moving EXCEPT ![t] = None]
    /\ UNCHANGED <<hash, tail, waiting, claimed, run, groupVars, client, succeeded>>

\* The operator's RunTask on a dead-lettered or retained task.
RunTask(t) ==
    /\ Operator
    /\ hash[t] \in {"archived", "completed"}
    /\ hash' = [hash EXCEPT ![t] = "live"]
    /\ waiting' = waiting \cup {t}
    /\ UNCHANGED <<tail, claimed, moving, run, groupVars, client, succeeded>>

\* The janitor.
Trim(t) ==
    /\ hash[t] \in Janitor
    /\ Store(t, "absent", FALSE)
    /\ UNCHANGED <<waiting, claimed, moving, run, groupVars, client, succeeded>>

\* Nothing of the workflow has moved for as long as GroupTTL.
Stopped == waiting \cup claimed = {} /\ \A w \in Workers : run[w] = Idle

\* GroupTTL runs out on the SET. The HASH's TTL was never set later than the
\* SET's, so the HASH is gone as well.
GroupExpire ==
    /\ MayExpire /\ Stopped
    /\ pending # {}
    /\ pending' = {}
    /\ results' = NoResults /\ lagging' = FALSE
    /\ expired' = "SET"
    /\ UNCHANGED <<queueVars, run, fired, client, succeeded>>

\* It runs out on the HASH while the SET, set again since, lives on.
ResultsExpire ==
    /\ MayExpire /\ Stopped
    /\ lagging
    /\ results' = NoResults /\ lagging' = FALSE
    /\ expired' = "HASH"
    /\ UNCHANGED <<queueVars, run, pending, fired, client, succeeded>>

-----------------------------------------------------------------------------
ClientStep == ClientBegin \/ ClientFails \/ \E t \in Tasks : ClientDispatch(t)

HandOver(w) ==
    \/ EnqueueNext(w) \/ CreateGroupIfAbsent(w) \/ GroupMembers(w)
    \/ \E s \in Slots : EnqueueMember(w, s)
    \/ Drain(w) \/ Redo(w) \/ StageEnqueued(w) \/ Report(w) \/ Done(w)

WorkerStep(w) ==
    \/ \E t \in Tasks : Deliver(w, t)
    \/ HandlerFails(w) \/ HandlerSucceeds(w)
    \/ HandOver(w)
    \/ LinkRetry(w) \/ StageRetry(w) \/ ReportRetry(w)
    \/ RunLost(w)

OtherStep(t) == RecoverLoad(t) \/ RecoverMove(t) \/ RecoverLost(t) \/ RunTask(t) \/ Trim(t)

\* The workflow may end: nothing waits, runs or can be re-run.
Next ==
    \/ /\ \/ ClientStep
          \/ \E w \in Workers : WorkerStep(w)
          \/ \E t \in Tasks : OtherStep(t)
       /\ UNCHANGED expired
    \/ GroupExpire \/ ResultsExpire

Spec == Init /\ [][Next]_vars

-----------------------------------------------------------------------------
(* Properties. *)

\* Every variable keeps its type; in particular a message is never stored
\* again without having been loaded (moving, tail).
TypeOK ==
    /\ hash \in [Tasks -> Hashes] /\ tail \in [Tasks -> BOOLEAN]
    /\ waiting \subseteq Tasks /\ claimed \subseteq Tasks
    /\ moving \in [Tasks -> BOOLEAN \cup {None}]
    /\ run \in [Workers -> [phase : Phases, task : Tasks \cup {None}, tail : BOOLEAN,
                            stale : BOOLEAN, todo : SUBSET Slots, slot : Slots \cup {None}]]
    /\ pending \subseteq Slots
    /\ results \in [Slots -> Tasks \cup {None}] /\ lagging \in BOOLEAN
    /\ expired \in {None, "SET", "HASH"}

\* "the callback can never fire early" (README.md:224): when the callback is
\* created, the last link of every member has succeeded, whatever was
\* redelivered, re-created, re-run or left half enqueued.
CallbackNotEarly ==
    fired # <<>> => \A s \in Slots : LastLink(s) \in succeeded

\* "a group's callback receives every member's result" (README.md:232), "and
\* survive retries, redeliveries and dead-letter re-runs": each slot of the
\* callback's GroupResults holds the result of that member's last link, also
\* when the SET expired and a second round was created over the first. It does
\* not outlast an expiry of the HASH alone.
ResultsComplete ==
    expired # "HASH" =>
        \A i \in DOMAIN fired : \A s \in Slots : fired[i][s] = LastLink(s)

\* "an at-least-once redelivery cannot double-fire it" (README.md:213): a
\* standalone group creates its callback once, retained or not.
CallbackOnce == Len(fired) <= 1

\* Some loop, or the operator's RunTask, will run t.
Runnable(t) == t \in waiting \cup claimed \/ hash[t] = "archived"

\* "ack-then-crash must not lose the group's progress" (server.go:507), nor
\* the chain's (server.go:485): until the callback is created, each member the
\* SET waits for has a link that can still run, or the task that enqueues the
\* stage can. GroupTTL is the end of a group, so this is until the SET expires.
NoSlotStranded ==
    (client.state = "done" /\ fired = <<>> /\ expired # "SET") =>
        \A s \in pending : \E t \in Tasks : (SlotOf[t] = s \/ t = StageTask) /\ Runnable(t)

\* No hand-over is lost: until the last task of the workflow has succeeded,
\* some task of it can still run, unless the SET has expired.
NoWorkflowLost ==
    client.state = "done" /\ expired # "SET" =>
        \/ \E t \in Tasks : Runnable(t)
        \/ \A t \in Tasks : t \in succeeded
=============================================================================
