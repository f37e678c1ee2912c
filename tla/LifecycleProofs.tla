-------------------------- MODULE LifecycleProofs --------------------------
(***************************************************************************)
(* TaskQueue implements TaskLifecycle while the leases are held: every     *)
(* step of it is a step of the abstract specification under the refinement *)
(* mapping, or leaves the mapped state alone. One lemma per action, from   *)
(* the lemmas of PlaceProofs on where a task is before and after it; the   *)
(* actions that end a claim are in OutcomeProofs.                          *)
(***************************************************************************)
EXTENDS OutcomeProofs

\* A worker or a recoverer that loads the body takes the task.
LEMMA Taken ==
    ASSUME LInv, LInv', NEW t \in Tasks, ~Held(t), InStream(t), UNCHANGED <<body, zset, entry>>,
           body[t] # NoBody, (JobHolds(t, body[t]) \/ RecHolds(t, body[t]))',
           \A u \in Tasks \ {t} : HandsKept(u)
    PROVE  Lifecycle!Take(t)
<1>1. OthersStay(t)
  <2>1. \A u \in Tasks : KeysKept(u)
    BY DEF KeysKept, InStream
  <2>. QED
    BY <2>1, KeptStays DEF OthersStay
<1>2. PICK n \in Nat : n = body[t]
    BY TaskAssumption DEF LInv, PInv, TInv, TypeOK, Budgeted
<1>3. Place(t, "pending", n) /\ Place(t, "held", n)'
    BY <1>2 DEF Place
<1>4. Spent(t) = n /\ Lifecycle!Move(t, {"pending"}, "held", n)
    BY <1>1, <1>3, MoveRefines
<1>. QED
    BY <1>4 DEF Lifecycle!Take

\* A worker that finds the body takes the task; one that does not has an orphan.
LEMMA LoadRefines ==
    ASSUME LInv, LInv', NEW e \in EntryIds, LoadBody(e)
    PROVE  UNCHANGED Lifecycle!lifeVars \/ \E t \in Tasks : Lifecycle!Take(t)
<1>1. /\ job[e].phase = "read" /\ UNCHANGED <<rec, body, zset, entry>>
      /\ job \in [EntryIds -> [phase : JobPhases, task : Tasks \cup {None}, retried : Nat]]
    BY DEF LoadBody, redisVars, LInv, PInv, TInv, TypeOK
<1>2. PICK t \in Tasks : t = job[e].task
    BY <1>1, JobTyped
<1>3. \A f \in EntryIds : job'[f] = IF f = e THEN Loaded(t) ELSE job[f]
    BY <1>1, <1>2 DEF LoadBody
<1>4. ~Held(t) /\ InStream(t)
    BY <1>1, <1>2, JobClaim DEF Held, JobHolds, RecHolds
<1>5. Loaded(t).task = t
    BY DEF Loaded
<1>6. \A u \in Tasks \ {t} : HandsKept(u)
    BY <1>1, <1>2, <1>3, <1>5 DEF HandsKept, JobHolds, RecHolds
<1>7. CASE body[t] # NoBody
  <2>1. JobHolds(t, body[t])'
    BY <1>1, <1>3, <1>7 DEF JobHolds, Loaded
  <2>. QED
    BY <1>1, <1>4, <1>6, <1>7, <2>1, Taken, SMTT(20)
<1>8. CASE body[t] = NoBody
  <2>1. Loaded(t).phase = "orphan"
    BY <1>8 DEF Loaded
  <2>2. HandsKept(t)
    BY <1>1, <1>2, <1>3, <2>1 DEF HandsKept, JobHolds, RecHolds
  <2>3. \A u \in Tasks : KeysKept(u)
    BY <1>1 DEF KeysKept, InStream
  <2>. QED
    BY <1>6, <2>2, <2>3, KeptStays, StayRefines
<1>. QED
    BY <1>7, <1>8

\* The same of a recoverer.
LEMMA RecLoadRefines ==
    ASSUME LInv, LInv', NEW s \in Servers, RecoverLoad(s)
    PROVE  UNCHANGED Lifecycle!lifeVars \/ \E t \in Tasks : Lifecycle!Take(t)
<1>1. /\ rec[s].phase = "claimed" /\ UNCHANGED <<job, body, zset, entry>>
      /\ rec \in [Servers -> [phase : RecPhases, entry : EntryIds \cup {None},
                              task : Tasks \cup {None}, retried : Nat]]
    BY DEF RecoverLoad, redisVars, LInv, PInv, TInv, TypeOK
<1>2. PICK t \in Tasks : t = rec[s].task
    BY <1>1, RecTyped
<1>3. PICK l : l = Loaded(t)
    OBVIOUS
<1>4. \A r \in Servers : rec'[r] = IF r = s THEN [phase |-> l.phase, entry |-> rec[s].entry,
                                                  task |-> l.task, retried |-> l.retried] ELSE rec[r]
    BY <1>1, <1>2, <1>3 DEF RecoverLoad
<1>5. ~Held(t) /\ InStream(t)
    BY <1>1, <1>2, RecClaim DEF Held, JobHolds, RecHolds
<1>6. l.task = t
    BY <1>3 DEF Loaded
<1>7. \A u \in Tasks \ {t} : HandsKept(u)
    BY <1>1, <1>2, <1>4, <1>6 DEF HandsKept, JobHolds, RecHolds
<1>8. CASE body[t] # NoBody
  <2>1. l.phase = "loaded" /\ l.retried = body[t]
    BY <1>3, <1>8 DEF Loaded
  <2>2. RecHolds(t, body[t])'
    BY <1>1, <1>4, <1>6, <2>1 DEF RecHolds
  <2>. QED
    BY <1>1, <1>5, <1>7, <1>8, <2>2, Taken
<1>9. CASE body[t] = NoBody
  <2>1. l.phase = "orphan"
    BY <1>3, <1>9 DEF Loaded
  <2>2. HandsKept(t)
    BY <1>1, <1>2, <1>4, <2>1 DEF HandsKept, JobHolds, RecHolds
  <2>3. \A u \in Tasks : KeysKept(u)
    BY <1>1 DEF KeysKept, InStream
  <2>. QED
    BY <1>7, <2>2, <2>3, KeptStays, StayRefines
<1>. QED
    BY <1>8, <1>9

\* An entry dropped as an orphan was the last trace of a deleted task.
LEMMA Dropped ==
    ASSUME LInv, LInv', NEW t \in Tasks, NEW e \in EntryIds, entry[e] = t,
           body[t] = NoBody, AckDel(e), ~Held(t), ~Held(t)', UNCHANGED <<body, zset>>,
           \A u \in Tasks \ {t} : HandsKept(u)
    PROVE  UNCHANGED Lifecycle!lifeVars
<1>1. entry \in [EntryIds -> Tasks \cup {None}] /\ entry' = [entry EXCEPT ![e] = None]
    BY DEF AckDel, LInv, PInv, TInv, TypeOK
<1>2. \A u \in Tasks \ {t} : KeysKept(u)
    BY <1>1, NoneAssumption DEF KeysKept, InStream
<1>3. ~InSomeZSet(t) /\ ~InSomeZSet(t)'
    BY SMTT(20) DEF InSomeZSet, LInv, PInv, ZSetsAgree
<1>4. \A st, n : Place(t, st, n) => Place(t, st, n)'
    BY <1>3, Zenon DEF Place, Held, InSomeZSet
<1>. QED
    BY <1>2, <1>4, KeptStays, StayRefines

\* A worker drops its orphan.
LEMMA TrimOrphanRefines ==
    ASSUME LInv, LInv', NEW e \in EntryIds, TrimOrphan(e)
    PROVE  UNCHANGED Lifecycle!lifeVars
<1>1. /\ job[e].phase = "orphan" /\ job' = [job EXCEPT ![e] = NoJob] /\ AckDel(e)
      /\ UNCHANGED <<rec, body, zset>>
    BY DEF TrimOrphan
<1>2. PICK t \in Tasks : t = job[e].task
    BY <1>1, JobTyped
<1>3. entry[e] = t /\ ~Held(t)
    BY <1>1, <1>2, JobClaim DEF Held, JobHolds, RecHolds
<1>4. body[t] = NoBody
    BY <1>1, <1>2 DEF LInv, PInv, CopiesAgree, CopyOK
<1>. QED
    BY <1>1, <1>2, <1>3, <1>4, JobEnds, Dropped, Zenon

\* A recoverer drops its orphan.
LEMMA RecoverTrimRefines ==
    ASSUME LInv, LInv', NEW s \in Servers, RecoverTrim(s)
    PROVE  UNCHANGED Lifecycle!lifeVars
<1>1. /\ rec[s].phase = "orphan" /\ rec' = [rec EXCEPT ![s] = NoRec]
      /\ UNCHANGED <<job, body, zset>>
    BY DEF RecoverTrim
<1>2. PICK t \in Tasks : t = rec[s].task
    BY <1>1, RecTyped
<1>3. PICK e \in EntryIds : e = rec[s].entry /\ entry[e] = t /\ AckDel(e)
    BY <1>1, <1>2, RecClaim DEF RecoverTrim
<1>4. ~Held(t)
    BY <1>1, <1>2, RecClaim DEF Held, JobHolds, RecHolds
<1>5. body[t] = NoBody
    BY <1>1, <1>2 DEF LInv, PInv, CopiesAgree, CopyOK
<1>. QED
    BY <1>1, <1>2, <1>3, <1>4, <1>5, RecEnds, Dropped, ZenonT(30)

\* A claim without the body yet, and the mark of a claimed task as active, are
\* nothing to the life cycle.
LEMMA ClaimRefines ==
    ASSUME LInv, LInv',
           \/ \E e \in EntryIds : XReadGroup(e) \/ MarkActive(e)
           \/ \E s \in Servers, e \in EntryIds : RecoverClaim(s, e)
    PROVE  UNCHANGED Lifecycle!lifeVars
<1>a. /\ job \in [EntryIds -> [phase : JobPhases, task : Tasks \cup {None}, retried : Nat]]
      /\ rec \in [Servers -> [phase : RecPhases, entry : EntryIds \cup {None},
                              task : Tasks \cup {None}, retried : Nat]]
      /\ \A e \in EntryIds \ pel : job[e].phase = "none"
    BY DEF LInv, PInv, TInv, TypeOK, ClaimsHold, JobsHold
<1>1. \A u \in Tasks : HandsKept(u)
  <2>1. ASSUME NEW e \in EntryIds, XReadGroup(e) PROVE \A u \in Tasks : HandsKept(u)
    <3>1. \A f \in EntryIds : f # e => job'[f] = job[f]
      BY <1>a, <2>1 DEF XReadGroup
    <3>2. job[e].phase = "none" /\ job'[e].phase = "read" /\ rec' = rec
      BY <1>a, <2>1 DEF XReadGroup
    <3>. QED
      BY <3>1, <3>2 DEF HandsKept, JobHolds, RecHolds
  <2>2. ASSUME NEW e \in EntryIds, MarkActive(e) PROVE \A u \in Tasks : HandsKept(u)
    BY <1>a, <2>2, SMTT(20) DEF MarkActive, HandsKept, JobHolds, RecHolds
  <2>3. ASSUME NEW s \in Servers, NEW e \in EntryIds, RecoverClaim(s, e)
        PROVE  \A u \in Tasks : HandsKept(u)
    BY <1>a, <2>3, Zenon DEF RecoverClaim, HandsKept, JobHolds, RecHolds
  <2>. QED
    BY <2>1, <2>2, <2>3
<1>2. \A u \in Tasks : KeysKept(u)
    BY DEF XReadGroup, MarkActive, RecoverClaim, redisVars, KeysKept, InStream
<1>. QED
    BY <1>1, <1>2, KeptStays, StayRefines

\* forwardCmd promotes a waiting task.
LEMMA ForwardRefines ==
    ASSUME LInv, LInv', NEW z \in ZSets, NEW t \in Tasks, Forward(z, t)
    PROVE  Lifecycle!Promote(t)
<1>1. /\ body \in [Tasks -> Int] /\ zset \in [ZSets -> SUBSET Tasks]
      /\ entry \in [EntryIds -> Tasks \cup {None}]
      /\ z \in Lifecycle!Waiting /\ t \in zset[z] /\ body' = body
    BY DEF Forward, Lifecycle!Waiting, LInv, PInv, TInv, TypeOK
<1>2. PICK n : n = body[t] /\ n # NoBody
    BY <1>1 DEF LInv, PInv, ZSetsAgree
<1>3. PICK f \in EntryIds : entry[f] = None /\ entry' = [entry EXCEPT ![f] = t]
    BY Zenon DEF Forward, XAdd, Fresh
<1>4. ~Held(t)
    BY <1>1, HeldInStream DEF InSomeZSet
<1>5. \A u : HandsKept(u) /\ (Held(u)' <=> Held(u))
    BY HandsStill DEF Forward
<1>6. \A u \in Tasks \ {t} : KeysKept(u)
    BY <1>1, <1>3, NoneAssumption DEF Forward, ZRem, KeysKept, InStream
<1>7. OthersStay(t)
    BY <1>5, <1>6, KeptStays DEF OthersStay
<1>8. Place(t, z, n) /\ Place(t, "pending", n)'
    BY <1>1, <1>2, <1>3, <1>4, <1>5 DEF Place, InStream
<1>9. Spent(t) = n /\ Lifecycle!Move(t, Lifecycle!Waiting, "pending", n)
    BY <1>1, <1>7, <1>8, MoveRefines
<1>. QED
    BY <1>9 DEF Lifecycle!Promote

\* The janitor makes a finished task expire.
LEMMA TrimRefines ==
    ASSUME LInv, LInv', NEW z \in ZSets, NEW t \in Tasks, Trim(z, t)
    PROVE  Lifecycle!Expire(t)
<1>1. /\ body \in [Tasks -> Int] /\ zset \in [ZSets -> SUBSET Tasks]
      /\ z \in Lifecycle!Finished /\ t \in zset[z]
      /\ body' = [body EXCEPT ![t] = NoBody] /\ entry' = entry
    BY Zenon DEF Trim, DelHash, Lifecycle!Finished, LInv, PInv, TInv, TypeOK
<1>2. ~Held(t)
    BY <1>1, HeldInStream, SMTT(20) DEF InSomeZSet
<1>3. \A u : HandsKept(u) /\ (Held(u)' <=> Held(u))
    BY HandsStill, Zenon DEF Trim
<1>4. \A u \in Tasks \ {t} : KeysKept(u)
    BY <1>1 DEF Trim, ZRem, KeysKept, InStream
<1>5. OthersStay(t)
    BY <1>3, <1>4, KeptStays DEF OthersStay
<1>6. ~InSomeZSet(t)'
    BY <1>1, SMTT(20) DEF Trim, ZRem, InSomeZSet, LInv, PInv, SinglePlace
<1>7. PICK n : Place(t, z, n) /\ Place(t, "absent", 0)'
    BY <1>1, <1>2, <1>3, <1>6, Zenon DEF Place
<1>8. Lifecycle!Move(t, Lifecycle!Finished, "absent", 0)
    BY <1>1, <1>5, <1>7, MoveRefines
<1>. QED
    BY <1>8, SMTT(20) DEF Lifecycle!Expire

\* runTaskCmd makes a task of any ZSET pending again.
LEMMA RunTaskRefines ==
    ASSUME LInv, LInv', NEW t \in Tasks, RunTask(t)
    PROVE  Lifecycle!Rerun(t)
<1>1. /\ body \in [Tasks -> Int] /\ zset \in [ZSets -> SUBSET Tasks]
      /\ entry \in [EntryIds -> Tasks \cup {None}] /\ body' = body
    BY SMTT(20) DEF RunTask, LInv, PInv, TInv, TypeOK
<1>2. PICK z \in ZSets : t \in zset[z]
    BY SMTT(20) DEF RunTask, InSomeZSet
<1>3. state[t] # "absent" /\ body[t] # NoBody
    BY <1>2 DEF LInv, PInv, ZSetsAgree, ZSets
<1>4. PICK n : n = body[t]
    BY SMTT(20)
<1>5. PICK f \in EntryIds : entry[f] = None /\ entry' = [entry EXCEPT ![f] = t]
    BY <1>3, ZenonT(30) DEF RunTask, XAdd, Fresh
<1>6. ~Held(t)
    BY <1>2, HeldInStream, SMTT(20) DEF InSomeZSet
<1>7. \A u : HandsKept(u) /\ (Held(u)' <=> Held(u))
    BY HandsStill, Zenon DEF RunTask
<1>8. \A u \in Tasks \ {t} : KeysKept(u)
    BY <1>1, <1>5, NoneAssumption DEF RunTask, ZRem, KeysKept, InStream
<1>9. OthersStay(t)
    BY <1>7, <1>8, KeptStays, SMTT(20) DEF OthersStay
<1>10. Place(t, z, n) /\ Place(t, "pending", n)'
    BY <1>1, <1>2, <1>3, <1>4, <1>5, <1>6, <1>7, Zenon DEF Place, InStream
<1>11. z \in Lifecycle!Waiting \cup Lifecycle!Finished
    BY DEF ZSets, Lifecycle!Waiting, Lifecycle!Finished
<1>12. Spent(t) = n /\ Lifecycle!Move(t, Lifecycle!Waiting \cup Lifecycle!Finished, "pending", n)
    BY <1>9, <1>10, <1>11, MoveRefines, SMTT(20)
<1>. QED
    BY <1>12, SMTT(20) DEF Lifecycle!Rerun, RunTask

\* DeleteTask of a task in somebody's hands changes nothing until they let go.
LEMMA DeleteTaskRefines ==
    ASSUME LInv, LInv', NEW t \in Tasks, DeleteTask(t)
    PROVE  UNCHANGED Lifecycle!lifeVars \/ Lifecycle!Delete(t)
<1>1. /\ body \in [Tasks -> Int] /\ zset \in [ZSets -> SUBSET Tasks]
      /\ body' = [body EXCEPT ![t] = NoBody] /\ entry' = entry
      /\ \A z \in ZSets : zset'[z] = zset[z] \ {t}
    BY Zenon DEF DeleteTask, DelHash, ZRem, LInv, PInv, TInv, TypeOK
<1>2. \A u : HandsKept(u) /\ (Held(u)' <=> Held(u))
    BY HandsStill DEF DeleteTask
<1>3. OthersStay(t)
  <2>1. \A u \in Tasks \ {t} : KeysKept(u)
    BY <1>1 DEF KeysKept, InStream
  <2>. QED
    BY <1>2, <2>1, KeptStays DEF OthersStay
<1>4. ~InSomeZSet(t)' /\ body'[t] = NoBody
    BY <1>1 DEF InSomeZSet
<1>5. CASE Held(t)
  <2>1. ~InSomeZSet(t)
    BY <1>5, HeldInStream, SMTT(20)
  <2>2. \A st, n : Place(t, st, n) => Place(t, st, n)'
    BY <1>2, <1>5, <2>1 DEF Place, HandsKept, InSomeZSet
  <2>. QED
    BY <1>3, <2>2, StayRefines DEF OthersStay
<1>6. CASE ~Held(t)
  <2>1. Place(t, "absent", 0)'
    BY <1>2, <1>4, <1>6 DEF Place
  <2>2. PICK a, m : Place(t, a, m)
    BY PlaceExists
  <2>3. CASE a = "absent"
    <3>1. m = 0
      BY <1>6, <2>2, <2>3 DEF Place, ZSets
    <3>2. \A st, n : Place(t, st, n) => st = a /\ n = m
      BY <2>2, PlaceMaps
    <3>. QED
      BY <1>3, <2>1, <2>3, <3>1, <3>2, StayRefines DEF OthersStay
  <2>4. CASE a # "absent"
    <3>1. a \in Lifecycle!Stages \ {"absent"}
      BY <2>2, <2>4 DEF Place, ZSets, Lifecycle!Stages, Lifecycle!Waiting, Lifecycle!Finished
    <3>2. Lifecycle!Move(t, Lifecycle!Stages \ {"absent"}, "absent", 0)
      BY <1>3, <2>1, <2>2, <3>1, MoveRefines
    <3>. QED
      BY <3>2 DEF Lifecycle!Delete, DeleteTask
  <2>. QED
    BY <2>3, <2>4, SMTT(20)
<1>. QED
    BY <1>5, <1>6

\* Steps on the unique locks, and steps that change nothing.
LEMMA LockRefines ==
    ASSUME LInv, LInv', LockStep \/ UNCHANGED vars
    PROVE  UNCHANGED Lifecycle!lifeVars
<1>1. UNCHANGED <<body, zset, entry, job, rec>>
    BY DEF LockStep, ReleaseUnique, ReleaseLost, LockExpire, redisVars, vars
<1>2. \A u \in Tasks : HandsKept(u) /\ KeysKept(u)
    BY <1>1, HandsStill DEF KeysKept, InStream
<1>. QED
    BY <1>2, KeptStays, StayRefines

\* Every step of the queue is a step of the life cycle or a stuttering step.
LEMMA StepRefines ==
    ASSUME LInv, LInv', [Next]_vars
    PROVE  [Lifecycle!Next]_(Lifecycle!lifeVars)
<1>1. ASSUME NEW t \in Tasks, ClientStep(t) PROVE Lifecycle!Next
    BY <1>1, EnqueueRefines, ScheduleRefines DEF ClientStep, Lifecycle!Next
<1>2. ASSUME NEW t \in Tasks, ForwarderStep(t) \/ JanitorStep(t) PROVE Lifecycle!Next
    BY <1>2, ForwardRefines, TrimRefines DEF ForwarderStep, JanitorStep, Lifecycle!Next
<1>3. ASSUME NEW t \in Tasks, InspectorStep(t) PROVE [Lifecycle!Next]_(Lifecycle!lifeVars)
    BY <1>3, RunTaskRefines, DeleteTaskRefines DEF InspectorStep, Lifecycle!Next
<1>4. ASSUME NEW e \in EntryIds, WorkerStep(e) PROVE [Lifecycle!Next]_(Lifecycle!lifeVars)
  <2>1. CASE XReadGroup(e) \/ MarkActive(e)
    BY <2>1, ClaimRefines
  <2>2. CASE LoadBody(e)
    BY <2>2, LoadRefines DEF Lifecycle!Next
  <2>3. CASE TrimOrphan(e)
    BY <2>3, TrimOrphanRefines
  <2>4. CASE JobLost(e) \/ Requeue(e)
    BY <2>4, JobBackRefines DEF Lifecycle!Next
  <2>5. CASE ProcessSuccess(e)
    BY <2>5, SuccessRefines DEF Lifecycle!Next
  <2>6. CASE ProcessRetry(e)
    BY <2>6, RetryRefines DEF Lifecycle!Next
  <2>7. CASE ProcessDeadLetter(e)
    BY <2>7, DeadLetterRefines DEF Lifecycle!Next
  <2>. QED
    BY <1>4, <2>1, <2>2, <2>3, <2>4, <2>5, <2>6, <2>7 DEF WorkerStep
<1>5. ASSUME NEW s \in Servers, RecoverStep(s) PROVE [Lifecycle!Next]_(Lifecycle!lifeVars)
  <2>1. CASE \E e \in EntryIds : RecoverClaim(s, e)
    BY <2>1, ClaimRefines
  <2>2. CASE RecoverLoad(s)
    BY <2>2, RecLoadRefines DEF Lifecycle!Next
  <2>3. CASE RecoverTrim(s)
    BY <2>3, RecoverTrimRefines
  <2>4. CASE RecoverRetry(s) \/ RecoverArchive(s)
    BY <2>4, RecoverRefines DEF Lifecycle!Next
  <2>5. CASE RecoverLost(s)
    BY <2>5, RecBackRefines DEF Lifecycle!Next
  <2>. QED
    BY <1>5, <2>1, <2>2, <2>3, <2>4, <2>5 DEF RecoverStep
<1>6. CASE LockStep \/ UNCHANGED vars
    BY <1>6, LockRefines
<1>. QED
    BY <1>1, <1>2, <1>3, <1>4, <1>5, <1>6 DEF Next

\* An empty queue is a life cycle in which every task is absent.
LEMMA InitRefines == Init => Lifecycle!Init
<1> SUFFICES ASSUME Init PROVE Lifecycle!Init
    OBVIOUS
<1>1. LInv
    BY LInit, SMTT(20)
<1>2. \A t \in Tasks : Place(t, "absent", 0)
    BY NoneAssumption, Zenon
       DEF Init, Place, Held, JobHolds, RecHolds, InSomeZSet, InStream, NoJob, NoRec, ZSets
<1>3. \A t \in Tasks : Stage(t) = "absent" /\ Spent(t) = 0
    BY <1>1, <1>2, PlaceMaps, Zenon
<1>. QED
    BY <1>3 DEF Lifecycle!Init

\* While the heartbeats hold the leases the queue implements the life cycle of
\* internal/base/task.go, for every set of tasks, entries, servers and keys,
\* every retry budget and whichever operator calls are in use.
THEOREM Implements == ~LeasesLapse => (Spec => FollowsLifecycle)
<1> SUFFICES ASSUME ~LeasesLapse PROVE Spec => FollowsLifecycle
    OBVIOUS
<1>1. LInv /\ LInv' /\ [Next]_vars => [Lifecycle!Next]_(Lifecycle!lifeVars)
    BY StepRefines
<1>. QED
    BY <1>1, InitRefines, Leased, PTL DEF Spec, FollowsLifecycle, Lifecycle!Spec
=============================================================================
