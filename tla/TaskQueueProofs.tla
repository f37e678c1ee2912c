-------------------------- MODULE TaskQueueProofs --------------------------
(***************************************************************************)
(* TypeOK holds of TaskQueue for every set of tasks, entries and servers,  *)
(* every retry budget and every choice of the switches, and with it the    *)
(* facts about the Redis keys that the other proofs start from:            *)
(*   - the PEL names live entries only (PelLive): the recoverer reads the  *)
(*     task of an entry it claims;                                         *)
(*   - a hash with a body exists (HashOK): requeueCmd and runTaskCmd test  *)
(*     EXISTS before they put the task back into the stream;               *)
(*   - a worker or recoverer acks an entry of its own task, if that entry  *)
(*     is still there (Consistent).                                        *)
(***************************************************************************)
EXTENDS TaskQueue, TLAPS

\* Every delivered, unacked entry is still in the stream: XACK and XDEL are
\* always issued together.
PelLive == \A e \in pel : entry[e] # None

\* The part of the type invariant that speaks of the queue's Redis keys.
RedisOK ==
    /\ body \in [Tasks -> Int]
    /\ \A t \in Tasks : body[t] = NoBody \/ Budgeted(t, body[t])
    /\ state \in [Tasks -> States \cup {"absent"}]
    /\ entry \in [EntryIds -> Tasks \cup {None}]
    /\ pel \subseteq EntryIds
    /\ zset \in [ZSets -> SUBSET Tasks]
    /\ PelLive

TInv == TypeOK /\ PelLive

\* The message field exists only inside a hash that has a state field.
HashOK == \A t \in Tasks : body[t] # NoBody => state[t] # "absent"

\* The entry of a claim is gone or still belongs to the claimed task.
Consistent ==
    /\ \A e \in EntryIds : job[e].phase # "none" => entry[e] \in {None, job[e].task}
    /\ \A s \in Servers : rec[s].phase # "none" =>
          rec[s].entry \in EntryIds /\ entry[rec[s].entry] \in {None, rec[s].task}

\* moveToZSetCmd keeps the Redis keys well typed when it writes a message
\* within its retry budget.
LEMMA MoveType ==
    ASSUME TInv, NEW e, NEW t \in Tasks, NEW n, Budgeted(t, n), NEW z \in ZSets,
           MoveToZSet(e, t, n, z)
    PROVE  RedisOK'
<1> USE DEF TInv, TypeOK, MoveToZSet
<1>1. n \in Nat /\ n <= MaxRetry[t]
    BY TaskAssumption DEF Budgeted
<1>2. /\ body' \in [Tasks -> Int]
      /\ \A u \in Tasks : body'[u] = NoBody \/ Budgeted(u, body'[u])
      /\ state' \in [Tasks -> States \cup {"absent"}]
    BY <1>1 DEF WriteHash, Budgeted, States
<1>3. entry' \in [EntryIds -> Tasks \cup {None}] /\ pel' \subseteq EntryIds /\ PelLive'
    BY NoneAssumption, Zenon DEF AckDel, PelLive
<1>4. zset' \in [ZSets -> SUBSET Tasks]
    BY DEF ZAdd
<1>. QED
    BY <1>2, <1>3, <1>4 DEF RedisOK, NoBody, Budgeted

\* Done's MULTI block keeps the Redis keys well typed.
LEMMA AckDelHashType ==
    ASSUME TInv, NEW e, NEW t \in Tasks, AckDelHash(e, t)
    PROVE  RedisOK'
<1> USE DEF TInv, TypeOK, AckDelHash
<1>1. /\ body' \in [Tasks -> Int]
      /\ \A u \in Tasks : body'[u] = NoBody \/ Budgeted(u, body'[u])
      /\ state' \in [Tasks -> States \cup {"absent"}]
    BY DEF DelHash, Budgeted, NoBody
<1>2. entry' \in [EntryIds -> Tasks \cup {None}] /\ pel' \subseteq EntryIds /\ PelLive'
    BY NoneAssumption, Zenon DEF AckDel, PelLive
<1>. QED
    BY <1>1, <1>2 DEF RedisOK, NoBody, Budgeted

\* A claim built from a stored body is within the task's retry budget, because
\* the stored body is.
LEMMA LoadedType ==
    ASSUME TInv, NEW t \in Tasks
    PROVE  /\ Loaded(t).phase \in {"orphan", "loaded"}
           /\ Loaded(t).task = t
           /\ Budgeted(t, Loaded(t).retried)
           /\ Loaded(t) \in [phase : JobPhases, task : Tasks \cup {None}, retried : Nat]
  BY TaskAssumption DEF TInv, TypeOK, Loaded, Budgeted, NoBody, JobPhases

\* Every step keeps every variable well typed, retry budgets included, and the
\* PEL within the stream.
LEMMA TypeStep == TInv /\ [Next]_vars => TInv'
<1> SUFFICES ASSUME TInv, [Next]_vars PROVE TInv'
    OBVIOUS
<1> USE NoneAssumption, TaskAssumption
   DEF TInv, TypeOK, PelLive, Budgeted, NoBody, ZSets, States, JobPhases,
       RecPhases
<1>1. ASSUME NEW t \in Tasks, Enqueue(t) PROVE TInv'
    BY <1>1 DEF Enqueue, WriteHash, XAdd, Fresh, ZRem, AcquireUnique
<1>2. ASSUME NEW t \in Tasks, Schedule(t) PROVE TInv'
    BY <1>2 DEF Schedule, WriteHash, AcquireUnique
<1>3. ASSUME NEW e \in EntryIds, XReadGroup(e) PROVE TInv'
    BY <1>3 DEF XReadGroup
<1>4. ASSUME NEW e \in EntryIds, LoadBody(e) PROVE TInv'
    BY <1>4, LoadedType DEF LoadBody, redisVars
<1>5. ASSUME NEW e \in EntryIds, TrimOrphan(e) PROVE TInv'
    BY <1>5 DEF TrimOrphan, AckDel, NoJob
<1>6. ASSUME NEW e \in EntryIds, MarkActive(e) PROVE TInv'
    BY <1>6 DEF MarkActive, SetState
<1>7. ASSUME NEW e \in EntryIds, Requeue(e) PROVE TInv'
  <2>1. job[e].task \in Tasks
    BY <1>7 DEF Requeue
  <2>2. state' \in [Tasks -> States \cup {"absent"}]
    BY <1>7, <2>1 DEF Requeue, SetState
  <2>3. entry' \in [EntryIds -> Tasks \cup {None}] /\ pel' \subseteq EntryIds
    BY <1>7, <2>1 DEF Requeue
  <2>5. pel' \subseteq pel \ {e} /\ \A f \in pel' : entry'[f] # None
    BY <1>7, <2>1 DEF Requeue, Fresh
  <2>4. UNCHANGED <<body, zset, lock, rec, unlocking, owed>> /\ job' = [job EXCEPT ![e] = NoJob]
    BY <1>7 DEF Requeue
  <2>. QED
    BY <2>2, <2>3, <2>4, <2>5 DEF NoJob
<1>8. ASSUME NEW e \in EntryIds, ProcessSuccess(e) PROVE TInv'
  <2> DEFINE t == job[e].task
  <2>1. t \in Tasks /\ Budgeted(t, job[e].retried)
    BY <1>8 DEF ProcessSuccess
  <2>2. RedisOK'
    BY <1>8, <2>1, MoveType, AckDelHashType DEF ProcessSuccess
  <2>. QED
    BY <1>8, <2>1, <2>2, Zenon DEF ProcessSuccess, RedisOK, ReleaseLater, NoJob
<1>9. ASSUME NEW e \in EntryIds, ProcessRetry(e) PROVE TInv'
    BY <1>9 DEF ProcessRetry, MoveToZSet, AckDel, WriteHash, ZAdd, NoJob
<1>10. ASSUME NEW e \in EntryIds, ProcessDeadLetter(e) PROVE TInv'
  <2> DEFINE t == job[e].task
  <2>1. t \in Tasks /\ Budgeted(t, job[e].retried)
    BY <1>10 DEF ProcessDeadLetter
  <2>2. RedisOK'
    BY <1>10, <2>1, MoveType, AckDelHashType DEF ProcessDeadLetter
  <2>. QED
    BY <1>10, <2>1, <2>2, Zenon DEF ProcessDeadLetter, RedisOK, ReleaseLater, NoJob
<1>11. ASSUME NEW e \in EntryIds, JobLost(e) PROVE TInv'
    BY <1>11 DEF JobLost, redisVars, NoJob
<1>12. ASSUME NEW z \in ZSets, NEW t \in Tasks, Forward(z, t) PROVE TInv'
    BY <1>12 DEF Forward, XAdd, Fresh, SetState, ZRem
<1>13. ASSUME NEW s \in Servers, NEW e \in EntryIds, RecoverClaim(s, e) PROVE TInv'
    BY <1>13 DEF RecoverClaim, redisVars
<1>14. ASSUME NEW s \in Servers, RecoverLoad(s) PROVE TInv'
  <2>1. /\ rec[s].task \in Tasks /\ rec[s].entry \in EntryIds \cup {None}
        /\ UNCHANGED redisVars /\ UNCHANGED <<job, unlocking, owed>>
    BY <1>14 DEF RecoverLoad
  <2>2. PICK l : l = Loaded(rec[s].task)
    OBVIOUS
  <2>3. /\ l.phase \in {"orphan", "loaded"} /\ l.task = rec[s].task
        /\ Budgeted(l.task, l.retried) /\ l.retried \in Nat
    BY <2>1, <2>2, LoadedType
  <2>4. rec' = [rec EXCEPT ![s] = [phase |-> l.phase, entry |-> rec[s].entry,
                                   task |-> rec[s].task, retried |-> l.retried]]
    BY <1>14, <2>2, <2>3 DEF RecoverLoad
  <2>. QED
    BY <2>1, <2>3, <2>4 DEF redisVars
<1>15. ASSUME NEW s \in Servers, RecoverTrim(s) PROVE TInv'
    BY <1>15, Zenon DEF RecoverTrim, AckDel, NoRec
<1>16. ASSUME NEW s \in Servers, RecoverRetry(s) PROVE TInv'
  <2> DEFINE t == rec[s].task
  <2>1. t \in Tasks /\ Budgeted(t, rec[s].retried)
    BY <1>16 DEF RecoverRetry
  <2>2. RedisOK'
    BY <1>16, <2>1, MoveType DEF RecoverRetry
  <2>. QED
    BY <1>16, <2>1, <2>2 DEF RecoverRetry, RedisOK, ReleaseLater, NoRec
<1>17. ASSUME NEW s \in Servers, RecoverArchive(s) PROVE TInv'
  <2> DEFINE t == rec[s].task
  <2>1. t \in Tasks /\ Budgeted(t, rec[s].retried)
    BY <1>17 DEF RecoverArchive
  <2>2. RedisOK'
    BY <1>17, <2>1, MoveType DEF RecoverArchive
  <2>. QED
    BY <1>17, <2>1, <2>2 DEF RecoverArchive, RedisOK, ReleaseLater, NoRec
<1>18. ASSUME NEW s \in Servers, RecoverLost(s) PROVE TInv'
    BY <1>18 DEF RecoverLost, redisVars, NoRec
<1>19. ASSUME NEW z \in ZSets, NEW t \in Tasks, Trim(z, t) PROVE TInv'
    BY <1>19 DEF Trim, DelHash, ZRem
<1>20. ASSUME NEW t \in Tasks, RunTask(t) PROVE TInv'
  <2>1. state' \in [Tasks -> States \cup {"absent"}]
    BY <1>20 DEF RunTask, SetState
  <2>2. entry' \in [EntryIds -> Tasks \cup {None}] /\ PelLive'
    BY <1>20 DEF RunTask, XAdd
  <2>3. zset' \in [ZSets -> SUBSET Tasks] /\ owed' \subseteq Tasks
    BY <1>20 DEF RunTask, ZRem
  <2>4. UNCHANGED <<body, pel, lock, job, rec, unlocking>>
    BY <1>20 DEF RunTask
  <2>. QED
    BY <2>1, <2>2, <2>3, <2>4
<1>21. ASSUME NEW t \in Tasks, DeleteTask(t) PROVE TInv'
    BY <1>21 DEF DeleteTask, DelHash, ZRem, ReleaseLater, InSomeZSet
<1>22. ASSUME NEW t \in Tasks, ReleaseUnique(t) PROVE TInv'
    BY <1>22, Zenon DEF ReleaseUnique
<1>23. ASSUME NEW t \in Tasks, ReleaseLost(t) PROVE TInv'
    BY <1>23 DEF ReleaseLost, redisVars
<1>24. ASSUME NEW k \in Keys, LockExpire(k) PROVE TInv'
    BY <1>24 DEF LockExpire
<1>25. CASE UNCHANGED vars
    BY <1>25 DEF vars
<1>. QED
    BY <1>1, <1>2, <1>3, <1>4, <1>5, <1>6, <1>7, <1>8, <1>9, <1>10, <1>11,
       <1>12, <1>13, <1>14, <1>15, <1>16, <1>17, <1>18, <1>19, <1>20, <1>21,
       <1>22, <1>23, <1>24, <1>25, Zenon
       DEF Next, ClientStep, ForwarderStep, JanitorStep, InspectorStep, WorkerStep,
           RecoverStep, LockStep

\* No step leaves a message in a hash without a state field.
LEMMA HashStep == TInv /\ HashOK /\ [Next]_vars => HashOK'
<1> SUFFICES ASSUME TInv, HashOK, [Next]_vars PROVE HashOK'
    OBVIOUS
<1>a. /\ body \in [Tasks -> Int] /\ state \in [Tasks -> States \cup {"absent"}]
      /\ \A t \in Tasks : body[t] # NoBody => state[t] # "absent"
    BY DEF TInv, TypeOK, HashOK
<1> USE DEF HashOK, NoBody
<1>1. ASSUME NEW t \in Tasks, Enqueue(t) PROVE HashOK'
    BY <1>1, <1>a DEF Enqueue, WriteHash
<1>2. ASSUME NEW t \in Tasks, Schedule(t) PROVE HashOK'
    BY <1>2, <1>a DEF Schedule, WriteHash
<1>3. ASSUME NEW e \in EntryIds, XReadGroup(e) PROVE HashOK'
    BY <1>3, <1>a DEF XReadGroup
<1>4. ASSUME NEW e \in EntryIds, LoadBody(e) PROVE HashOK'
    BY <1>4, <1>a DEF LoadBody, redisVars
<1>5. ASSUME NEW e \in EntryIds, TrimOrphan(e) PROVE HashOK'
    BY <1>5, <1>a DEF TrimOrphan
<1>6. ASSUME NEW e \in EntryIds, MarkActive(e) PROVE HashOK'
    BY <1>6, <1>a DEF MarkActive, SetState
<1>7. ASSUME NEW e \in EntryIds, Requeue(e) PROVE HashOK'
    BY <1>7, <1>a DEF Requeue, SetState
<1>8. ASSUME NEW e \in EntryIds, ProcessSuccess(e) PROVE HashOK'
    BY <1>8, <1>a DEF ProcessSuccess, MoveToZSet, AckDelHash, WriteHash, DelHash
<1>9. ASSUME NEW e \in EntryIds, ProcessRetry(e) PROVE HashOK'
    BY <1>9, <1>a DEF ProcessRetry, MoveToZSet, WriteHash
<1>10. ASSUME NEW e \in EntryIds, ProcessDeadLetter(e) PROVE HashOK'
    BY <1>10, <1>a DEF ProcessDeadLetter, MoveToZSet, AckDelHash, WriteHash, DelHash
<1>11. ASSUME NEW e \in EntryIds, JobLost(e) PROVE HashOK'
    BY <1>11, <1>a DEF JobLost, redisVars
<1>12. ASSUME NEW z \in ZSets, NEW t \in Tasks, Forward(z, t) PROVE HashOK'
    BY <1>12, <1>a DEF Forward, SetState
<1>13. ASSUME NEW s \in Servers, NEW e \in EntryIds, RecoverClaim(s, e) PROVE HashOK'
    BY <1>13, <1>a DEF RecoverClaim, redisVars
<1>14. ASSUME NEW s \in Servers, RecoverLoad(s) PROVE HashOK'
    BY <1>14, <1>a DEF RecoverLoad, redisVars
<1>15. ASSUME NEW s \in Servers, RecoverTrim(s) PROVE HashOK'
    BY <1>15, <1>a DEF RecoverTrim
<1>16. ASSUME NEW s \in Servers, RecoverRetry(s) PROVE HashOK'
    BY <1>16, <1>a DEF RecoverRetry, MoveToZSet, WriteHash
<1>17. ASSUME NEW s \in Servers, RecoverArchive(s) PROVE HashOK'
    BY <1>17, <1>a DEF RecoverArchive, MoveToZSet, WriteHash
<1>18. ASSUME NEW s \in Servers, RecoverLost(s) PROVE HashOK'
    BY <1>18, <1>a DEF RecoverLost, redisVars
<1>19. ASSUME NEW z \in ZSets, NEW t \in Tasks, Trim(z, t) PROVE HashOK'
    BY <1>19, <1>a DEF Trim, DelHash
<1>20. ASSUME NEW t \in Tasks, RunTask(t) PROVE HashOK'
    BY <1>20, <1>a DEF RunTask, SetState
<1>21. ASSUME NEW t \in Tasks, DeleteTask(t) PROVE HashOK'
    BY <1>21, <1>a DEF DeleteTask, DelHash
<1>22. ASSUME NEW t \in Tasks, ReleaseUnique(t) PROVE HashOK'
    BY <1>22, <1>a DEF ReleaseUnique
<1>23. ASSUME NEW t \in Tasks, ReleaseLost(t) PROVE HashOK'
    BY <1>23, <1>a DEF ReleaseLost, redisVars
<1>24. ASSUME NEW k \in Keys, LockExpire(k) PROVE HashOK'
    BY <1>24, <1>a DEF LockExpire
<1>25. CASE UNCHANGED vars
    BY <1>25, <1>a DEF vars
<1> HIDE DEF HashOK
<1>. QED
    BY <1>1, <1>2, <1>3, <1>4, <1>5, <1>6, <1>7, <1>8, <1>9, <1>10, <1>11,
       <1>12, <1>13, <1>14, <1>15, <1>16, <1>17, <1>18, <1>19, <1>20, <1>21,
       <1>22, <1>23, <1>24, <1>25
       DEF Next, ClientStep, ForwarderStep, JanitorStep, InspectorStep, WorkerStep,
           RecoverStep, LockStep

\* No step makes a live entry belong to another task than the claim on it:
\* stream IDs are not reused while somebody remembers them.
LEMMA ConsistentStep == TInv /\ Consistent /\ [Next]_vars => Consistent'
<1> SUFFICES ASSUME TInv, Consistent, [Next]_vars PROVE Consistent'
    OBVIOUS
<1>a. /\ entry \in [EntryIds -> Tasks \cup {None}]
      /\ pel \subseteq EntryIds /\ \A e \in pel : entry[e] # None
      /\ job \in [EntryIds -> [phase : JobPhases, task : Tasks \cup {None}, retried : Nat]]
      /\ rec \in [Servers -> [phase : RecPhases, entry : EntryIds \cup {None},
                              task : Tasks \cup {None}, retried : Nat]]
      /\ Consistent
    BY DEF TInv, TypeOK, PelLive
<1> USE NoneAssumption DEF Consistent
<1>1. ASSUME NEW t \in Tasks, Enqueue(t) PROVE Consistent'
    BY <1>1, <1>a DEF Enqueue, XAdd, Fresh
<1>2. ASSUME NEW t \in Tasks, Schedule(t) PROVE Consistent'
    BY <1>2, <1>a DEF Schedule
<1>3. ASSUME NEW e \in EntryIds, XReadGroup(e) PROVE Consistent'
    BY <1>3, <1>a DEF XReadGroup
<1>4. ASSUME NEW e \in EntryIds, LoadBody(e) PROVE Consistent'
    BY <1>4, <1>a DEF LoadBody, redisVars, Loaded
<1>5. ASSUME NEW e \in EntryIds, TrimOrphan(e) PROVE Consistent'
    BY <1>5, <1>a DEF TrimOrphan, AckDel, NoJob
<1>6. ASSUME NEW e \in EntryIds, MarkActive(e) PROVE Consistent'
    BY <1>6, <1>a DEF MarkActive
<1>7. ASSUME NEW e \in EntryIds, Requeue(e) PROVE Consistent'
  <2>1. job' = [job EXCEPT ![e] = NoJob] /\ rec' = rec
    BY <1>7 DEF Requeue
  <2>2. CASE state[job[e].task] = "absent"
    <3>1. entry' = [entry EXCEPT ![e] = None]
      BY <1>7, <2>2 DEF Requeue
    <3>. QED
      BY <1>a, <2>1, <3>1 DEF NoJob
  <2>3. CASE state[job[e].task] # "absent"
    <3>1. PICK f \in EntryIds : Fresh(f) /\ entry' = [entry EXCEPT ![e] = None, ![f] = job[e].task]
      BY <1>7, <2>3 DEF Requeue
    <3>2. \A g \in EntryIds \ {f} : entry'[g] = IF g = e THEN None ELSE entry[g]
      BY <1>a, <3>1
    <3>3. job[f].phase = "none" /\ \A s \in Servers : rec[s].entry # f
      BY <3>1 DEF Fresh
    <3>4. \A g \in EntryIds : job'[g].phase # "none" => entry'[g] \in {None, job'[g].task}
      BY <1>a, <2>1, <3>2, <3>3 DEF NoJob
    <3>5. \A s \in Servers : rec[s].phase # "none" => entry'[rec[s].entry] \in {None, rec[s].task}
      BY <1>a, <3>2, <3>3
    <3>. QED
      BY <1>a, <2>1, <3>4, <3>5
  <2>. QED
    BY <2>2, <2>3
<1>8. ASSUME NEW e \in EntryIds, ProcessSuccess(e) PROVE Consistent'
    BY <1>8, <1>a, SMTT(20) DEF ProcessSuccess, MoveToZSet, AckDelHash, AckDel, NoJob
<1>9. ASSUME NEW e \in EntryIds, ProcessRetry(e) PROVE Consistent'
    BY <1>9, <1>a, Zenon DEF ProcessRetry, MoveToZSet, AckDel, NoJob
<1>10. ASSUME NEW e \in EntryIds, ProcessDeadLetter(e) PROVE Consistent'
    BY <1>10, <1>a DEF ProcessDeadLetter, MoveToZSet, AckDelHash, AckDel, NoJob
<1>11. ASSUME NEW e \in EntryIds, JobLost(e) PROVE Consistent'
    BY <1>11, <1>a DEF JobLost, redisVars, NoJob
<1>12. ASSUME NEW z \in ZSets, NEW t \in Tasks, Forward(z, t) PROVE Consistent'
    BY <1>12, <1>a DEF Forward, XAdd, Fresh
<1>13. ASSUME NEW s \in Servers, NEW e \in EntryIds, RecoverClaim(s, e) PROVE Consistent'
    BY <1>13, <1>a DEF RecoverClaim, redisVars
<1>14. ASSUME NEW s \in Servers, RecoverLoad(s) PROVE Consistent'
    BY <1>14, <1>a DEF RecoverLoad, redisVars, Loaded
<1>15. ASSUME NEW s \in Servers, RecoverTrim(s) PROVE Consistent'
    BY <1>15, <1>a, SMTT(20) DEF RecoverTrim, AckDel, NoRec
<1>16. ASSUME NEW s \in Servers, RecoverRetry(s) PROVE Consistent'
    BY <1>16, <1>a DEF RecoverRetry, MoveToZSet, AckDel, NoRec
<1>17. ASSUME NEW s \in Servers, RecoverArchive(s) PROVE Consistent'
    BY <1>17, <1>a DEF RecoverArchive, MoveToZSet, AckDel, NoRec
<1>18. ASSUME NEW s \in Servers, RecoverLost(s) PROVE Consistent'
    BY <1>18, <1>a, SMTT(20) DEF RecoverLost, redisVars, NoRec
<1>19. ASSUME NEW z \in ZSets, NEW t \in Tasks, Trim(z, t) PROVE Consistent'
    BY <1>19, <1>a DEF Trim
<1>20. ASSUME NEW t \in Tasks, RunTask(t) PROVE Consistent'
    BY <1>20, <1>a, SMTT(20) DEF RunTask, XAdd, Fresh
<1>21. ASSUME NEW t \in Tasks, DeleteTask(t) PROVE Consistent'
    BY <1>21, <1>a, SMTT(20) DEF DeleteTask
<1>22. ASSUME NEW t \in Tasks, ReleaseUnique(t) PROVE Consistent'
    BY <1>22, <1>a DEF ReleaseUnique
<1>23. ASSUME NEW t \in Tasks, ReleaseLost(t) PROVE Consistent'
    BY <1>23, <1>a DEF ReleaseLost, redisVars
<1>24. ASSUME NEW k \in Keys, LockExpire(k) PROVE Consistent'
    BY <1>24, <1>a DEF LockExpire
<1>25. CASE UNCHANGED vars
    BY <1>25, <1>a DEF vars
<1> HIDE DEF Consistent
<1>. QED
    BY <1>1, <1>2, <1>3, <1>4, <1>5, <1>6, <1>7, <1>8, <1>9, <1>10, <1>11,
       <1>12, <1>13, <1>14, <1>15, <1>16, <1>17, <1>18, <1>19, <1>20, <1>21,
       <1>22, <1>23, <1>24, <1>25
       DEF Next, ClientStep, ForwarderStep, JanitorStep, InspectorStep, WorkerStep,
           RecoverStep, LockStep

\* The type invariant holds in the empty Redis the system starts from.
LEMMA InitType == Init => TInv
<1> SUFFICES ASSUME Init PROVE TInv
    OBVIOUS
<1>1. /\ body \in [Tasks -> Int] /\ \A t \in Tasks : body[t] = NoBody
      /\ state \in [Tasks -> States \cup {"absent"}]
    BY DEF Init, NoBody
<1>2. /\ entry \in [EntryIds -> Tasks \cup {None}] /\ pel = {}
      /\ zset \in [ZSets -> SUBSET Tasks] /\ owed = {} /\ unlocking = {}
      /\ lock \in [Keys -> Tasks \cup {None}]
    BY DEF Init
<1>3. job \in [EntryIds -> [phase : JobPhases, task : Tasks \cup {None}, retried : Nat]]
    BY DEF Init, NoJob, JobPhases
<1>4. rec \in [Servers -> [phase : RecPhases, entry : EntryIds \cup {None},
                           task : Tasks \cup {None}, retried : Nat]]
    BY DEF Init, NoRec, RecPhases
<1>5. /\ \A e \in EntryIds : job[e].phase = "none"
      /\ \A s \in Servers : rec[s].phase = "none"
    BY DEF Init, NoJob, NoRec
<1>. QED
    BY <1>1, <1>2, <1>3, <1>4, <1>5 DEF TInv, TypeOK, PelLive

\* TaskQueue never leaves its types, and no copy of a message that a worker,
\* the recoverer or Redis holds counts more retries than MaxRetry
\* (Server.process and RDB.Recover both test before they count).
THEOREM TypeCorrect == Spec => []TypeOK
<1>1. Init => TInv
    BY InitType
<1>2. TInv => TypeOK
    BY DEF TInv
<1>. QED
    BY <1>1, <1>2, TypeStep, PTL DEF Spec
=============================================================================
