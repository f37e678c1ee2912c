---------------------------- MODULE UniqueProofs ----------------------------
(***************************************************************************)
(* With leases held (~LeasesLapse) a worker's copy of a message agrees     *)
(* with the stored body, and without operator calls the tasks of a unique  *)
(* key exclude one another, for every value of the other constants.        *)
(*                                                                         *)
(* LInv adds CopiesAgree to the invariant of LeasedProofs: nobody else     *)
(* writes the body of a task in somebody's hands. LockOK, which            *)
(* UniqueInPipeline follows from, also needs that no release of the lock   *)
(* of a task in the pipeline is still on its way.                          *)
(***************************************************************************)
EXTENDS LeasedProofs

\* An entry whose task has no body is what DeleteTask leaves behind.
StreamBody ==
    \A e \in EntryIds :
        entry[e] # None => body[entry[e]] # NoBody \/ "DeleteTask" \in Operator

\* The copy n of a message that a claim in phase p holds of task t.
CopyOK(p, t, n) ==
    /\ p = "orphan" => body[t] = NoBody
    /\ p = "loaded" \/ p = "active" => body[t] = NoBody \/ body[t] = n

CopiesAgree ==
    /\ StreamBody
    /\ \A e \in EntryIds : CopyOK(job[e].phase, job[e].task, job[e].retried)
    /\ \A s \in Servers : CopyOK(rec[s].phase, rec[s].task, rec[s].retried)

LInv == PInv /\ CopiesAgree

\* The lock of a task in the pipeline names it, and no release of it is on its
\* way.
LockOK ==
    \A t \in Tasks :
        UniqueKey[t] # None /\ InPipeline(t) => lock[UniqueKey[t]] = t /\ t \notin unlocking

\* No step writes the body of a task in somebody's hands but theirs, and only
\* DeleteTask takes the body of a task that the stream holds.
LEMMA CopiesStep == LInv /\ [Next]_vars => CopiesAgree'
<1> SUFFICES ASSUME LInv, [Next]_vars PROVE CopiesAgree'
    OBVIOUS
<1>a. /\ body \in [Tasks -> Int]
      /\ entry \in [EntryIds -> Tasks \cup {None}]
      /\ zset \in [ZSets -> SUBSET Tasks]
      /\ job \in [EntryIds -> [phase : JobPhases, task : Tasks \cup {None}, retried : Nat]]
      /\ rec \in [Servers -> [phase : RecPhases, entry : EntryIds \cup {None},
                              task : Tasks \cup {None}, retried : Nat]]
      /\ \A e \in EntryIds :
            job[e].phase # "none" => entry[e] = job[e].task /\ job[e].task \in Tasks
      /\ \A s \in Servers : rec[s].phase # "none" =>
            rec[s].entry \in EntryIds /\ entry[rec[s].entry] = rec[s].task /\ rec[s].task \in Tasks
      /\ \A e \in EntryIds : job[e].phase = "none" => job[e].task = None
      /\ \A s \in Servers : rec[s].phase = "none" => rec[s].task = None
      /\ \A s \in Servers : rec[s].phase # "none" =>
             /\ job[rec[s].entry].phase = "none"
             /\ \A r \in Servers : rec[r].entry = rec[s].entry => r = s
      /\ SinglePlace /\ ZSetsAgree /\ CopiesAgree
    BY DEF LInv, PInv, TInv, TypeOK, PelLive, ClaimsHold, JobsHold, RecsHold, Budgeted
<1> USE NoneAssumption
   DEF CopiesAgree, CopyOK, StreamBody, ZSetsAgree, SinglePlace, InStream, InSomeZSet,
       ZSets, NoBody
<1>1. ASSUME NEW t \in Tasks, Enqueue(t) PROVE CopiesAgree'
    BY <1>1, <1>a DEF Enqueue, XAdd, Fresh, WriteHash, Quiescent
<1>2. ASSUME NEW t \in Tasks, Schedule(t) PROVE CopiesAgree'
    BY <1>2, <1>a DEF Schedule, WriteHash, Quiescent
<1>3. ASSUME NEW e \in EntryIds, XReadGroup(e) PROVE CopiesAgree'
    BY <1>3, <1>a DEF XReadGroup
<1>4. ASSUME NEW e \in EntryIds, LoadBody(e) PROVE CopiesAgree'
    BY <1>4, <1>a DEF LoadBody, redisVars, Loaded
<1>5. ASSUME NEW e \in EntryIds, TrimOrphan(e) PROVE CopiesAgree'
    BY <1>5, <1>a DEF TrimOrphan, AckDel, NoJob
<1>6. ASSUME NEW e \in EntryIds, MarkActive(e) PROVE CopiesAgree'
    BY <1>6, <1>a DEF MarkActive
<1>7. ASSUME NEW e \in EntryIds, Requeue(e) PROVE CopiesAgree'
  <2>1. /\ job[e].task \in Tasks /\ entry[e] = job[e].task
        /\ body' = body /\ rec' = rec /\ job' = [job EXCEPT ![e] = NoJob]
    BY <1>7, <1>a DEF Requeue
  <2>2. StreamBody'
    BY <1>7, <1>a, <2>1 DEF Requeue
  <2>. QED
    BY <1>a, <2>1, <2>2 DEF NoJob
<1>8. ASSUME NEW e \in EntryIds, ProcessSuccess(e) PROVE CopiesAgree'
    BY <1>8, <1>a DEF ProcessSuccess, MoveToZSet, AckDelHash, AckDel, WriteHash, DelHash, NoJob
<1>9. ASSUME NEW e \in EntryIds, ProcessRetry(e) PROVE CopiesAgree'
    BY <1>9, <1>a DEF ProcessRetry, MoveToZSet, AckDel, WriteHash, NoJob
<1>10. ASSUME NEW e \in EntryIds, ProcessDeadLetter(e) PROVE CopiesAgree'
  <2>1. CASE job[e].task \in NoArchive
    BY <1>10, <1>a, <2>1 DEF ProcessDeadLetter, AckDelHash, AckDel, DelHash, NoJob
  <2>2. CASE job[e].task \notin NoArchive
    BY <1>10, <1>a, <2>2 DEF ProcessDeadLetter, MoveToZSet, AckDel, WriteHash, NoJob
  <2>. QED
    BY <2>1, <2>2
<1>11. ASSUME NEW e \in EntryIds, JobLost(e) PROVE CopiesAgree'
    BY <1>11, <1>a DEF JobLost, redisVars, NoJob
<1>12. ASSUME NEW z \in ZSets, NEW t \in Tasks, Forward(z, t) PROVE CopiesAgree'
    BY <1>12, <1>a DEF Forward, XAdd, Fresh
<1>13. ASSUME NEW s \in Servers, NEW e \in EntryIds, RecoverClaim(s, e) PROVE CopiesAgree'
    BY <1>13, <1>a DEF RecoverClaim, redisVars
<1>14. ASSUME NEW s \in Servers, RecoverLoad(s) PROVE CopiesAgree'
    BY <1>14, <1>a DEF RecoverLoad, redisVars, Loaded
<1>15. ASSUME NEW s \in Servers, RecoverTrim(s) PROVE CopiesAgree'
    BY <1>15, <1>a DEF RecoverTrim, AckDel, NoRec
<1>16. ASSUME NEW s \in Servers, RecoverRetry(s) PROVE CopiesAgree'
    BY <1>16, <1>a, SMTT(20) DEF RecoverRetry, MoveToZSet, AckDel, WriteHash, NoRec
<1>17. ASSUME NEW s \in Servers, RecoverArchive(s) PROVE CopiesAgree'
    BY <1>17, <1>a DEF RecoverArchive, MoveToZSet, AckDel, WriteHash, NoRec
<1>18. ASSUME NEW s \in Servers, RecoverLost(s) PROVE CopiesAgree'
    BY <1>18, <1>a DEF RecoverLost, redisVars, NoRec
<1>19. ASSUME NEW z \in ZSets, NEW t \in Tasks, Trim(z, t) PROVE CopiesAgree'
    BY <1>19, <1>a DEF Trim, DelHash
<1>20. ASSUME NEW t \in Tasks, RunTask(t) PROVE CopiesAgree'
    BY <1>20, <1>a DEF RunTask, XAdd, Fresh
<1>21. ASSUME NEW t \in Tasks, DeleteTask(t) PROVE CopiesAgree'
    BY <1>21, <1>a DEF DeleteTask, DelHash
<1>22. ASSUME NEW t \in Tasks, ReleaseUnique(t) PROVE CopiesAgree'
    BY <1>22, <1>a DEF ReleaseUnique
<1>23. ASSUME NEW t \in Tasks, ReleaseLost(t) PROVE CopiesAgree'
    BY <1>23, <1>a DEF ReleaseLost, redisVars
<1>24. ASSUME NEW k \in Keys, LockExpire(k) PROVE CopiesAgree'
    BY <1>24, <1>a DEF LockExpire
<1>25. CASE UNCHANGED vars
    BY <1>25, <1>a DEF vars
<1> HIDE DEF CopiesAgree
<1>. QED
    BY <1>1, <1>2, <1>3, <1>4, <1>5, <1>6, <1>7, <1>8, <1>9, <1>10, <1>11,
       <1>12, <1>13, <1>14, <1>15, <1>16, <1>17, <1>18, <1>19, <1>20, <1>21,
       <1>22, <1>23, <1>24, <1>25
       DEF Next, ClientStep, ForwarderStep, JanitorStep, InspectorStep, WorkerStep,
           RecoverStep, LockStep

\* Without operator calls, the lock of a task stays from the SET NX that admits
\* it until the task has left the pipeline, whatever stale release comes late.
LEMMA UniqueStep == Operator = {} /\ LInv /\ ~LeasesLapse /\ LockOK /\ [Next]_vars => LockOK'
<1> SUFFICES ASSUME Operator = {}, ~LeasesLapse, LInv, LockOK, [Next]_vars PROVE LockOK'
    OBVIOUS
<1>a. /\ body \in [Tasks -> Int]
      /\ entry \in [EntryIds -> Tasks \cup {None}]
      /\ zset \in [ZSets -> SUBSET Tasks]
      /\ job \in [EntryIds -> [phase : JobPhases, task : Tasks \cup {None}, retried : Nat]]
      /\ rec \in [Servers -> [phase : RecPhases, entry : EntryIds \cup {None},
                              task : Tasks \cup {None}, retried : Nat]]
      /\ \A e \in EntryIds :
            job[e].phase # "none" => entry[e] = job[e].task /\ job[e].task \in Tasks
      /\ \A s \in Servers : rec[s].phase # "none" =>
            rec[s].entry \in EntryIds /\ entry[rec[s].entry] = rec[s].task /\ rec[s].task \in Tasks
      /\ lock \in [Keys -> Tasks \cup {None}] /\ unlocking \subseteq Tasks
      /\ Operator = {} /\ ~LeasesLapse
      /\ SinglePlace /\ LockOK
      /\ \A e \in EntryIds : entry[e] # None => body[entry[e]] # NoBody
    BY
       DEF LInv, PInv, TInv, TypeOK, PelLive, ClaimsHold, JobsHold, RecsHold, Budgeted,
           CopiesAgree, StreamBody
<1> USE NoneAssumption, TaskAssumption
   DEF LockOK, InPipeline, SinglePlace, InStream, InSomeZSet, ZSets, NoBody
<1>1. ASSUME NEW t \in Tasks, Enqueue(t) PROVE LockOK'
    BY <1>1, <1>a DEF Enqueue, AcquireUnique, XAdd, Fresh, WriteHash, ZRem, Quiescent
<1>2. ASSUME NEW t \in Tasks, Schedule(t) PROVE LockOK'
    BY <1>2, <1>a DEF Schedule, AcquireUnique, WriteHash, Quiescent
<1>3. ASSUME NEW e \in EntryIds, XReadGroup(e) PROVE LockOK'
    BY <1>3, <1>a DEF XReadGroup
<1>4. ASSUME NEW e \in EntryIds, LoadBody(e) PROVE LockOK'
    BY <1>4, <1>a DEF LoadBody, redisVars, Loaded
<1>5. ASSUME NEW e \in EntryIds, TrimOrphan(e) PROVE LockOK'
    BY <1>5, <1>a DEF TrimOrphan, AckDel
<1>6. ASSUME NEW e \in EntryIds, MarkActive(e) PROVE LockOK'
    BY <1>6, <1>a DEF MarkActive
<1>7. ASSUME NEW e \in EntryIds, Requeue(e) PROVE LockOK'
    BY <1>7, <1>a DEF Requeue, Fresh
<1>8. ASSUME NEW e \in EntryIds, ProcessSuccess(e) PROVE LockOK'
    BY <1>8, <1>a
       DEF ProcessSuccess, ReleaseLater, MoveToZSet, AckDelHash, AckDel, WriteHash, DelHash, ZAdd
<1>9. ASSUME NEW e \in EntryIds, ProcessRetry(e) PROVE LockOK'
    BY <1>9, <1>a DEF ProcessRetry, MoveToZSet, AckDel, WriteHash, ZAdd
<1>10. ASSUME NEW e \in EntryIds, ProcessDeadLetter(e) PROVE LockOK'
    BY <1>10, <1>a
       DEF ProcessDeadLetter, ReleaseLater, MoveToZSet, AckDelHash, AckDel, WriteHash,
           DelHash, ZAdd
<1>11. ASSUME NEW e \in EntryIds, JobLost(e) PROVE LockOK'
    BY <1>11, <1>a DEF JobLost, redisVars
<1>12. ASSUME NEW z \in ZSets, NEW t \in Tasks, Forward(z, t) PROVE LockOK'
    BY <1>12, <1>a DEF Forward, XAdd, Fresh, ZRem
<1>13. ASSUME NEW s \in Servers, NEW e \in EntryIds, RecoverClaim(s, e) PROVE LockOK'
    BY <1>13, <1>a DEF RecoverClaim, redisVars
<1>14. ASSUME NEW s \in Servers, RecoverLoad(s) PROVE LockOK'
    BY <1>14, <1>a DEF RecoverLoad, redisVars, Loaded
<1>15. ASSUME NEW s \in Servers, RecoverTrim(s) PROVE LockOK'
    BY <1>15, <1>a DEF RecoverTrim, AckDel
<1>16. ASSUME NEW s \in Servers, RecoverRetry(s) PROVE LockOK'
    BY <1>16, <1>a DEF RecoverRetry, MoveToZSet, AckDel, WriteHash, ZAdd
<1>17. ASSUME NEW s \in Servers, RecoverArchive(s) PROVE LockOK'
    BY <1>17, <1>a DEF RecoverArchive, ReleaseLater, MoveToZSet, AckDel, WriteHash, ZAdd
<1>18. ASSUME NEW s \in Servers, RecoverLost(s) PROVE LockOK'
    BY <1>18, <1>a DEF RecoverLost, redisVars
<1>19. ASSUME NEW z \in ZSets, NEW t \in Tasks, Trim(z, t) PROVE LockOK'
    BY <1>19, <1>a DEF Trim, DelHash, ZRem
<1>20. ASSUME NEW t \in Tasks, RunTask(t) PROVE LockOK'
    BY <1>20, <1>a DEF RunTask, XAdd, Fresh, ZRem
<1>21. ASSUME NEW t \in Tasks, DeleteTask(t) PROVE LockOK'
    BY <1>21, <1>a DEF DeleteTask, DelHash, ZRem
<1>22. ASSUME NEW t \in Tasks, ReleaseUnique(t) PROVE LockOK'
    BY <1>22, <1>a DEF ReleaseUnique
<1>23. ASSUME NEW t \in Tasks, ReleaseLost(t) PROVE LockOK'
    BY <1>23, <1>a DEF ReleaseLost, redisVars
<1>24. ASSUME NEW k \in Keys, LockExpire(k) PROVE LockOK'
    BY <1>24, <1>a DEF LockExpire
<1>25. CASE UNCHANGED vars
    BY <1>25, <1>a DEF vars
<1> HIDE DEF LockOK
<1>. QED
    BY <1>1, <1>2, <1>3, <1>4, <1>5, <1>6, <1>7, <1>8, <1>9, <1>10, <1>11,
       <1>12, <1>13, <1>14, <1>15, <1>16, <1>17, <1>18, <1>19, <1>20, <1>21,
       <1>22, <1>23, <1>24, <1>25
       DEF Next, ClientStep, ForwarderStep, JanitorStep, InspectorStep, WorkerStep,
           RecoverStep, LockStep

\* An empty queue satisfies the invariant.
LEMMA LInit == Init => LInv /\ LockOK
<1> SUFFICES ASSUME Init PROVE LInv /\ LockOK
    OBVIOUS
<1>1. PInv
    BY PInit
<1>2. CopiesAgree
    BY NoneAssumption DEF Init, CopiesAgree, CopyOK, StreamBody, NoJob, NoRec
<1>3. LockOK
    BY NoneAssumption DEF Init, LockOK, InPipeline, InStream, InSomeZSet, ZSets
<1>. QED
    BY <1>1, <1>2, <1>3 DEF LInv

\* The invariant is inductive while the leases are held.
LEMMA LStep == ~LeasesLapse /\ LInv /\ [Next]_vars => LInv'
  BY PStep, CopiesStep DEF LInv

\* It holds in every state, which is what the refinement proof starts from.
THEOREM Leased == ~LeasesLapse => (Spec => []LInv)
<1> SUFFICES ASSUME ~LeasesLapse PROVE Spec => []LInv
    OBVIOUS
<1>1. Init => LInv
    BY LInit
<1>2. LInv /\ [Next]_vars => LInv'
    BY LStep
<1>. QED
    BY <1>1, <1>2, PTL DEF Spec

\* WithUnique keeps the tasks of a key apart for as long as nobody re-runs or
\* deletes a task by hand.
THEOREM UniqueKept == ~LeasesLapse /\ Operator = {} => (Spec => []UniqueInPipeline)
<1> SUFFICES ASSUME ~LeasesLapse, Operator = {} PROVE Spec => []UniqueInPipeline
    OBVIOUS
<1>1. Init => LInv /\ LockOK
    BY LInit
<1>2. (LInv /\ LockOK) /\ [Next]_vars => (LInv /\ LockOK)'
    BY LStep, UniqueStep
<1>3. LInv /\ LockOK => UniqueInPipeline
    BY DEF LockOK, UniqueInPipeline
<1>. QED
    BY <1>1, <1>2, <1>3, PTL DEF Spec
=============================================================================
