---------------------------- MODULE LeasedProofs ----------------------------
(***************************************************************************)
(* With leases held by their heartbeats (~LeasesLapse) TaskQueue keeps a   *)
(* task in one place and in one pair of hands, for every set of tasks,     *)
(* entries, servers and keys, every retry budget and both operator calls.  *)
(*                                                                         *)
(* None of the properties is inductive. PInv adds to the types of          *)
(* TaskQueueProofs that a claim is on a delivered entry of its own task,   *)
(* and that an entry has one claim (ClaimsHold): it is why the worker that *)
(* acks an entry takes the only copy of the task out of the stream.        *)
(***************************************************************************)
EXTENDS TaskQueueProofs

\* A claim is on an entry of its task that was delivered and is not acked;
\* there is one claim on an entry.
JobsHold ==
    \A e \in EntryIds :
        IF job[e].phase = "none" THEN job[e].task = None
        ELSE e \in pel /\ entry[e] = job[e].task

RecsHold ==
    \A s \in Servers :
        IF rec[s].phase = "none" THEN rec[s].entry = None /\ rec[s].task = None
        ELSE /\ rec[s].entry \in pel /\ entry[rec[s].entry] = rec[s].task
             /\ job[rec[s].entry].phase = "none"
             /\ \A r \in Servers : rec[r].entry = rec[s].entry => r = s

ClaimsHold == JobsHold /\ RecsHold

PInv == TInv /\ HashOK /\ ClaimsHold /\ SinglePlace /\ ZSetsAgree

\* While the heartbeats hold the leases the recoverer claims nothing that a
\* worker or another recoverer has, and an ack comes from the one claim.
LEMMA ClaimsStep == ~LeasesLapse /\ PInv /\ [Next]_vars => ClaimsHold'
<1> SUFFICES ASSUME ~LeasesLapse, PInv, [Next]_vars PROVE ClaimsHold'
    OBVIOUS
<1>a. /\ ~LeasesLapse
      /\ entry \in [EntryIds -> Tasks \cup {None}]
      /\ pel \subseteq EntryIds /\ \A e \in pel : entry[e] # None
      /\ job \in [EntryIds -> [phase : JobPhases, task : Tasks \cup {None}, retried : Nat]]
      /\ rec \in [Servers -> [phase : RecPhases, entry : EntryIds \cup {None},
                              task : Tasks \cup {None}, retried : Nat]]
      /\ ClaimsHold
    BY DEF PInv, TInv, TypeOK, PelLive
<1> USE NoneAssumption DEF ClaimsHold, JobsHold, RecsHold
<1>1. ASSUME NEW t \in Tasks, Enqueue(t) PROVE ClaimsHold'
    BY <1>1, <1>a DEF Enqueue, XAdd, Fresh
<1>2. ASSUME NEW t \in Tasks, Schedule(t) PROVE ClaimsHold'
    BY <1>2, <1>a DEF Schedule
<1>3. ASSUME NEW e \in EntryIds, XReadGroup(e) PROVE ClaimsHold'
    BY <1>3, <1>a DEF XReadGroup
<1>4. ASSUME NEW e \in EntryIds, LoadBody(e) PROVE ClaimsHold'
    BY <1>4, <1>a DEF LoadBody, redisVars, Loaded
<1>5. ASSUME NEW e \in EntryIds, TrimOrphan(e) PROVE ClaimsHold'
    BY <1>5, <1>a DEF TrimOrphan, AckDel, NoJob
<1>6. ASSUME NEW e \in EntryIds, MarkActive(e) PROVE ClaimsHold'
    BY <1>6, <1>a DEF MarkActive
<1>7. ASSUME NEW e \in EntryIds, Requeue(e) PROVE ClaimsHold'
    BY <1>7, <1>a DEF Requeue, Fresh, NoJob
<1>8. ASSUME NEW e \in EntryIds, ProcessSuccess(e) PROVE ClaimsHold'
    BY <1>8, <1>a DEF ProcessSuccess, MoveToZSet, AckDelHash, AckDel, NoJob
<1>9. ASSUME NEW e \in EntryIds, ProcessRetry(e) PROVE ClaimsHold'
    BY <1>9, <1>a DEF ProcessRetry, MoveToZSet, AckDel, NoJob
<1>10. ASSUME NEW e \in EntryIds, ProcessDeadLetter(e) PROVE ClaimsHold'
    BY <1>10, <1>a DEF ProcessDeadLetter, MoveToZSet, AckDelHash, AckDel, NoJob
<1>11. ASSUME NEW e \in EntryIds, JobLost(e) PROVE ClaimsHold'
    BY <1>11, <1>a DEF JobLost, redisVars, NoJob
<1>12. ASSUME NEW z \in ZSets, NEW t \in Tasks, Forward(z, t) PROVE ClaimsHold'
    BY <1>12, <1>a DEF Forward, XAdd, Fresh
<1>13. ASSUME NEW s \in Servers, NEW e \in EntryIds, RecoverClaim(s, e) PROVE ClaimsHold'
    BY <1>13, <1>a DEF RecoverClaim, redisVars, LeaseHeld
<1>14. ASSUME NEW s \in Servers, RecoverLoad(s) PROVE ClaimsHold'
    BY <1>14, <1>a DEF RecoverLoad, redisVars, Loaded
<1>15. ASSUME NEW s \in Servers, RecoverTrim(s) PROVE ClaimsHold'
    BY <1>15, <1>a DEF RecoverTrim, AckDel, NoRec
<1>16. ASSUME NEW s \in Servers, RecoverRetry(s) PROVE ClaimsHold'
    BY <1>16, <1>a DEF RecoverRetry, MoveToZSet, AckDel, NoRec
<1>17. ASSUME NEW s \in Servers, RecoverArchive(s) PROVE ClaimsHold'
    BY <1>17, <1>a DEF RecoverArchive, MoveToZSet, AckDel, NoRec
<1>18. ASSUME NEW s \in Servers, RecoverLost(s) PROVE ClaimsHold'
    BY <1>18, <1>a DEF RecoverLost, redisVars, NoRec
<1>19. ASSUME NEW z \in ZSets, NEW t \in Tasks, Trim(z, t) PROVE ClaimsHold'
    BY <1>19, <1>a DEF Trim
<1>20. ASSUME NEW t \in Tasks, RunTask(t) PROVE ClaimsHold'
    BY <1>20, <1>a DEF RunTask, XAdd, Fresh
<1>21. ASSUME NEW t \in Tasks, DeleteTask(t) PROVE ClaimsHold'
    BY <1>21, <1>a DEF DeleteTask
<1>22. ASSUME NEW t \in Tasks, ReleaseUnique(t) PROVE ClaimsHold'
    BY <1>22, <1>a DEF ReleaseUnique
<1>23. ASSUME NEW t \in Tasks, ReleaseLost(t) PROVE ClaimsHold'
    BY <1>23, <1>a DEF ReleaseLost, redisVars
<1>24. ASSUME NEW k \in Keys, LockExpire(k) PROVE ClaimsHold'
    BY <1>24, <1>a DEF LockExpire
<1>25. CASE UNCHANGED vars
    BY <1>25, <1>a DEF vars
<1> HIDE DEF ClaimsHold
<1>. QED
    BY <1>1, <1>2, <1>3, <1>4, <1>5, <1>6, <1>7, <1>8, <1>9, <1>10, <1>11,
       <1>12, <1>13, <1>14, <1>15, <1>16, <1>17, <1>18, <1>19, <1>20, <1>21,
       <1>22, <1>23, <1>24, <1>25
       DEF Next, ClientStep, ForwarderStep, JanitorStep, InspectorStep, WorkerStep,
           RecoverStep, LockStep

\* Every script that puts a task somewhere takes it away from where it was.
LEMMA PlaceStep == PInv /\ [Next]_vars => SinglePlace'
<1> SUFFICES ASSUME PInv, [Next]_vars PROVE SinglePlace'
    OBVIOUS
<1>a. /\ entry \in [EntryIds -> Tasks \cup {None}]
      /\ zset \in [ZSets -> SUBSET Tasks]
      /\ job \in [EntryIds -> [phase : JobPhases, task : Tasks \cup {None}, retried : Nat]]
      /\ \A e \in EntryIds :
            job[e].phase # "none" => entry[e] = job[e].task /\ job[e].task \in Tasks
      /\ \A s \in Servers : rec[s].phase # "none" =>
            rec[s].entry \in EntryIds /\ entry[rec[s].entry] = rec[s].task /\ rec[s].task \in Tasks
      /\ SinglePlace
    BY DEF PInv, TInv, TypeOK, PelLive, ClaimsHold, JobsHold, RecsHold, Budgeted
<1> USE NoneAssumption DEF SinglePlace, InStream, InSomeZSet, ZSets
<1>1. ASSUME NEW t \in Tasks, Enqueue(t) PROVE SinglePlace'
    BY <1>1, <1>a DEF Enqueue, XAdd, Fresh, ZRem, Quiescent
<1>2. ASSUME NEW t \in Tasks, Schedule(t) PROVE SinglePlace'
    BY <1>2, <1>a DEF Schedule, Quiescent
<1>3. ASSUME NEW e \in EntryIds, XReadGroup(e) PROVE SinglePlace'
    BY <1>3, <1>a DEF XReadGroup
<1>4. ASSUME NEW e \in EntryIds, LoadBody(e) PROVE SinglePlace'
    BY <1>4, <1>a DEF LoadBody, redisVars
<1>5. ASSUME NEW e \in EntryIds, TrimOrphan(e) PROVE SinglePlace'
    BY <1>5, <1>a DEF TrimOrphan, AckDel
<1>6. ASSUME NEW e \in EntryIds, MarkActive(e) PROVE SinglePlace'
    BY <1>6, <1>a DEF MarkActive
<1>7. ASSUME NEW e \in EntryIds, Requeue(e) PROVE SinglePlace'
    BY <1>7, <1>a DEF Requeue, Fresh
<1>8. ASSUME NEW e \in EntryIds, ProcessSuccess(e) PROVE SinglePlace'
    BY <1>8, <1>a DEF ProcessSuccess, MoveToZSet, AckDelHash, AckDel, ZAdd
<1>9. ASSUME NEW e \in EntryIds, ProcessRetry(e) PROVE SinglePlace'
    BY <1>9, <1>a DEF ProcessRetry, MoveToZSet, AckDel, ZAdd
<1>10. ASSUME NEW e \in EntryIds, ProcessDeadLetter(e) PROVE SinglePlace'
    BY <1>10, <1>a, SMTT(20) DEF ProcessDeadLetter, MoveToZSet, AckDelHash, AckDel, ZAdd
<1>11. ASSUME NEW e \in EntryIds, JobLost(e) PROVE SinglePlace'
    BY <1>11, <1>a DEF JobLost, redisVars
<1>12. ASSUME NEW z \in ZSets, NEW t \in Tasks, Forward(z, t) PROVE SinglePlace'
    BY <1>12, <1>a DEF Forward, XAdd, Fresh, ZRem
<1>13. ASSUME NEW s \in Servers, NEW e \in EntryIds, RecoverClaim(s, e) PROVE SinglePlace'
    BY <1>13, <1>a DEF RecoverClaim, redisVars
<1>14. ASSUME NEW s \in Servers, RecoverLoad(s) PROVE SinglePlace'
    BY <1>14, <1>a DEF RecoverLoad, redisVars
<1>15. ASSUME NEW s \in Servers, RecoverTrim(s) PROVE SinglePlace'
    BY <1>15, <1>a DEF RecoverTrim, AckDel
<1>16. ASSUME NEW s \in Servers, RecoverRetry(s) PROVE SinglePlace'
    BY <1>16, <1>a DEF RecoverRetry, MoveToZSet, AckDel, ZAdd
<1>17. ASSUME NEW s \in Servers, RecoverArchive(s) PROVE SinglePlace'
    BY <1>17, <1>a DEF RecoverArchive, MoveToZSet, AckDel, ZAdd
<1>18. ASSUME NEW s \in Servers, RecoverLost(s) PROVE SinglePlace'
    BY <1>18, <1>a DEF RecoverLost, redisVars
<1>19. ASSUME NEW z \in ZSets, NEW t \in Tasks, Trim(z, t) PROVE SinglePlace'
    BY <1>19, <1>a DEF Trim, ZRem
<1>20. ASSUME NEW t \in Tasks, RunTask(t) PROVE SinglePlace'
    BY <1>20, <1>a DEF RunTask, XAdd, Fresh, ZRem
<1>21. ASSUME NEW t \in Tasks, DeleteTask(t) PROVE SinglePlace'
    BY <1>21, <1>a DEF DeleteTask, ZRem
<1>22. ASSUME NEW t \in Tasks, ReleaseUnique(t) PROVE SinglePlace'
    BY <1>22, <1>a DEF ReleaseUnique
<1>23. ASSUME NEW t \in Tasks, ReleaseLost(t) PROVE SinglePlace'
    BY <1>23, <1>a DEF ReleaseLost, redisVars
<1>24. ASSUME NEW k \in Keys, LockExpire(k) PROVE SinglePlace'
    BY <1>24, <1>a DEF LockExpire
<1>25. CASE UNCHANGED vars
    BY <1>25, <1>a DEF vars
<1> HIDE DEF SinglePlace
<1>. QED
    BY <1>1, <1>2, <1>3, <1>4, <1>5, <1>6, <1>7, <1>8, <1>9, <1>10, <1>11,
       <1>12, <1>13, <1>14, <1>15, <1>16, <1>17, <1>18, <1>19, <1>20, <1>21,
       <1>22, <1>23, <1>24, <1>25
       DEF Next, ClientStep, ForwarderStep, JanitorStep, InspectorStep, WorkerStep,
           RecoverStep, LockStep

\* Every script that moves a task into a ZSET writes that ZSET into its hash, and
\* no other step writes the hash of a task that a ZSET holds.
LEMMA AgreeStep == PInv /\ [Next]_vars => ZSetsAgree'
<1> SUFFICES ASSUME PInv, [Next]_vars PROVE ZSetsAgree'
    OBVIOUS
<1>a. /\ body \in [Tasks -> Int] /\ state \in [Tasks -> States \cup {"absent"}]
      /\ entry \in [EntryIds -> Tasks \cup {None}]
      /\ zset \in [ZSets -> SUBSET Tasks]
      /\ job \in [EntryIds -> [phase : JobPhases, task : Tasks \cup {None}, retried : Nat]]
      /\ rec \in [Servers -> [phase : RecPhases, entry : EntryIds \cup {None},
                              task : Tasks \cup {None}, retried : Nat]]
      /\ \A e \in EntryIds :
            job[e].phase # "none" => entry[e] = job[e].task /\ job[e].task \in Tasks
      /\ \A s \in Servers : rec[s].phase # "none" =>
            rec[s].entry \in EntryIds /\ entry[rec[s].entry] = rec[s].task /\ rec[s].task \in Tasks
      /\ SinglePlace /\ ZSetsAgree
    BY DEF PInv, TInv, TypeOK, PelLive, ClaimsHold, JobsHold, RecsHold, Budgeted
<1> USE NoneAssumption DEF ZSetsAgree, SinglePlace, InStream, InSomeZSet, ZSets, NoBody
<1>1. ASSUME NEW t \in Tasks, Enqueue(t) PROVE ZSetsAgree'
    BY <1>1, <1>a DEF Enqueue, XAdd, Fresh, WriteHash, ZRem, Quiescent
<1>2. ASSUME NEW t \in Tasks, Schedule(t) PROVE ZSetsAgree'
    BY <1>2, <1>a DEF Schedule, WriteHash, Quiescent
<1>3. ASSUME NEW e \in EntryIds, XReadGroup(e) PROVE ZSetsAgree'
    BY <1>3, <1>a DEF XReadGroup
<1>4. ASSUME NEW e \in EntryIds, LoadBody(e) PROVE ZSetsAgree'
    BY <1>4, <1>a DEF LoadBody, redisVars
<1>5. ASSUME NEW e \in EntryIds, TrimOrphan(e) PROVE ZSetsAgree'
    BY <1>5, <1>a DEF TrimOrphan, AckDel
<1>6. ASSUME NEW e \in EntryIds, MarkActive(e) PROVE ZSetsAgree'
    BY <1>6, <1>a DEF MarkActive, SetState
<1>7. ASSUME NEW e \in EntryIds, Requeue(e) PROVE ZSetsAgree'
    BY <1>7, <1>a DEF Requeue, SetState, Fresh
<1>8. ASSUME NEW e \in EntryIds, ProcessSuccess(e) PROVE ZSetsAgree'
    BY <1>8, <1>a DEF ProcessSuccess, MoveToZSet, AckDelHash, AckDel, WriteHash, DelHash, ZAdd
<1>9. ASSUME NEW e \in EntryIds, ProcessRetry(e) PROVE ZSetsAgree'
    BY <1>9, <1>a DEF ProcessRetry, MoveToZSet, AckDel, WriteHash, ZAdd
<1>10. ASSUME NEW e \in EntryIds, ProcessDeadLetter(e) PROVE ZSetsAgree'
    BY <1>10, <1>a DEF ProcessDeadLetter, MoveToZSet, AckDelHash, AckDel, WriteHash, DelHash, ZAdd
<1>11. ASSUME NEW e \in EntryIds, JobLost(e) PROVE ZSetsAgree'
    BY <1>11, <1>a DEF JobLost, redisVars
<1>12. ASSUME NEW z \in ZSets, NEW t \in Tasks, Forward(z, t) PROVE ZSetsAgree'
    BY <1>12, <1>a DEF Forward, XAdd, Fresh, SetState, ZRem
<1>13. ASSUME NEW s \in Servers, NEW e \in EntryIds, RecoverClaim(s, e) PROVE ZSetsAgree'
    BY <1>13, <1>a DEF RecoverClaim, redisVars
<1>14. ASSUME NEW s \in Servers, RecoverLoad(s) PROVE ZSetsAgree'
    BY <1>14, <1>a DEF RecoverLoad, redisVars
<1>15. ASSUME NEW s \in Servers, RecoverTrim(s) PROVE ZSetsAgree'
    BY <1>15, <1>a DEF RecoverTrim, AckDel
<1>16. ASSUME NEW s \in Servers, RecoverRetry(s) PROVE ZSetsAgree'
    BY <1>16, <1>a DEF RecoverRetry, MoveToZSet, AckDel, WriteHash, ZAdd
<1>17. ASSUME NEW s \in Servers, RecoverArchive(s) PROVE ZSetsAgree'
    BY <1>17, <1>a DEF RecoverArchive, MoveToZSet, AckDel, WriteHash, ZAdd
<1>18. ASSUME NEW s \in Servers, RecoverLost(s) PROVE ZSetsAgree'
    BY <1>18, <1>a DEF RecoverLost, redisVars
<1>19. ASSUME NEW z \in ZSets, NEW t \in Tasks, Trim(z, t) PROVE ZSetsAgree'
    BY <1>19, <1>a DEF Trim, DelHash, ZRem
<1>20. ASSUME NEW t \in Tasks, RunTask(t) PROVE ZSetsAgree'
    BY <1>20, <1>a DEF RunTask, XAdd, Fresh, SetState, ZRem
<1>21. ASSUME NEW t \in Tasks, DeleteTask(t) PROVE ZSetsAgree'
    BY <1>21, <1>a DEF DeleteTask, DelHash, ZRem
<1>22. ASSUME NEW t \in Tasks, ReleaseUnique(t) PROVE ZSetsAgree'
    BY <1>22, <1>a DEF ReleaseUnique
<1>23. ASSUME NEW t \in Tasks, ReleaseLost(t) PROVE ZSetsAgree'
    BY <1>23, <1>a DEF ReleaseLost, redisVars
<1>24. ASSUME NEW k \in Keys, LockExpire(k) PROVE ZSetsAgree'
    BY <1>24, <1>a DEF LockExpire
<1>25. CASE UNCHANGED vars
    BY <1>25, <1>a DEF vars
<1> HIDE DEF ZSetsAgree
<1>. QED
    BY <1>1, <1>2, <1>3, <1>4, <1>5, <1>6, <1>7, <1>8, <1>9, <1>10, <1>11,
       <1>12, <1>13, <1>14, <1>15, <1>16, <1>17, <1>18, <1>19, <1>20, <1>21,
       <1>22, <1>23, <1>24, <1>25
       DEF Next, ClientStep, ForwarderStep, JanitorStep, InspectorStep, WorkerStep,
           RecoverStep, LockStep

\* A task in two pairs of hands would have two entries, or one with two claims.
LEMMA Holders == PInv => OneHolder
<1> SUFFICES ASSUME PInv PROVE OneHolder
    OBVIOUS
<1>1. \A e \in EntryIds :
          job[e].task # None => entry[e] = job[e].task /\ job[e].phase # "none"
    BY DEF PInv, ClaimsHold, JobsHold
<1>2. \A s \in Servers : rec[s].task # None =>
          /\ rec[s].entry \in EntryIds /\ entry[rec[s].entry] = rec[s].task
          /\ job[rec[s].entry].phase = "none"
          /\ \A r \in Servers : rec[r].entry = rec[s].entry => r = s
    BY DEF PInv, TInv, TypeOK, ClaimsHold, RecsHold
<1>3. SinglePlace
    BY DEF PInv
<1>. QED
    BY <1>1, <1>2, <1>3 DEF SinglePlace, OneHolder

\* An empty queue satisfies the invariant.
LEMMA PInit == Init => PInv
<1> SUFFICES ASSUME Init PROVE PInv
    OBVIOUS
<1>1. TInv
    BY InitType
<1>2. HashOK /\ ClaimsHold
    BY NoneAssumption DEF Init, HashOK, ClaimsHold, JobsHold, RecsHold, NoJob, NoRec
<1>3. SinglePlace /\ ZSetsAgree
    BY NoneAssumption DEF Init, SinglePlace, ZSetsAgree, InStream, InSomeZSet, ZSets
<1>. QED
    BY <1>1, <1>2, <1>3 DEF PInv

\* The invariant is inductive while the leases are held.
LEMMA PStep == ~LeasesLapse /\ PInv /\ [Next]_vars => PInv'
  BY TypeStep, HashStep, ClaimsStep, PlaceStep, AgreeStep DEF PInv

\* While the heartbeats hold the leases a task is in one place, in one pair of
\* hands, and in agreement with its hash, whichever workers, recoverers, loops
\* and operators interleave, crash or lose their calls.
THEOREM MovedNotCopied == ~LeasesLapse => (Spec => [](SinglePlace /\ OneHolder /\ ZSetsAgree))
<1> SUFFICES ASSUME ~LeasesLapse PROVE Spec => [](SinglePlace /\ OneHolder /\ ZSetsAgree)
    OBVIOUS
<1>1. Init => PInv
    BY PInit
<1>2. PInv /\ [Next]_vars => PInv'
    BY PStep
<1>3. PInv => SinglePlace /\ OneHolder /\ ZSetsAgree
    BY Holders DEF PInv
<1>. QED
    BY <1>1, <1>2, <1>3, PTL DEF Spec
=============================================================================
