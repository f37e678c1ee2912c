--------------------------- MODULE OutcomeProofs ---------------------------
(***************************************************************************)
(* The steps of TaskQueue that end a claim are steps of TaskLifecycle      *)
(* while the leases are held: a success, a retry, a dead letter, a         *)
(* recovery, and a task given back by a crash or a shutdown.               *)
(***************************************************************************)
EXTENDS PlaceProofs

\* Done, with or without retention, is the success of the run.
LEMMA SuccessRefines ==
    ASSUME LInv, LInv', NEW e \in EntryIds, ProcessSuccess(e)
    PROVE  \E t \in Tasks : Lifecycle!Succeed(t)
<1>1. job[e].phase = "active" /\ job' = [job EXCEPT ![e] = NoJob] /\ rec' = rec
    BY DEF ProcessSuccess
<1>2. PICK t \in Tasks, n \in Nat : t = job[e].task /\ n = job[e].retried
    BY <1>1, JobTyped
<1>3. entry[e] = t /\ ~InSomeZSet(t) /\ Place(t, "held", n)
    BY <1>1, <1>2, JobClaim, JobHeld
<1>4. ~Held(t)' /\ \A u \in Tasks \ {t} : HandsKept(u)
    BY <1>1, <1>2, JobEnds, Zenon
<1>5. CASE t \in Retained
  <2>1. MoveToZSet(e, t, n, "completed")
    BY <1>2, <1>5 DEF ProcessSuccess
  <2>2. OthersStay(t) /\ Place(t, "completed", n)'
    BY <1>3, <1>4, <2>1, MovePlaces DEF ZSets
  <2>3. Spent(t) = n /\ Lifecycle!Move(t, {"held"}, "completed", n)
    BY <1>3, <2>2, MoveRefines
  <2>. QED
    BY <1>5, <2>3 DEF Lifecycle!Succeed
<1>6. CASE t \notin Retained
  <2>1. AckDelHash(e, t)
    BY <1>2, <1>6 DEF ProcessSuccess
  <2>2. OthersStay(t) /\ Place(t, "absent", 0)'
    BY <1>3, <1>4, <2>1, DonePlaces
  <2>3. Lifecycle!Move(t, {"held"}, "absent", 0)
    BY <1>3, <2>2, MoveRefines
  <2>. QED
    BY <1>6, <2>3 DEF Lifecycle!Succeed
<1>. QED
    BY <1>5, <1>6

\* Retry spends one of the task's retries.
LEMMA RetryRefines ==
    ASSUME LInv, LInv', NEW e \in EntryIds, ProcessRetry(e)
    PROVE  \E t \in Tasks : Lifecycle!Fail(t)
<1>1. job[e].phase = "active" /\ job' = [job EXCEPT ![e] = NoJob] /\ rec' = rec
    BY DEF ProcessRetry
<1>2. PICK t \in Tasks, n \in Nat : t = job[e].task /\ n = job[e].retried
    BY <1>1, JobTyped
<1>3. entry[e] = t /\ Place(t, "held", n)
    BY <1>1, <1>2, JobClaim, JobHeld
<1>4. \A u \in Tasks \ {t} : HandsKept(u)
    BY <1>1, <1>2, JobEnds, Zenon
<1>5. n < MaxRetry[t] /\ MoveToZSet(e, t, n + 1, "retry")
    BY <1>2 DEF ProcessRetry
<1>6. OthersStay(t) /\ Place(t, "retry", n + 1)'
    BY <1>3, <1>4, <1>5, MovePlaces DEF ZSets
<1>7. Spent(t) = n /\ Lifecycle!Move(t, {"held"}, "retry", n + 1)
    BY <1>3, <1>6, MoveRefines
<1>. QED
    BY <1>5, <1>7 DEF Lifecycle!Fail

\* Archive or discard ends the task, whichever WithDeadLetterDiscard asks for.
LEMMA DeadLetterRefines ==
    ASSUME LInv, LInv', NEW e \in EntryIds, ProcessDeadLetter(e)
    PROVE  \E t \in Tasks : Lifecycle!Die(t)
<1>1. job[e].phase = "active" /\ job' = [job EXCEPT ![e] = NoJob] /\ rec' = rec
    BY DEF ProcessDeadLetter
<1>2. PICK t \in Tasks, n \in Nat : t = job[e].task /\ n = job[e].retried
    BY <1>1, JobTyped
<1>3. entry[e] = t /\ ~InSomeZSet(t) /\ Place(t, "held", n)
    BY <1>1, <1>2, JobClaim, JobHeld
<1>4. ~Held(t)' /\ \A u \in Tasks \ {t} : HandsKept(u)
    BY <1>1, <1>2, JobEnds, Zenon
<1>5. CASE t \notin NoArchive
  <2>1. MoveToZSet(e, t, n, "archived")
    BY <1>2, <1>5 DEF ProcessDeadLetter
  <2>2. OthersStay(t) /\ Place(t, "archived", n)'
    BY <1>3, <1>4, <2>1, MovePlaces DEF ZSets
  <2>3. Spent(t) = n /\ Lifecycle!Move(t, {"held"}, "archived", n)
    BY <1>3, <2>2, MoveRefines
  <2>. QED
    BY <2>3 DEF Lifecycle!Die
<1>6. CASE t \in NoArchive
  <2>1. AckDelHash(e, t)
    BY <1>2, <1>6 DEF ProcessDeadLetter
  <2>2. OthersStay(t) /\ Place(t, "absent", 0)'
    BY <1>3, <1>4, <2>1, DonePlaces
  <2>3. Lifecycle!Move(t, {"held"}, "absent", 0)
    BY <1>3, <2>2, MoveRefines
  <2>. QED
    BY <1>6, <2>3 DEF Lifecycle!Die
<1>. QED
    BY <1>5, <1>6

\* The recoverer's retry and archive are a failure and an end of the run it
\* takes over.
LEMMA RecoverRefines ==
    ASSUME LInv, LInv', NEW s \in Servers, RecoverRetry(s) \/ RecoverArchive(s)
    PROVE  \E t \in Tasks : Lifecycle!Fail(t) \/ Lifecycle!Die(t)
<1>1. rec[s].phase = "loaded" /\ rec' = [rec EXCEPT ![s] = NoRec] /\ job' = job
    BY DEF RecoverRetry, RecoverArchive
<1>2. PICK t \in Tasks, n \in Nat : t = rec[s].task /\ n = rec[s].retried
    BY <1>1, RecTyped
<1>3. PICK e \in EntryIds : e = rec[s].entry /\ entry[e] = t
    BY <1>1, <1>2, RecClaim
<1>4. Place(t, "held", n) /\ \A u \in Tasks \ {t} : HandsKept(u)
    BY <1>1, <1>2, RecHeld, RecEnds, Zenon
<1>5. CASE RecoverRetry(s)
  <2>1. n < MaxRetry[t] /\ MoveToZSet(e, t, n + 1, "retry")
    BY <1>2, <1>3, <1>5 DEF RecoverRetry
  <2>2. OthersStay(t) /\ Place(t, "retry", n + 1)'
    BY <1>3, <1>4, <2>1, MovePlaces DEF ZSets
  <2>3. Spent(t) = n /\ Lifecycle!Move(t, {"held"}, "retry", n + 1)
    BY <1>4, <2>2, MoveRefines
  <2>. QED
    BY <2>1, <2>3 DEF Lifecycle!Fail
<1>6. CASE RecoverArchive(s)
  <2>1. MoveToZSet(e, t, n, "archived")
    BY <1>2, <1>3, <1>6 DEF RecoverArchive
  <2>2. OthersStay(t) /\ Place(t, "archived", n)'
    BY <1>3, <1>4, <2>1, MovePlaces DEF ZSets
  <2>3. Spent(t) = n /\ Lifecycle!Move(t, {"held"}, "archived", n)
    BY <1>4, <2>2, MoveRefines
  <2>. QED
    BY <2>3 DEF Lifecycle!Die
<1>. QED
    BY <1>5, <1>6

\* A lost or handed-back claim: without a loaded copy it was no claim to the
\* life cycle.
LEMMA JobBackRefines ==
    ASSUME LInv, LInv', NEW e \in EntryIds, JobLost(e) \/ Requeue(e)
    PROVE  \/ UNCHANGED Lifecycle!lifeVars
           \/ \E t \in Tasks : Lifecycle!GiveBack(t) \/ Lifecycle!Delete(t)
<1>1. job[e].phase # "none" /\ job' = [job EXCEPT ![e] = NoJob] /\ rec' = rec
    BY DEF JobLost, Requeue
<1>2. PICK t \in Tasks, n \in Nat : t = job[e].task /\ n = job[e].retried
    BY <1>1, JobTyped
<1>3. entry[e] = t /\ \A f \in EntryIds : entry[f] = t => f = e
    BY <1>1, <1>2, JobClaim
<1>4. ~Held(t)' /\ \A u \in Tasks \ {t} : HandsKept(u)
    BY <1>1, <1>2, JobEnds, Zenon
<1>5. UNCHANGED <<body, zset>>
    BY DEF JobLost, Requeue, redisVars
<1>6. InStream(t)' \/ body[t] = NoBody
  <2>1. CASE JobLost(e)
    BY <1>3, <2>1 DEF JobLost, redisVars, InStream
  <2>2. CASE Requeue(e) /\ state[t] = "absent"
    BY <2>2 DEF LInv, PInv, HashOK
  <2>3. CASE Requeue(e) /\ state[t] # "absent"
    BY <1>2, <2>3 DEF Requeue, InStream, LInv, PInv, TInv, TypeOK
  <2>. QED
    BY <2>1, <2>2, <2>3
<1>7. \A u \in Tasks \ {t} : InStream(u)' <=> InStream(u)
  <2>1. CASE JobLost(e)
    BY <2>1 DEF JobLost, redisVars, InStream
  <2>2. CASE Requeue(e)
    BY <1>2, <1>3, <2>2, NoneAssumption DEF Requeue, Fresh, InStream, LInv, PInv, TInv, TypeOK
  <2>. QED
    BY <2>1, <2>2
<1>8. CASE job[e].phase = "loaded" \/ job[e].phase = "active"
    BY <1>2, <1>4, <1>5, <1>6, <1>7, <1>8, JobHeld, GivenBack
<1>9. CASE ~(job[e].phase = "loaded" \/ job[e].phase = "active")
  <2>1. JobLost(e)
    BY <1>9 DEF Requeue
  <2>2. ~Held(t)
    BY <1>1, <1>2, <1>9, JobClaim DEF Held, JobHolds, RecHolds
  <2>3. HandsKept(t)
    BY <1>4, <2>2 DEF HandsKept, Held, JobHolds, RecHolds, LInv, PInv, TInv, TypeOK
  <2>4. \A u \in Tasks : KeysKept(u)
    BY <2>1 DEF JobLost, redisVars, KeysKept, InStream
  <2>. QED
    BY <1>4, <2>3, <2>4, KeptStays, StayRefines
<1>. QED
    BY <1>8, <1>9

\* The same of a recoverer.
LEMMA RecBackRefines ==
    ASSUME LInv, LInv', NEW s \in Servers, RecoverLost(s)
    PROVE  \/ UNCHANGED Lifecycle!lifeVars
           \/ \E t \in Tasks : Lifecycle!GiveBack(t) \/ Lifecycle!Delete(t)
<1>1. rec[s].phase # "none" /\ rec' = [rec EXCEPT ![s] = NoRec] /\ UNCHANGED <<job, redisVars>>
    BY DEF RecoverLost
<1>2. PICK t \in Tasks, n \in Nat : t = rec[s].task /\ n = rec[s].retried
    BY <1>1, RecTyped
<1>3. InStream(t)
    BY <1>1, <1>2, RecClaim
<1>4. ~Held(t)' /\ \A u \in Tasks \ {t} : HandsKept(u)
    BY <1>1, <1>2, RecEnds, ZenonT(30)
<1>5. UNCHANGED <<body, zset>> /\ \A u \in Tasks : KeysKept(u) /\ (InStream(u)' <=> InStream(u))
    BY <1>1 DEF redisVars, KeysKept, InStream
<1>6. CASE rec[s].phase = "loaded"
    BY <1>2, <1>3, <1>4, <1>5, <1>6, RecHeld, GivenBack
<1>7. CASE rec[s].phase # "loaded"
  <2>1. ~Held(t)
    BY <1>1, <1>2, <1>7, RecClaim DEF Held, JobHolds, RecHolds
  <2>2. HandsKept(t)
    BY <1>4, <2>1 DEF HandsKept, Held, JobHolds, RecHolds, LInv, PInv, TInv, TypeOK
  <2>. QED
    BY <1>4, <1>5, <2>2, KeptStays, StayRefines
<1>. QED
    BY <1>6, <1>7
=============================================================================
