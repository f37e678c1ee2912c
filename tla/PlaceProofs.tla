---------------------------- MODULE PlaceProofs ----------------------------
(***************************************************************************)
(* Where a task is, as the refinement of TaskLifecycle by TaskQueue sees   *)
(* it while the leases are held, and what a step does to the place of its  *)
(* own task and of the others.                                             *)
(*                                                                         *)
(* The refinement mapping picks the holder and the ZSET of a task with     *)
(* CHOOSE. LInv makes both unique, so that the mapping can be written as a *)
(* relation (Place): the proof of a step then says where its task was and  *)
(* is (MoveRefines) and that every other task stayed (KeptStays).          *)
(***************************************************************************)
EXTENDS UniqueProofs

\* A worker or a recoverer holds a copy of t that has spent n retries.
JobHolds(t, n) ==
    \E e \in EntryIds :
        /\ job[e].phase = "loaded" \/ job[e].phase = "active"
        /\ job[e].task = t /\ job[e].retried = n

RecHolds(t, n) ==
    \E s \in Servers : rec[s].phase = "loaded" /\ rec[s].task = t /\ rec[s].retried = n

Held(t) == \E n \in Nat : JobHolds(t, n) \/ RecHolds(t, n)

\* Stage and Spent as a relation, without CHOOSE.
Place(t, st, n) ==
    \/ st = "held" /\ n \in Nat /\ (JobHolds(t, n) \/ RecHolds(t, n))
    \/ st \in ZSets /\ t \in zset[st] /\ n = body[t]
    \/ st = "pending" /\ ~Held(t) /\ InStream(t) /\ body[t] # NoBody /\ n = body[t]
    \/ st = "absent" /\ ~Held(t) /\ ~InSomeZSet(t) /\ ~(InStream(t) /\ body[t] # NoBody) /\ n = 0

\* A task in a ZSET is in nobody's hands.
LEMMA HeldInStream ==
    ASSUME LInv, NEW t \in Tasks, Held(t)
    PROVE  InStream(t) /\ ~InSomeZSet(t)
<1>1. InStream(t)
    BY NoneAssumption
       DEF Held, JobHolds, RecHolds, LInv, PInv, TInv, TypeOK, ClaimsHold, JobsHold,
           RecsHold, InStream
<1>. QED
    BY <1>1 DEF LInv, PInv, SinglePlace

\* The sets of the refinement mapping, as predicates.
LEMMA HeldSets ==
    ASSUME LInv, NEW t \in Tasks
    PROVE  /\ Held(t) <=> HeldByJob(t) # {} \/ HeldByRec(t) # {}
           /\ \A n : JobHolds(t, n) <=> \E e \in HeldByJob(t) : job[e].retried = n
           /\ \A n : RecHolds(t, n) <=> \E s \in HeldByRec(t) : rec[s].retried = n
<1>1. /\ \A e \in EntryIds : job[e].retried \in Nat
      /\ \A s \in Servers : rec[s].retried \in Nat
    BY DEF LInv, PInv, TInv, TypeOK
<1>. QED
    BY <1>1 DEF Held, JobHolds, RecHolds, HeldByJob, HeldByRec

\* The relation is the refinement mapping.
LEMMA PlaceMaps ==
    ASSUME LInv, NEW t \in Tasks, NEW st, NEW n, Place(t, st, n)
    PROVE  Stage(t) = st /\ Spent(t) = n
<1>h. OneHolder /\ SinglePlace
    BY Holders DEF LInv, PInv
<1>1. CASE st = "held" /\ JobHolds(t, n)
  <2>1. PICK e \in HeldByJob(t) : job[e].retried = n
    BY <1>1, HeldSets
  <2>2. \A f \in HeldByJob(t) : f = e
    BY <1>h, <2>1, NoneAssumption DEF HeldByJob, OneHolder
  <2>3. Stage(t) = "held"
    BY <2>1 DEF Stage
  <2>4. (CHOOSE f \in EntryIds : f \in HeldByJob(t)) = e
    BY <2>1, <2>2 DEF HeldByJob
  <2>5. Spent(t) = job[CHOOSE f \in EntryIds : f \in HeldByJob(t)].retried
    BY <2>1 DEF Spent
  <2>. QED
    BY <1>1, <2>1, <2>3, <2>4, <2>5, Zenon
<1>2. CASE st = "held" /\ RecHolds(t, n)
  <2>1. PICK s \in HeldByRec(t) : rec[s].retried = n
    BY <1>2, HeldSets
  <2>2. \A r \in HeldByRec(t) : r = s
    BY <1>h, <2>1, NoneAssumption DEF HeldByRec, OneHolder
  <2>6. HeldByJob(t) = {}
    BY <1>h, <2>1, NoneAssumption DEF HeldByRec, HeldByJob, OneHolder
  <2>3. Stage(t) = "held"
    BY <2>1 DEF Stage
  <2>4. (CHOOSE r \in Servers : r \in HeldByRec(t)) = s
    BY <2>1, <2>2 DEF HeldByRec
  <2>5. Spent(t) = rec[CHOOSE r \in Servers : r \in HeldByRec(t)].retried
    BY <2>1, <2>6 DEF Spent
  <2>. QED
    BY <1>2, <2>1, <2>3, <2>4, <2>5, Zenon
<1>3. CASE st \in ZSets /\ t \in zset[st] /\ n = body[t]
  <2>1. InSomeZSet(t) /\ ~Held(t)
    BY <1>3, HeldInStream DEF InSomeZSet
  <2>2. \A z \in ZSets : t \in zset[z] => z = st
    BY <1>3, <1>h DEF SinglePlace
  <2>3. (CHOOSE z \in ZSets : t \in zset[z]) = st
    BY <1>3, <2>2
  <2>4. Stage(t) = st
    BY <2>1, <2>3, HeldSets DEF Stage
  <2>. QED
    BY <1>3, <2>1, <2>4, HeldSets DEF Spent, ZSets
<1>4. CASE st = "pending" /\ ~Held(t) /\ InStream(t) /\ body[t] # NoBody /\ n = body[t]
  <2>1. ~InSomeZSet(t)
    BY <1>4, <1>h DEF SinglePlace
  <2>2. Stage(t) = "pending"
    BY <1>4, <2>1, HeldSets DEF Stage
  <2>. QED
    BY <1>4, <2>2, HeldSets DEF Spent
<1>5. CASE st = "absent" /\ ~Held(t) /\ ~InSomeZSet(t) /\ ~(InStream(t) /\ body[t] # NoBody) /\ n = 0
  <2>1. Stage(t) = "absent"
    BY <1>5, HeldSets DEF Stage
  <2>. QED
    BY <1>5, <2>1, HeldSets DEF Spent
<1>. QED
    BY <1>1, <1>2, <1>3, <1>4, <1>5 DEF Place

\* Every task has its place.
LEMMA PlaceExists ==
    ASSUME LInv, NEW t \in Tasks
    PROVE  \E st, n : Place(t, st, n)
  BY DEF Place, Held, InSomeZSet

\* The mapping as one formula, so that it can be primed.
Mapped ==
    LInv => \A t \in Tasks : \A st, n : Place(t, st, n) => Stage(t) = st /\ Spent(t) = n

\* The same of the state after a step.
LEMMA PlaceMapsNext == Mapped'
<1>1. Mapped
    BY PlaceMaps DEF Mapped
<1>. QED
    BY <1>1, PTL

\* The other tasks of a step.
OthersStay(t) == \A u \in Tasks \ {t} : \A st, n : Place(u, st, n) => Place(u, st, n)'

\* A step that takes t from one stage to another and leaves the others where
\* they are is a step of the life cycle.
LEMMA MoveRefines ==
    ASSUME LInv, LInv', NEW t \in Tasks, NEW From, NEW a \in From, NEW m, NEW b, NEW n,
           OthersStay(t), Place(t, a, m), Place(t, b, n)'
    PROVE  Spent(t) = m /\ Lifecycle!Move(t, From, b, n)
<1>1. \A u \in Tasks \ {t} : Stage(u)' = Stage(u) /\ Spent(u)' = Spent(u)
  <2> SUFFICES ASSUME NEW u \in Tasks \ {t} PROVE Stage(u)' = Stage(u) /\ Spent(u)' = Spent(u)
    OBVIOUS
  <2>1. PICK st, k : Place(u, st, k)
    BY PlaceExists
  <2>2. Place(u, st, k)'
    BY <2>1 DEF OthersStay
  <2>3. Stage(u) = st /\ Spent(u) = k
    BY <2>1, PlaceMaps
  <2>4. Stage(u)' = st /\ Spent(u)' = k
    BY <2>2, PlaceMapsNext DEF Mapped
  <2>. QED
    BY <2>3, <2>4
<1>2. Stage(t) = a /\ Spent(t) = m
    BY PlaceMaps
<1>3. Stage(t)' = b /\ Spent(t)' = n
    BY PlaceMapsNext DEF Mapped
<1>4. [u \in Tasks |-> Stage(u)'] = [[u \in Tasks |-> Stage(u)] EXCEPT ![t] = b]
    BY <1>1, <1>3, Zenon
<1>5. [u \in Tasks |-> Spent(u)'] = [[u \in Tasks |-> Spent(u)] EXCEPT ![t] = n]
    BY <1>1, <1>3, Zenon
<1>6. [u \in Tasks |-> Stage(u)][t] \in From
    BY <1>2
<1>. QED
    BY <1>2, <1>4, <1>5, <1>6 DEF Lifecycle!Move

\* A step in which every task stays is a stuttering step of the life cycle.
LEMMA StayRefines ==
    ASSUME LInv, LInv', \A u \in Tasks : \A st, n : Place(u, st, n) => Place(u, st, n)'
    PROVE  UNCHANGED Lifecycle!lifeVars
<1>1. \A u \in Tasks : Stage(u)' = Stage(u) /\ Spent(u)' = Spent(u)
  <2> SUFFICES ASSUME NEW u \in Tasks PROVE Stage(u)' = Stage(u) /\ Spent(u)' = Spent(u)
    OBVIOUS
  <2>1. PICK st, k : Place(u, st, k) /\ Place(u, st, k)'
    BY PlaceExists
  <2>2. Stage(u) = st /\ Spent(u) = k
    BY <2>1, PlaceMaps
  <2>3. Stage(u)' = st /\ Spent(u)' = k
    BY <2>1, PlaceMapsNext DEF Mapped
  <2>. QED
    BY <2>2, <2>3
<1>. QED
    BY <1>1 DEF Lifecycle!lifeVars

\* A step that changes nothing the place of u is made of.
HandsKept(u) == \A n : (JobHolds(u, n)' <=> JobHolds(u, n)) /\ (RecHolds(u, n)' <=> RecHolds(u, n))

KeysKept(u) ==
    /\ body'[u] = body[u]
    /\ \A z \in ZSets : u \in zset'[z] <=> u \in zset[z]
    /\ InStream(u)' <=> InStream(u)

\* A task whose keys and holders a step leaves alone stays in its place.
LEMMA KeptStays ==
    ASSUME NEW u, HandsKept(u), KeysKept(u)
    PROVE  \A st, n : Place(u, st, n) => Place(u, st, n)'
<1>1. Held(u)' <=> Held(u)
    BY DEF Held, HandsKept
<1>2. InSomeZSet(u)' <=> InSomeZSet(u)
    BY DEF InSomeZSet, KeysKept
<1>. QED
    BY <1>1, <1>2 DEF Place, HandsKept, KeysKept

\* What a worker's claim says of its task.
LEMMA JobClaim ==
    ASSUME LInv, NEW e \in EntryIds, NEW t, t = job[e].task, job[e].phase # "none"
    PROVE  /\ t \in Tasks /\ entry[e] = t /\ InStream(t) /\ ~InSomeZSet(t)
           /\ \A f \in EntryIds : entry[f] = t => f = e
           /\ \A f \in EntryIds : job[f].task = t => f = e
           /\ \A s \in Servers : rec[s].task # t
<1>1. t \in Tasks /\ entry[e] = t
    BY DEF LInv, PInv, TInv, TypeOK, Budgeted, ClaimsHold, JobsHold
<1>2. InStream(t) /\ OneHolder /\ SinglePlace
    BY <1>1, Holders DEF InStream, LInv, PInv
<1>. QED
    BY <1>1, <1>2, NoneAssumption DEF OneHolder, SinglePlace

\* What a recoverer's claim says of its task.
LEMMA RecClaim ==
    ASSUME LInv, NEW s \in Servers, NEW t, t = rec[s].task, rec[s].phase # "none"
    PROVE  /\ t \in Tasks /\ rec[s].entry \in EntryIds /\ entry[rec[s].entry] = t
           /\ InStream(t) /\ ~InSomeZSet(t)
           /\ \A f \in EntryIds : entry[f] = t => f = rec[s].entry
           /\ \A f \in EntryIds : job[f].task # t
           /\ \A r \in Servers : rec[r].task = t => r = s
<1>1. t \in Tasks /\ rec[s].entry \in EntryIds /\ entry[rec[s].entry] = t
    BY DEF LInv, PInv, TInv, TypeOK, Budgeted, ClaimsHold, RecsHold
<1>2. InStream(t) /\ OneHolder /\ SinglePlace
    BY <1>1, Holders DEF InStream, LInv, PInv
<1>. QED
    BY <1>1, <1>2, NoneAssumption DEF OneHolder, SinglePlace

\* A worker lets go of its task, and of no other.
LEMMA JobEnds ==
    ASSUME LInv, NEW e \in EntryIds, NEW t, t = job[e].task, job[e].phase # "none",
           job' = [job EXCEPT ![e] = NoJob], rec' = rec
    PROVE  ~Held(t)' /\ \A u \in Tasks \ {t} : HandsKept(u)
<1>1. job \in [EntryIds -> [phase : JobPhases, task : Tasks \cup {None}, retried : Nat]]
    BY DEF LInv, PInv, TInv, TypeOK
<1>3. /\ \A f \in EntryIds : job[f].task = t => f = e
      /\ \A s \in Servers : rec[s].task # t
    BY JobClaim
<1>4. \A f \in EntryIds : job'[f] = IF f = e THEN NoJob ELSE job[f]
    BY <1>1
<1>5. ~Held(t)'
    BY <1>3, <1>4, NoneAssumption DEF Held, JobHolds, RecHolds, NoJob
<1>6. \A u \in Tasks \ {t} : HandsKept(u)
    BY <1>4 DEF HandsKept, JobHolds, RecHolds, NoJob
<1>. QED
    BY <1>5, <1>6

\* A recoverer lets go of its task, and of no other.
LEMMA RecEnds ==
    ASSUME LInv, NEW s \in Servers, NEW t, t = rec[s].task, rec[s].phase # "none",
           rec' = [rec EXCEPT ![s] = NoRec], job' = job
    PROVE  ~Held(t)' /\ \A u \in Tasks \ {t} : HandsKept(u)
<1>1. rec \in [Servers -> [phase : RecPhases, entry : EntryIds \cup {None},
                           task : Tasks \cup {None}, retried : Nat]]
    BY DEF LInv, PInv, TInv, TypeOK
<1>3. /\ \A f \in EntryIds : job[f].task # t
      /\ \A r \in Servers : rec[r].task = t => r = s
    BY RecClaim
<1>4. \A r \in Servers : rec'[r] = IF r = s THEN NoRec ELSE rec[r]
    BY <1>1
<1>5. ~Held(t)'
    BY <1>3, <1>4, NoneAssumption DEF Held, JobHolds, RecHolds, NoRec
<1>6. \A u \in Tasks \ {t} : HandsKept(u)
    BY <1>4 DEF HandsKept, JobHolds, RecHolds, NoRec
<1>. QED
    BY <1>5, <1>6

\* Nobody takes or lets go of a task.
LEMMA HandsStill ==
    ASSUME job' = job, rec' = rec
    PROVE  \A u : HandsKept(u) /\ (Held(u)' <=> Held(u))
  BY DEF HandsKept, Held, JobHolds, RecHolds

\* A task that no client would be refused to submit has ended or never was.
LEMMA QuiescentPlace ==
    ASSUME LInv, NEW t \in Tasks, Quiescent(t)
    PROVE  ~Held(t) /\ \E a \in Lifecycle!Finished \cup {"absent"} : \E m : Place(t, a, m)
<1>1. ~Held(t)
    BY HeldInStream DEF Quiescent
<1>2. CASE InSomeZSet(t)
    BY <1>1, <1>2 DEF Quiescent, InSomeZSet, ZSets, Place, Lifecycle!Finished
<1>3. CASE ~InSomeZSet(t)
    BY <1>1, <1>3 DEF Quiescent, Place
<1>. QED
    BY <1>1, <1>2, <1>3

\* enqueueCmd submits a task.
LEMMA EnqueueRefines ==
    ASSUME LInv, LInv', NEW t \in Tasks, Enqueue(t)
    PROVE  Lifecycle!Submit(t)
<1>1. PICK a, m : a \in Lifecycle!Finished \cup {"absent"} /\ Place(t, a, m)
    BY QuiescentPlace DEF Enqueue
<1>2. /\ body \in [Tasks -> Int] /\ zset \in [ZSets -> SUBSET Tasks]
      /\ entry \in [EntryIds -> Tasks \cup {None}]
    BY DEF LInv, PInv, TInv, TypeOK
<1>3. PICK f \in EntryIds : entry[f] = None /\ entry' = [entry EXCEPT ![f] = t]
    BY Zenon DEF Enqueue, XAdd, Fresh
<1>4. body' = [body EXCEPT ![t] = 0] /\ \A z \in ZSets : zset'[z] \ {t} = zset[z] \ {t}
    BY <1>2 DEF Enqueue, WriteHash, ZRem
<1>5. ~Held(t)' /\ \A u : HandsKept(u)
    BY QuiescentPlace, HandsStill DEF Enqueue
<1>6. \A u \in Tasks \ {t} : KeysKept(u)
    BY <1>2, <1>3, <1>4, NoneAssumption DEF KeysKept, InStream
<1>7. OthersStay(t)
    BY <1>5, <1>6, KeptStays DEF OthersStay
<1>8. Place(t, "pending", 0)'
    BY <1>2, <1>3, <1>4, <1>5 DEF Place, InStream, NoBody
<1>9. Lifecycle!Move(t, Lifecycle!Finished \cup {"absent"}, "pending", 0)
    BY <1>1, <1>7, <1>8, MoveRefines
<1>. QED
    BY <1>9 DEF Lifecycle!Submit

\* scheduleCmd submits a task for later.
LEMMA ScheduleRefines ==
    ASSUME LInv, LInv', NEW t \in Tasks, Schedule(t)
    PROVE  Lifecycle!Submit(t)
<1>1. PICK a, m : a \in Lifecycle!Finished \cup {"absent"} /\ Place(t, a, m)
    BY QuiescentPlace DEF Schedule
<1>2. body \in [Tasks -> Int] /\ zset \in [ZSets -> SUBSET Tasks]
    BY DEF LInv, PInv, TInv, TypeOK
<1>3. /\ body' = [body EXCEPT ![t] = 0] /\ entry' = entry
      /\ t \in zset'["scheduled"] /\ \A z \in ZSets : zset'[z] \ {t} = zset[z] \ {t}
    BY <1>2 DEF Schedule, WriteHash, ZSets
<1>4. \A u \in Tasks \ {t} : HandsKept(u) /\ KeysKept(u)
    BY <1>2, <1>3, HandsStill DEF Schedule, KeysKept, InStream
<1>5. OthersStay(t)
    BY <1>4, KeptStays DEF OthersStay
<1>6. Place(t, "scheduled", 0)'
    BY <1>2, <1>3 DEF Place, ZSets
<1>7. Lifecycle!Move(t, Lifecycle!Finished \cup {"absent"}, "scheduled", 0)
    BY <1>1, <1>5, <1>6, MoveRefines
<1>. QED
    BY <1>7 DEF Lifecycle!Submit

\* moveToZSetCmd takes the task whose claim ends from the stream to the ZSET.
LEMMA MovePlaces ==
    ASSUME LInv, NEW t \in Tasks, NEW e \in EntryIds, NEW n, NEW z \in ZSets,
           entry[e] = t, MoveToZSet(e, t, n, z), \A u \in Tasks \ {t} : HandsKept(u)
    PROVE  OthersStay(t) /\ Place(t, z, n)'
<1>1. /\ body \in [Tasks -> Int] /\ zset \in [ZSets -> SUBSET Tasks]
      /\ entry \in [EntryIds -> Tasks \cup {None}]
    BY DEF LInv, PInv, TInv, TypeOK
<1>2. /\ body' = [body EXCEPT ![t] = n] /\ entry' = [entry EXCEPT ![e] = None]
      /\ t \in zset'[z] /\ \A y \in ZSets : zset'[y] \ {t} = zset[y] \ {t}
    BY <1>1 DEF MoveToZSet, AckDel, WriteHash, ZAdd
<1>3. \A u \in Tasks \ {t} : KeysKept(u)
    BY <1>1, <1>2, NoneAssumption DEF KeysKept, InStream
<1>4. OthersStay(t)
    BY <1>3, KeptStays DEF OthersStay
<1>. QED
    BY <1>1, <1>2, <1>4 DEF Place

\* Done's MULTI block makes the task whose claim ends disappear.
LEMMA DonePlaces ==
    ASSUME LInv, NEW t \in Tasks, NEW e \in EntryIds, entry[e] = t, ~InSomeZSet(t),
           AckDelHash(e, t), ~Held(t)', \A u \in Tasks \ {t} : HandsKept(u)
    PROVE  OthersStay(t) /\ Place(t, "absent", 0)'
<1>1. body \in [Tasks -> Int] /\ entry \in [EntryIds -> Tasks \cup {None}]
    BY DEF LInv, PInv, TInv, TypeOK
<1>2. body' = [body EXCEPT ![t] = NoBody] /\ entry' = [entry EXCEPT ![e] = None] /\ zset' = zset
    BY DEF AckDelHash, AckDel, DelHash
<1>3. \A u \in Tasks \ {t} : KeysKept(u)
    BY <1>1, <1>2, NoneAssumption DEF KeysKept, InStream
<1>4. OthersStay(t)
    BY <1>3, KeptStays DEF OthersStay
<1>5. ~InSomeZSet(t)' /\ body'[t] = NoBody
    BY <1>1, <1>2 DEF InSomeZSet
<1>. QED
    BY <1>4, <1>5 DEF Place

\* A claim that ends without an outcome leaves the task pending, or absent if
\* the operator has deleted it meanwhile.
LEMMA GivenBack ==
    ASSUME LInv, LInv', NEW t \in Tasks, NEW n, n \in Nat, Place(t, "held", n), ~Held(t)',
           InStream(t)' \/ body[t] = NoBody, \A u \in Tasks \ {t} : InStream(u)' <=> InStream(u),
           \A u \in Tasks \ {t} : HandsKept(u), UNCHANGED <<body, zset>>,
           body[t] = NoBody \/ body[t] = n, body[t] # NoBody \/ "DeleteTask" \in Operator
    PROVE  Lifecycle!GiveBack(t) \/ Lifecycle!Delete(t)
<1>1. OthersStay(t)
  <2>1. \A u \in Tasks \ {t} : KeysKept(u)
    BY DEF KeysKept
  <2>. QED
    BY <2>1, KeptStays DEF OthersStay
<1>2. ~InSomeZSet(t)'
  <2>1. Held(t)
    BY DEF Place, Held, ZSets
  <2>2. ~InSomeZSet(t)
    BY <2>1, HeldInStream
  <2>. QED
    BY <2>2 DEF InSomeZSet
<1>3. CASE body[t] = NoBody
  <2>1. Place(t, "absent", 0)'
    BY <1>2, <1>3 DEF Place
  <2>2. "held" \in Lifecycle!Stages \ {"absent"}
    BY DEF Lifecycle!Stages
  <2>3. Lifecycle!Move(t, Lifecycle!Stages \ {"absent"}, "absent", 0)
    BY <1>1, <2>1, <2>2, MoveRefines
  <2>. QED
    BY <1>3, <2>3 DEF Lifecycle!Delete
<1>4. CASE body[t] # NoBody
  <2>1. Place(t, "pending", n)'
    BY <1>4 DEF Place
  <2>2. Spent(t) = n /\ Lifecycle!Move(t, {"held"}, "pending", n)
    BY <1>1, <2>1, MoveRefines
  <2>. QED
    BY <2>2 DEF Lifecycle!GiveBack
<1>. QED
    BY <1>3, <1>4

\* What a worker with a loaded copy of the message holds.
LEMMA JobHeld ==
    ASSUME LInv, NEW e \in EntryIds, job[e].phase = "loaded" \/ job[e].phase = "active",
           NEW t, t = job[e].task, NEW n, n = job[e].retried
    PROVE  /\ n \in Nat /\ Place(t, "held", n)
           /\ body[t] = NoBody \/ body[t] = n
           /\ body[t] # NoBody \/ "DeleteTask" \in Operator
<1>1. n \in Nat
    BY DEF LInv, PInv, TInv, TypeOK
<1>2. entry[e] = t /\ t # None
    BY JobClaim, NoneAssumption
<1>. QED
    BY <1>1, <1>2 DEF Place, JobHolds, LInv, PInv, CopiesAgree, CopyOK, StreamBody

\* What a recoverer with a loaded copy of the message holds.
LEMMA RecHeld ==
    ASSUME LInv, NEW s \in Servers, rec[s].phase = "loaded",
           NEW t, t = rec[s].task, NEW n, n = rec[s].retried
    PROVE  /\ n \in Nat /\ Place(t, "held", n)
           /\ body[t] = NoBody \/ body[t] = n
           /\ body[t] # NoBody \/ "DeleteTask" \in Operator
<1>1. n \in Nat
    BY DEF LInv, PInv, TInv, TypeOK
<1>2. rec[s].entry \in EntryIds /\ entry[rec[s].entry] = t /\ t # None
    BY RecClaim, NoneAssumption
<1>. QED
    BY <1>1, <1>2 DEF Place, RecHolds, LInv, PInv, CopiesAgree, CopyOK, StreamBody

\* A claim is on a task of the queue, and its copy on a number.
LEMMA JobTyped ==
    ASSUME LInv, NEW e \in EntryIds, job[e].phase # "none"
    PROVE  (\E t \in Tasks : t = job[e].task) /\ (\E n \in Nat : n = job[e].retried)
  BY DEF LInv, PInv, TInv, TypeOK, Budgeted

\* The same of a recoverer's claim.
LEMMA RecTyped ==
    ASSUME LInv, NEW s \in Servers, rec[s].phase # "none"
    PROVE  (\E t \in Tasks : t = rec[s].task) /\ (\E n \in Nat : n = rec[s].retried)
  BY DEF LInv, PInv, TInv, TypeOK, Budgeted
=============================================================================
