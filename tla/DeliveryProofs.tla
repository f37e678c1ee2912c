--------------------------- MODULE DeliveryProofs ---------------------------
(***************************************************************************)
(* NoTaskLost holds of TaskQueue for every set of tasks, entries and       *)
(* servers, every retry budget and every choice of the switches.           *)
(*                                                                         *)
(* It is not inductive. Besides what TaskQueueProofs shows of the Redis    *)
(* keys it needs to know that a task without an outcome is in neither ZSET *)
(* the janitor trims (in OwedSafe): enqueueCmd, scheduleCmd and runTaskCmd *)
(* take it out.                                                            *)
(***************************************************************************)
EXTENDS TaskQueueProofs

\* A task that is owed an outcome: the janitor cannot reach it, a loop can.
OwedOK(t) ==
    /\ body[t] # NoBody
    /\ t \notin zset["archived"] \cup zset["completed"]
    /\ Reachable(t)

OwedSafe == \A t \in owed : OwedOK(t)

\* A step that leaves u its body, its ZSETs and the entries it is reached by.
EntriesKept(u) ==
    \A f \in EntryIds : entry[f] = u /\ ~Orphaned(f) => entry'[f] = u /\ ~Orphaned(f)'

StoredKept(u) ==
    /\ body'[u] = body[u]
    /\ \A z \in ZSets : u \in zset'[z] <=> u \in zset[z]

IInv == TInv /\ HashOK /\ Consistent /\ OwedSafe

\* A step keeps OwedSafe if it leaves every owed task but t alone and t, if it
\* is owed an outcome, safe.
LEMMA OwedMove ==
    ASSUME OwedSafe, NEW t, owed' \subseteq owed \cup {t},
           \A u \in owed' \ {t} : StoredKept(u) /\ EntriesKept(u),
           t \in owed' => OwedOK(t)'
    PROVE  OwedSafe'
<1>1. SUFFICES ASSUME NEW u \in owed', u # t PROVE OwedOK(u)'
    BY DEF OwedSafe
<1>2. OwedOK(u) /\ StoredKept(u) /\ EntriesKept(u)
    BY <1>1 DEF OwedSafe
<1>3. body'[u] # NoBody /\ u \notin zset'["archived"] \cup zset'["completed"]
    BY <1>2 DEF OwedOK, StoredKept, ZSets
<1>4. Reachable(u)'
    BY <1>2 DEF OwedOK, StoredKept, EntriesKept, Reachable, ZSets
<1>. QED
    BY <1>3, <1>4 DEF OwedOK

\* XADD under a fresh ID: no entry changes but the new one, and nobody is
\* about to drop the new one.
LEMMA XAddKeeps ==
    ASSUME TInv, NEW f \in EntryIds, NEW t \in Tasks, XAdd(f, t), job' = job, rec' = rec
    PROVE  /\ entry'[f] = t /\ ~Orphaned(f)'
           /\ \A u \in Tasks : EntriesKept(u)
<1>1. entry \in [EntryIds -> Tasks \cup {None}] /\ entry[f] = None /\ entry' = [entry EXCEPT ![f] = t]
    BY DEF TInv, TypeOK, XAdd, Fresh
<1>2. \A g \in EntryIds : Orphaned(g)' <=> Orphaned(g)
    BY DEF Orphaned
<1>3. ~Orphaned(f)
    BY DEF XAdd, Fresh, Orphaned
<1>. QED
    BY <1>1, <1>2, <1>3, NoneAssumption DEF EntriesKept

\* XACK + XDEL of an entry of t: the entries of the other tasks stay.
LEMMA AckKeeps ==
    ASSUME TInv, NEW e \in EntryIds, NEW t, entry[e] = None \/ entry[e] = t, AckDel(e),
           \A f \in EntryIds : Orphaned(f)' => Orphaned(f)
    PROVE  \A u \in Tasks \ {t} : EntriesKept(u)
<1>1. entry \in [EntryIds -> Tasks \cup {None}] /\ entry' = [entry EXCEPT ![e] = None]
    BY DEF TInv, TypeOK, AckDel
<1>. QED
    BY <1>1, NoneAssumption DEF EntriesKept

\* moveToZSetCmd and Done's MULTI block store one task.
LEMMA MoveKeeps ==
    ASSUME TInv, NEW e, NEW t \in Tasks, NEW n, NEW z \in ZSets,
           MoveToZSet(e, t, n, z) \/ AckDelHash(e, t)
    PROVE  AckDel(e) /\ \A u \in Tasks \ {t} : StoredKept(u)
  BY DEF TInv, TypeOK, MoveToZSet, AckDelHash, WriteHash, DelHash, ZAdd, StoredKept

\* The end of a worker's or a recoverer's claim makes no entry an orphan.
LEMMA ClaimEnds ==
    ASSUME TInv,
           \/ rec' = rec /\ \E e \in EntryIds : job' = [job EXCEPT ![e] = NoJob]
           \/ job' = job /\ \E s \in Servers : rec' = [rec EXCEPT ![s] = NoRec]
    PROVE  \A f \in EntryIds : Orphaned(f)' => Orphaned(f)
<1>1. CASE rec' = rec /\ \E e \in EntryIds : job' = [job EXCEPT ![e] = NoJob]
    BY <1>1 DEF TInv, TypeOK, Orphaned, NoJob
<1>2. CASE job' = job /\ \E s \in Servers : rec' = [rec EXCEPT ![s] = NoRec]
  <2>1. \A r \in Servers : rec'[r].phase = "orphan" => rec'[r] = rec[r]
    BY <1>2 DEF TInv, TypeOK, NoRec
  <2>. QED
    BY <1>2, <2>1 DEF Orphaned
<1>. QED
    BY <1>1, <1>2

\* No step loses a task that is owed an outcome: what removes its body or its
\* last reference either settles it or adds another reference.
LEMMA OwedStep == IInv /\ [Next]_vars => OwedSafe'
<1> SUFFICES ASSUME IInv, [Next]_vars PROVE OwedSafe'
    OBVIOUS
<1> USE NoneAssumption
<1>a. TInv /\ HashOK /\ Consistent /\ OwedSafe
    BY DEF IInv
<1>b. /\ owed \subseteq Tasks
      /\ body \in [Tasks -> Int]
      /\ zset \in [ZSets -> SUBSET Tasks]
      /\ entry \in [EntryIds -> Tasks \cup {None}]
      /\ job \in [EntryIds -> [phase : JobPhases, task : Tasks \cup {None}, retried : Nat]]
      /\ rec \in [Servers -> [phase : RecPhases, entry : EntryIds \cup {None},
                              task : Tasks \cup {None}, retried : Nat]]
    BY <1>a DEF TInv, TypeOK
<1>c. /\ \A e \in EntryIds : job[e].phase # "none" =>
            job[e].task \in Tasks /\ job[e].retried \in Nat /\ entry[e] \in {None, job[e].task}
      /\ \A s \in Servers : rec[s].phase # "none" =>
            /\ rec[s].task \in Tasks /\ rec[s].retried \in Nat
            /\ rec[s].entry \in EntryIds /\ entry[rec[s].entry] \in {None, rec[s].task}
    BY <1>a, <1>b DEF TInv, TypeOK, Consistent, Budgeted
<1>1. ASSUME NEW t \in Tasks, Enqueue(t) PROVE OwedSafe'
  <2>1. PICK f \in EntryIds : XAdd(f, t)
    BY <1>1 DEF Enqueue
  <2>2. \A u \in owed \ {t} : StoredKept(u)
    BY <1>1, <1>b DEF Enqueue, WriteHash, ZRem, StoredKept
  <2>3. entry'[f] = t /\ ~Orphaned(f)' /\ \A u \in Tasks : EntriesKept(u)
    BY <1>1, <1>a, <2>1, XAddKeeps DEF Enqueue
  <2>4. OwedOK(t)'
    <3>1. body'[t] = 0 /\ t \notin zset'["archived"] \cup zset'["completed"]
      BY <1>1, <1>b DEF Enqueue, WriteHash, ZRem, ZSets
    <3>. QED
      BY <2>3, <3>1 DEF OwedOK, Reachable, NoBody
  <2>5. owed' = owed \cup {t}
    BY <1>1 DEF Enqueue
  <2>. QED
    BY <1>a, <1>b, <2>2, <2>3, <2>4, <2>5, OwedMove
<1>2. ASSUME NEW t \in Tasks, Schedule(t) PROVE OwedSafe'
  <2>1. \A u \in owed \ {t} : StoredKept(u)
    BY <1>2, <1>b DEF Schedule, WriteHash, StoredKept, ZSets
  <2>2. \A u \in Tasks : EntriesKept(u)
    BY <1>2 DEF Schedule, EntriesKept, Orphaned
  <2>3. OwedOK(t)'
    BY <1>2, <1>b DEF Schedule, WriteHash, OwedOK, Reachable, NoBody, ZSets
  <2>4. owed' = owed \cup {t}
    BY <1>2 DEF Schedule
  <2>. QED
    BY <1>a, <1>b, <2>1, <2>2, <2>3, <2>4, OwedMove
<1>3. ASSUME NEW e \in EntryIds, XReadGroup(e) PROVE OwedSafe'
  <2>1. \A u \in owed' : StoredKept(u)
    BY <1>3 DEF XReadGroup, redisVars, StoredKept
  <2>2. \A u \in owed' : EntriesKept(u)
    BY <1>3, <1>b DEF XReadGroup, EntriesKept, Orphaned
  <2>3. owed' \subseteq owed
    BY <1>3 DEF XReadGroup
  <2>. QED
    BY <1>a, <1>b, <2>1, <2>2, <2>3, OwedMove
<1>4. ASSUME NEW e \in EntryIds, LoadBody(e) PROVE OwedSafe'
  <2>1. \A u \in owed' : StoredKept(u)
    BY <1>4 DEF LoadBody, redisVars, StoredKept
  <2>2. \A u \in owed' : EntriesKept(u)
    <3>1. ASSUME NEW u \in owed, entry[e] = u, Orphaned(e)' PROVE Orphaned(e)
      <4>1. u = job[e].task /\ body[u] # NoBody
        BY <1>4, <1>a, <1>b, <1>c, <3>1 DEF LoadBody, OwedSafe, OwedOK
      <4>. QED
        BY <1>4, <1>b, <3>1, <4>1 DEF LoadBody, Loaded, Orphaned
    <3>2. \A f \in EntryIds \ {e} : Orphaned(f)' => Orphaned(f)
      BY <1>4, <1>b DEF LoadBody, Orphaned
    <3>. QED
      BY <1>4, <1>b, <3>1, <3>2 DEF LoadBody, redisVars, EntriesKept
  <2>3. owed' \subseteq owed
    BY <1>4 DEF LoadBody
  <2>. QED
    BY <1>a, <1>b, <2>1, <2>2, <2>3, OwedMove
<1>5. ASSUME NEW e \in EntryIds, TrimOrphan(e) PROVE OwedSafe'
  <2>1. \A u \in owed' : StoredKept(u)
    BY <1>5 DEF TrimOrphan, redisVars, StoredKept
  <2>2. \A u \in owed' : EntriesKept(u)
    <3>1. \A f \in EntryIds : Orphaned(f)' => Orphaned(f)
      BY <1>5, <1>a, ClaimEnds, Zenon DEF TrimOrphan
    <3>2. Orphaned(e)
      BY <1>5 DEF TrimOrphan, Orphaned
    <3>. QED
      BY <1>5, <1>b, <3>1, <3>2 DEF TrimOrphan, AckDel, EntriesKept
  <2>3. owed' \subseteq owed
    BY <1>5 DEF TrimOrphan
  <2>. QED
    BY <1>a, <1>b, <2>1, <2>2, <2>3, OwedMove
<1>6. ASSUME NEW e \in EntryIds, MarkActive(e) PROVE OwedSafe'
  <2>1. \A u \in owed' : StoredKept(u)
    BY <1>6 DEF MarkActive, redisVars, StoredKept
  <2>2. \A u \in owed' : EntriesKept(u)
    BY <1>6, <1>b DEF MarkActive, EntriesKept, Orphaned
  <2>3. owed' \subseteq owed
    BY <1>6 DEF MarkActive
  <2>. QED
    BY <1>a, <1>b, <2>1, <2>2, <2>3, OwedMove
<1>7. ASSUME NEW e \in EntryIds, Requeue(e) PROVE OwedSafe'
  <2>0. PICK t \in Tasks : t = job[e].task
    BY <1>7, <1>c DEF Requeue
  <2>1. /\ entry[e] = None \/ entry[e] = t
        /\ job' = [job EXCEPT ![e] = NoJob] /\ UNCHANGED <<body, zset, rec, owed>>
    BY <1>7, <1>c, <2>0 DEF Requeue
  <2>2. \A g \in EntryIds : Orphaned(g)' => Orphaned(g)
    BY <1>a, <2>1, ClaimEnds, Zenon
  <2>3. \A u \in owed : StoredKept(u)
    BY <2>1 DEF StoredKept
  <2>4. CASE state[t] = "absent"
    <3>1. t \notin owed
      BY <1>a, <2>4 DEF HashOK, OwedSafe, OwedOK
    <3>2. AckDel(e)
      BY <1>7, <2>0, <2>4 DEF Requeue, AckDel
    <3>3. \A u \in Tasks \ {t} : EntriesKept(u)
      BY <1>a, <2>1, <2>2, <3>2, AckKeeps
    <3>. QED
      BY <1>a, <1>b, <2>1, <2>3, <3>1, <3>3, OwedMove
  <2>5. CASE state[t] # "absent"
    <3>1. PICK f \in EntryIds : Fresh(f) /\ entry' = [entry EXCEPT ![e] = None, ![f] = t]
      BY <1>7, <2>0, <2>5 DEF Requeue
    <3>2. entry'[f] = t
      BY <1>b, <3>1
    <3>3. ~Orphaned(f)'
      BY <2>2, <3>1 DEF Fresh, Orphaned
    <3>4. \A u \in Tasks \ {t} : EntriesKept(u)
      BY <1>b, <2>1, <2>2, <3>1 DEF Fresh, EntriesKept
    <3>5. t \in owed => OwedOK(t)'
      BY <1>a, <2>1, <3>2, <3>3 DEF OwedSafe, OwedOK, Reachable
    <3>. QED
      BY <1>a, <1>b, <2>1, <2>3, <3>4, <3>5, OwedMove
  <2>. QED
    BY <2>4, <2>5
<1>8. ASSUME NEW e \in EntryIds, ProcessSuccess(e) PROVE OwedSafe'
  <2>0. PICK t \in Tasks : t = job[e].task
    BY <1>8, <1>c DEF ProcessSuccess
  <2>1. (entry[e] = None \/ entry[e] = t) /\ owed' = owed \ {t} /\ rec' = rec /\ job' = [job EXCEPT ![e] = NoJob]
    BY <1>8, <1>c, <2>0 DEF ProcessSuccess
  <2>2. MoveToZSet(e, t, job[e].retried, "completed") \/ AckDelHash(e, t)
    BY <1>8, <2>0 DEF ProcessSuccess
  <2>3. AckDel(e) /\ \A u \in Tasks \ {t} : StoredKept(u)
    BY <1>a, <2>2, MoveKeeps DEF ZSets
  <2>4. \A g \in EntryIds : Orphaned(g)' => Orphaned(g)
    BY <1>a, <2>1, ClaimEnds, Zenon
  <2>5. \A u \in Tasks \ {t} : EntriesKept(u)
    BY <1>a, <2>1, <2>3, <2>4, AckKeeps
  <2>. QED
    BY <1>a, <1>b, <2>1, <2>3, <2>5, OwedMove
<1>9. ASSUME NEW e \in EntryIds, ProcessRetry(e) PROVE OwedSafe'
  <2>0. PICK t \in Tasks : t = job[e].task
    BY <1>9, <1>c DEF ProcessRetry
  <2>1. (entry[e] = None \/ entry[e] = t) /\ owed' = owed /\ rec' = rec /\ job' = [job EXCEPT ![e] = NoJob]
    BY <1>9, <1>c, <2>0 DEF ProcessRetry
  <2>2. PICK n \in Nat : MoveToZSet(e, t, n, "retry")
    <3>1. MoveToZSet(e, t, job[e].retried + 1, "retry")
      BY <1>9, <2>0 DEF ProcessRetry
    <3>2. job[e].retried + 1 \in Nat
      BY <1>9, <1>c DEF ProcessRetry
    <3>. QED
      BY <3>1, <3>2
  <2>3. AckDel(e) /\ \A u \in Tasks \ {t} : StoredKept(u)
    BY <1>a, <2>2, MoveKeeps, Zenon DEF ZSets
  <2>4. \A g \in EntryIds : Orphaned(g)' => Orphaned(g)
    BY <1>a, <2>1, ClaimEnds, Zenon
  <2>5. \A u \in Tasks \ {t} : EntriesKept(u)
    BY <1>a, <2>1, <2>3, <2>4, AckKeeps
  <2>6. /\ body'[t] = n /\ t \in zset'["retry"]
        /\ zset'["archived"] = zset["archived"] /\ zset'["completed"] = zset["completed"]
    BY <1>b, <2>2 DEF MoveToZSet, WriteHash, ZAdd, ZSets
  <2>7. t \in owed => OwedOK(t)'
    <3>1. body'[t] # NoBody
      BY <2>2, <2>6 DEF NoBody
    <3>2. t \in owed => t \notin zset["archived"] \cup zset["completed"]
      BY <1>a DEF OwedSafe, OwedOK
    <3>. QED
      BY <2>6, <3>1, <3>2 DEF OwedOK, Reachable
  <2>. QED
    BY <1>a, <1>b, <2>1, <2>3, <2>5, <2>7, OwedMove
<1>10. ASSUME NEW e \in EntryIds, ProcessDeadLetter(e) PROVE OwedSafe'
  <2>0. PICK t \in Tasks : t = job[e].task
    BY <1>10, <1>c DEF ProcessDeadLetter
  <2>1. (entry[e] = None \/ entry[e] = t) /\ owed' = owed \ {t} /\ rec' = rec /\ job' = [job EXCEPT ![e] = NoJob]
    BY <1>10, <1>c, <2>0 DEF ProcessDeadLetter
  <2>2. MoveToZSet(e, t, job[e].retried, "archived") \/ AckDelHash(e, t)
    BY <1>10, <2>0 DEF ProcessDeadLetter
  <2>3. AckDel(e) /\ \A u \in Tasks \ {t} : StoredKept(u)
    BY <1>a, <2>2, MoveKeeps DEF ZSets
  <2>4. \A g \in EntryIds : Orphaned(g)' => Orphaned(g)
    BY <1>a, <2>1, ClaimEnds, Zenon
  <2>5. \A u \in Tasks \ {t} : EntriesKept(u)
    BY <1>a, <2>1, <2>3, <2>4, AckKeeps
  <2>. QED
    BY <1>a, <1>b, <2>1, <2>3, <2>5, OwedMove
<1>11. ASSUME NEW e \in EntryIds, JobLost(e) PROVE OwedSafe'
  <2>1. \A u \in owed' : StoredKept(u)
    BY <1>11 DEF JobLost, redisVars, StoredKept
  <2>2. \A u \in owed' : EntriesKept(u)
    <3>1. \A f \in EntryIds : Orphaned(f)' => Orphaned(f)
      BY <1>11, <1>a, ClaimEnds, Zenon DEF JobLost
    <3>. QED
      BY <1>11, <3>1 DEF JobLost, redisVars, EntriesKept
  <2>3. owed' \subseteq owed
    BY <1>11 DEF JobLost
  <2>. QED
    BY <1>a, <1>b, <2>1, <2>2, <2>3, OwedMove
<1>12. ASSUME NEW z \in ZSets, NEW t \in Tasks, Forward(z, t) PROVE OwedSafe'
  <2>1. PICK f \in EntryIds : XAdd(f, t)
    BY <1>12 DEF Forward
  <2>2. \A u \in owed \ {t} : StoredKept(u)
    BY <1>12, <1>b DEF Forward, ZRem, StoredKept
  <2>3. entry'[f] = t /\ ~Orphaned(f)' /\ \A u \in Tasks : EntriesKept(u)
    BY <1>12, <1>a, <2>1, XAddKeeps DEF Forward
  <2>4. t \in owed => OwedOK(t)'
    BY <1>12, <1>a, <1>b, <2>3 DEF Forward, ZRem, OwedSafe, OwedOK, Reachable, ZSets
  <2>5. owed' = owed
    BY <1>12 DEF Forward
  <2>. QED
    BY <1>a, <1>b, <2>2, <2>3, <2>4, <2>5, OwedMove
<1>13. ASSUME NEW s \in Servers, NEW e \in EntryIds, RecoverClaim(s, e) PROVE OwedSafe'
  <2>1. \A u \in owed' : StoredKept(u)
    BY <1>13 DEF RecoverClaim, redisVars, StoredKept
  <2>2. \A u \in owed' : EntriesKept(u)
    <3>1. \A f \in EntryIds : Orphaned(f)' => Orphaned(f)
      BY <1>13, <1>b DEF RecoverClaim, Orphaned
    <3>. QED
      BY <1>13, <3>1 DEF RecoverClaim, redisVars, EntriesKept
  <2>3. owed' \subseteq owed
    BY <1>13 DEF RecoverClaim
  <2>. QED
    BY <1>a, <1>b, <2>1, <2>2, <2>3, OwedMove
<1>14. ASSUME NEW s \in Servers, RecoverLoad(s) PROVE OwedSafe'
  <2>1. \A u \in owed' : StoredKept(u)
    BY <1>14 DEF RecoverLoad, redisVars, StoredKept
  <2>2. \A u \in owed' : EntriesKept(u)
    <3>1. ASSUME NEW u \in owed, NEW f \in EntryIds, entry[f] = u, Orphaned(f)' PROVE Orphaned(f)
      <4>1. CASE f = rec[s].entry
        <5>1. u = rec[s].task /\ body[u] # NoBody
          BY <1>14, <1>a, <1>b, <1>c, <3>1, <4>1 DEF RecoverLoad, OwedSafe, OwedOK
        <5>2. rec'[s].phase = "loaded"
          BY <1>14, <1>b, <5>1, SMTT(20) DEF RecoverLoad, Loaded
        <5>. QED
          BY <1>14, <1>b, <3>1, <5>2, SMTT(20) DEF RecoverLoad, Orphaned
      <4>2. CASE f # rec[s].entry
        BY <1>14, <1>b, <3>1, <4>2 DEF RecoverLoad, Orphaned
      <4>. QED
        BY <4>1, <4>2
    <3>. QED
      BY <1>14, <3>1 DEF RecoverLoad, redisVars, EntriesKept
  <2>3. owed' \subseteq owed
    BY <1>14 DEF RecoverLoad
  <2>. QED
    BY <1>a, <1>b, <2>1, <2>2, <2>3, OwedMove
<1>15. ASSUME NEW s \in Servers, RecoverTrim(s) PROVE OwedSafe'
  <2>1. \A u \in owed' : StoredKept(u)
    BY <1>15 DEF RecoverTrim, redisVars, StoredKept
  <2>2. \A u \in owed' : EntriesKept(u)
    <3>1. \A f \in EntryIds : Orphaned(f)' => Orphaned(f)
      BY <1>15, <1>a, ClaimEnds, Zenon DEF RecoverTrim
    <3>2. Orphaned(rec[s].entry)
      BY <1>15 DEF RecoverTrim, Orphaned
    <3>. QED
      BY <1>15, <1>b, <1>c, <3>1, <3>2 DEF RecoverTrim, AckDel, EntriesKept
  <2>3. owed' \subseteq owed
    BY <1>15 DEF RecoverTrim
  <2>. QED
    BY <1>a, <1>b, <2>1, <2>2, <2>3, OwedMove
<1>16. ASSUME NEW s \in Servers, RecoverRetry(s) PROVE OwedSafe'
  <2>0. PICK t \in Tasks, f \in EntryIds : t = rec[s].task /\ f = rec[s].entry
    BY <1>16, <1>c DEF RecoverRetry
  <2>1. (entry[f] = None \/ entry[f] = t) /\ owed' = owed /\ job' = job /\ rec' = [rec EXCEPT ![s] = NoRec]
    BY <1>16, <1>c, <2>0 DEF RecoverRetry
  <2>2. PICK n \in Nat : MoveToZSet(f, t, n, "retry")
    <3>1. MoveToZSet(f, t, rec[s].retried + 1, "retry")
      BY <1>16, <2>0 DEF RecoverRetry
    <3>2. rec[s].retried + 1 \in Nat
      BY <1>16, <1>c DEF RecoverRetry
    <3>. QED
      BY <3>1, <3>2
  <2>3. AckDel(f) /\ \A u \in Tasks \ {t} : StoredKept(u)
    BY <1>a, <2>2, MoveKeeps DEF ZSets
  <2>4. \A g \in EntryIds : Orphaned(g)' => Orphaned(g)
    BY <1>a, <2>1, ClaimEnds, Zenon
  <2>5. \A u \in Tasks \ {t} : EntriesKept(u)
    BY <1>a, <2>1, <2>3, <2>4, AckKeeps
  <2>6. /\ body'[t] = n /\ t \in zset'["retry"]
        /\ zset'["archived"] = zset["archived"] /\ zset'["completed"] = zset["completed"]
    BY <1>b, <2>2 DEF MoveToZSet, WriteHash, ZAdd, ZSets
  <2>7. t \in owed => OwedOK(t)'
    <3>1. body'[t] # NoBody
      BY <2>2, <2>6 DEF NoBody
    <3>2. t \in owed => t \notin zset["archived"] \cup zset["completed"]
      BY <1>a DEF OwedSafe, OwedOK
    <3>. QED
      BY <2>6, <3>1, <3>2 DEF OwedOK, Reachable
  <2>. QED
    BY <1>a, <1>b, <2>1, <2>3, <2>5, <2>7, OwedMove
<1>17. ASSUME NEW s \in Servers, RecoverArchive(s) PROVE OwedSafe'
  <2>0. PICK t \in Tasks, f \in EntryIds : t = rec[s].task /\ f = rec[s].entry
    BY <1>17, <1>c DEF RecoverArchive
  <2>1. (entry[f] = None \/ entry[f] = t) /\ owed' = owed \ {t} /\ job' = job /\ rec' = [rec EXCEPT ![s] = NoRec]
    BY <1>17, <1>c, <2>0 DEF RecoverArchive
  <2>2. MoveToZSet(f, t, rec[s].retried, "archived") \/ AckDelHash(f, t)
    BY <1>17, <2>0 DEF RecoverArchive
  <2>3. AckDel(f) /\ \A u \in Tasks \ {t} : StoredKept(u)
    BY <1>a, <2>2, MoveKeeps DEF ZSets
  <2>4. \A g \in EntryIds : Orphaned(g)' => Orphaned(g)
    BY <1>a, <2>1, ClaimEnds, Zenon
  <2>5. \A u \in Tasks \ {t} : EntriesKept(u)
    BY <1>a, <2>1, <2>3, <2>4, AckKeeps
  <2>. QED
    BY <1>a, <1>b, <2>1, <2>3, <2>5, OwedMove
<1>18. ASSUME NEW s \in Servers, RecoverLost(s) PROVE OwedSafe'
  <2>1. \A u \in owed' : StoredKept(u)
    BY <1>18 DEF RecoverLost, redisVars, StoredKept
  <2>2. \A u \in owed' : EntriesKept(u)
    <3>1. \A f \in EntryIds : Orphaned(f)' => Orphaned(f)
      BY <1>18, <1>a, ClaimEnds, Zenon DEF RecoverLost
    <3>. QED
      BY <1>18, <3>1 DEF RecoverLost, redisVars, EntriesKept
  <2>3. owed' \subseteq owed
    BY <1>18 DEF RecoverLost
  <2>. QED
    BY <1>a, <1>b, <2>1, <2>2, <2>3, OwedMove
<1>19. ASSUME NEW z \in ZSets, NEW t \in Tasks, Trim(z, t) PROVE OwedSafe'
  <2>1. \A u \in owed' : StoredKept(u)
    <3>1. t \notin owed
      BY <1>19, <1>a DEF Trim, OwedSafe, OwedOK
    <3>. QED
      BY <1>19, <1>b, <3>1 DEF Trim, DelHash, ZRem, StoredKept
  <2>2. \A u \in owed' : EntriesKept(u)
    BY <1>19 DEF Trim, EntriesKept, Orphaned
  <2>3. owed' \subseteq owed
    BY <1>19 DEF Trim
  <2>. QED
    BY <1>a, <1>b, <2>1, <2>2, <2>3, OwedMove
<1>20. ASSUME NEW t \in Tasks, RunTask(t) PROVE OwedSafe'
  <2>1. \A u \in owed \ {t} : StoredKept(u)
    BY <1>20, <1>b DEF RunTask, ZRem, StoredKept
  <2>2. CASE state[t] = "absent"
    <3>1. t \notin owed /\ owed' = owed
      BY <1>20, <1>a, <2>2 DEF RunTask, HashOK, OwedSafe, OwedOK
    <3>2. \A u \in Tasks : EntriesKept(u)
      BY <1>20, <2>2 DEF RunTask, EntriesKept, Orphaned
    <3>. QED
      BY <1>a, <1>b, <2>1, <3>1, <3>2, OwedMove, SMTT(20)
  <2>3. CASE state[t] # "absent"
    <3>1. PICK f \in EntryIds : XAdd(f, t)
      BY <1>20, <2>3 DEF RunTask
    <3>2. entry'[f] = t /\ ~Orphaned(f)' /\ \A u \in Tasks : EntriesKept(u)
      BY <1>20, <1>a, <3>1, XAddKeeps DEF RunTask
    <3>3. owed' \subseteq owed \cup {t} /\ (t \in owed' => body[t] # NoBody) /\ body' = body
      BY <1>20, <1>a, <2>3 DEF RunTask, OwedSafe, OwedOK
    <3>4. \A z \in ZSets : t \notin zset'[z]
      BY <1>20 DEF RunTask, ZRem
    <3>5. t \in owed' => OwedOK(t)'
      BY <3>2, <3>3, <3>4 DEF OwedOK, Reachable, ZSets
    <3>. QED
      BY <1>a, <1>b, <2>1, <3>2, <3>3, <3>5, OwedMove
  <2>. QED
    BY <2>2, <2>3
<1>21. ASSUME NEW t \in Tasks, DeleteTask(t) PROVE OwedSafe'
  <2>1. \A u \in owed' : StoredKept(u)
    BY <1>21, <1>b DEF DeleteTask, DelHash, ZRem, StoredKept
  <2>2. \A u \in owed' : EntriesKept(u)
    BY <1>21 DEF DeleteTask, EntriesKept, Orphaned
  <2>3. owed' \subseteq owed
    BY <1>21 DEF DeleteTask
  <2>. QED
    BY <1>a, <1>b, <2>1, <2>2, <2>3, OwedMove
<1>22. ASSUME NEW t \in Tasks, ReleaseUnique(t) PROVE OwedSafe'
  <2>1. \A u \in owed' : StoredKept(u)
    BY <1>22 DEF ReleaseUnique, redisVars, StoredKept
  <2>2. \A u \in owed' : EntriesKept(u)
    BY <1>22 DEF ReleaseUnique, redisVars, EntriesKept, Orphaned
  <2>3. owed' \subseteq owed
    BY <1>22 DEF ReleaseUnique
  <2>. QED
    BY <1>a, <1>b, <2>1, <2>2, <2>3, OwedMove
<1>23. ASSUME NEW t \in Tasks, ReleaseLost(t) PROVE OwedSafe'
  <2>1. \A u \in owed' : StoredKept(u)
    BY <1>23 DEF ReleaseLost, redisVars, StoredKept
  <2>2. \A u \in owed' : EntriesKept(u)
    BY <1>23 DEF ReleaseLost, redisVars, EntriesKept, Orphaned
  <2>3. owed' \subseteq owed
    BY <1>23 DEF ReleaseLost
  <2>. QED
    BY <1>a, <1>b, <2>1, <2>2, <2>3, OwedMove
<1>24. ASSUME NEW k \in Keys, LockExpire(k) PROVE OwedSafe'
  <2>1. \A u \in owed' : StoredKept(u)
    BY <1>24 DEF LockExpire, redisVars, StoredKept
  <2>2. \A u \in owed' : EntriesKept(u)
    BY <1>24 DEF LockExpire, redisVars, EntriesKept, Orphaned
  <2>3. owed' \subseteq owed
    BY <1>24 DEF LockExpire
  <2>. QED
    BY <1>a, <1>b, <2>1, <2>2, <2>3, OwedMove
<1>25. CASE UNCHANGED vars
  <2>1. UNCHANGED <<body, zset, entry, job, rec, owed>>
    BY <1>25 DEF vars
  <2>2. \A u \in owed : StoredKept(u) /\ EntriesKept(u)
    BY <2>1 DEF StoredKept, EntriesKept, Orphaned
  <2>. QED
    BY <1>a, <1>b, <2>1, <2>2, OwedMove
<1>. QED
    BY <1>1, <1>2, <1>3, <1>4, <1>5, <1>6, <1>7, <1>8, <1>9, <1>10, <1>11,
       <1>12, <1>13, <1>14, <1>15, <1>16, <1>17, <1>18, <1>19, <1>20, <1>21,
       <1>22, <1>23, <1>24, <1>25
       DEF Next, ClientStep, ForwarderStep, JanitorStep, InspectorStep, WorkerStep,
           RecoverStep, LockStep

\* The invariant that AtLeastOnce rests on holds in an empty queue.
LEMMA InitIInv == Init => IInv
<1>1. Init => HashOK /\ OwedSafe
    BY DEF Init, HashOK, OwedSafe
<1>2. Init => Consistent
  <2>1. Init => \A e \in EntryIds : job[e].phase = "none"
    BY DEF Init, NoJob
  <2>2. Init => \A s \in Servers : rec[s].phase = "none"
    BY DEF Init, NoRec
  <2>. QED
    BY <2>1, <2>2 DEF Consistent
<1>. QED
    BY <1>1, <1>2, InitType DEF IInv

\* Every step keeps it.
LEMMA StepIInv == IInv /\ [Next]_vars => IInv'
  BY TypeStep, HashStep, ConsistentStep, OwedStep DEF IInv

\* At-least-once delivery: whatever is interleaved, reclaimed early, lost,
\* trimmed or re-run, an accepted task without an outcome keeps its body and
\* stays where the forwarder, a worker or the recoverer will find it.
THEOREM AtLeastOnce == Spec => []NoTaskLost
<1>1. IInv => NoTaskLost
    BY DEF IInv, OwedSafe, OwedOK, NoTaskLost
<1>. QED
    BY <1>1, InitIInv, StepIInv, PTL DEF Spec
=============================================================================
