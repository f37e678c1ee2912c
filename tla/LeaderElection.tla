--------------------------- MODULE LeaderElection ---------------------------
(***************************************************************************)
(* The scheduler's leader election: one Redis key with a TTL, acquired or  *)
(* renewed by each instance's run goroutine and released by its Shutdown.  *)
(* The two goroutines of an instance interleave, and the election script   *)
(* is in flight between the context test and the use of its reply.         *)
(*                                                                         *)
(* Time is counted in ticks: what is left of the key's TTL and of each     *)
(* instance's renew ticker. An instance is a process: once it has stopped  *)
(* it does not come back (a restart draws a new instance ID).              *)
(***************************************************************************)
EXTENDS Integers

CONSTANTS
    Instances,      \* scheduler instances
    NoLeader,       \* the leader key is absent
    LeaderTTL,      \* SchedulerConfig.LeaderTTL, in ticks
    MaxRenew,       \* the 20 s cap on the renew interval, in ticks
    Stalls,         \* TRUE: an instance may stall past its timers
    Errors          \* TRUE: a Redis call may fail

ASSUME LeaderAssumption ==
    /\ NoLeader \notin Instances
    /\ LeaderTTL \in Nat /\ LeaderTTL >= 2
    /\ MaxRenew \in Nat \ {0}
    /\ Stalls \in BOOLEAN /\ Errors \in BOOLEAN

VARIABLES
    leader,     \* the leader key
    ttl,        \* ticks until the key expires
    status,     \* new, running, cancelled, resigned, skipped or crashed
    isLeader,   \* Scheduler.isLeader
    pc,         \* what the run goroutine is doing
    due,        \* ticks until the renew ticker fires
    notified,   \* instances with a resign message to read
    lost        \* history: instances whose latest election call failed

electionVars == <<leader, ttl, status, isLeader, pc, due, notified, lost>>

\* Shutdown has ended its resign step: "resigned" if it called
\* ResignLeadership with success, "skipped" if it did not.
Statuses == {"new", "running", "cancelled", "resigned", "skipped", "crashed"}
PCs == {"idle", "elect", "granted", "denied", "exit"}

\* Mutant: renews when the term ends.
RenewAtTTL == LeaderTTL

RenewEvery ==
    IF LeaderTTL \div 2 > MaxRenew THEN MaxRenew ELSE LeaderTTL \div 2

Init ==
    /\ leader = NoLeader
    /\ ttl = 0
    /\ status = [i \in Instances |-> "new"]
    /\ isLeader = [i \in Instances |-> FALSE]
    /\ pc = [i \in Instances |-> "exit"]
    /\ due = [i \in Instances |-> 0]
    /\ notified = {}
    /\ lost = {}

Running(i) == status[i] = "running"

ShuttingDown(i) == status[i] \in {"cancelled", "resigned", "skipped"}

-----------------------------------------------------------------------------
(* The run goroutine. *)

Start(i) ==
    /\ status[i] = "new"
    /\ status' = [status EXCEPT ![i] = "running"]
    /\ pc' = [pc EXCEPT ![i] = "idle"]
    /\ UNCHANGED <<leader, ttl, isLeader, due, notified, lost>>

\* tryElect up to the call: at the start and on the renew ticker, or on a
\* resign message.
TryElect(i) ==
    /\ pc[i] = "idle"
    /\ Running(i)
    /\ \/ /\ due[i] = 0
          /\ due' = [due EXCEPT ![i] = RenewEvery]
          /\ UNCHANGED notified
       \/ /\ i \in notified
          /\ notified' = notified \ {i}
          /\ UNCHANGED due
    /\ pc' = [pc EXCEPT ![i] = "elect"]
    /\ UNCHANGED <<leader, ttl, status, isLeader, lost>>

\* Mutant: takes the key from whoever holds it.
AcquireAlways(i) ==
    /\ pc[i] = "elect"
    /\ leader' = i
    /\ ttl' = LeaderTTL
    /\ pc' = [pc EXCEPT ![i] = "granted"]
    /\ UNCHANGED <<status, isLeader, due, notified, lost>>

\* Mutant: a vacant key is set without its PX.
AcquireNoTTL(i) ==
    /\ pc[i] = "elect"
    /\ leader \in {NoLeader, i}
    /\ leader' = i
    /\ pc' = [pc EXCEPT ![i] = "granted"]
    /\ UNCHANGED <<ttl, status, isLeader, due, notified, lost>>

\* Mutant: PEXPIRE for any caller, so that a follower's poll keeps a dead
\* leader's key alive.
AcquireRefreshes(i) ==
    /\ pc[i] = "elect"
    /\ leader' = IF leader = NoLeader THEN i ELSE leader
    /\ ttl' = LeaderTTL
    /\ pc' = [pc EXCEPT ![i] = IF leader' = i THEN "granted" ELSE "denied"]
    /\ UNCHANGED <<status, isLeader, due, notified, lost>>

\* acquireOrRenewCmd reaches Redis.
AcquireOrRenew(i) ==
    /\ pc[i] = "elect"
    /\ IF leader \in {NoLeader, i}
       THEN /\ leader' = i
            /\ ttl' = LeaderTTL
            /\ pc' = [pc EXCEPT ![i] = "granted"]
       ELSE /\ pc' = [pc EXCEPT ![i] = "denied"]
            /\ UNCHANGED <<leader, ttl>>
    /\ UNCHANGED <<status, isLeader, due, notified, lost>>

ElectReply(i) ==
    /\ pc[i] \in {"granted", "denied"}
    /\ isLeader' = [isLeader EXCEPT ![i] = (pc[i] = "granted")]
    /\ lost' = lost \ {i}
    /\ pc' = [pc EXCEPT ![i] = "idle"]
    /\ UNCHANGED <<leader, ttl, status, due, notified>>

\* The call fails, before or after the script ran, or is not begun because the
\* context was cancelled: isLeader stays as it is.
ElectError(i) ==
    /\ pc[i] \in {"elect", "granted", "denied"}
    /\ Errors \/ (ShuttingDown(i) /\ pc[i] = "elect")
    /\ lost' = lost \cup {i}
    /\ pc' = [pc EXCEPT ![i] = "idle"]
    /\ UNCHANGED <<leader, ttl, status, isLeader, due, notified>>

RunExit(i) ==
    /\ pc[i] = "idle"
    /\ ShuttingDown(i)
    /\ pc' = [pc EXCEPT ![i] = "exit"]
    /\ UNCHANGED <<leader, ttl, status, isLeader, due, notified, lost>>

-----------------------------------------------------------------------------
(* Shutdown, crashes and time. *)

ShutdownCancel(i) ==
    /\ Running(i)
    /\ status' = [status EXCEPT ![i] = "cancelled"]
    /\ UNCHANGED <<leader, ttl, isLeader, pc, due, notified, lost>>

\* isLeader was loaded as true: ResignLeadership releases the key if it is
\* still held, then tells the subscribers; pub/sub may lose the message.
ShutdownResign(i) ==
    /\ status[i] = "cancelled"
    /\ isLeader[i]
    /\ leader' = IF leader = i THEN NoLeader ELSE leader
    /\ ttl' = IF leader = i THEN 0 ELSE ttl
    /\ \E heard \in SUBSET {j \in Instances : Running(j)} : notified' = notified \cup heard
    /\ status' = [status EXCEPT ![i] = "resigned"]
    /\ UNCHANGED <<isLeader, pc, due, lost>>

\* isLeader was loaded as false, or the resign call failed.
ShutdownSkip(i) ==
    /\ status[i] = "cancelled"
    /\ ~isLeader[i] \/ Errors
    /\ status' = [status EXCEPT ![i] = "skipped"]
    /\ UNCHANGED <<leader, ttl, isLeader, pc, due, notified, lost>>

Crash(i) ==
    /\ Running(i) \/ ShuttingDown(i)
    /\ status' = [status EXCEPT ![i] = "crashed"]
    /\ pc' = [pc EXCEPT ![i] = "exit"]
    /\ UNCHANGED <<leader, ttl, isLeader, due, notified, lost>>

\* No call is open, and every instance that runs has served its renew ticker
\* and read its resign messages.
OnTime ==
    \A i \in Instances :
        /\ pc[i] \in {"idle", "exit"}
        /\ Running(i) => due[i] > 0 /\ i \notin notified

Down(n) == IF n = 0 THEN 0 ELSE n - 1

\* One tick passes, and the key expires when its TTL is used up.
Tick ==
    /\ Stalls \/ OnTime
    /\ ttl' = Down(ttl)
    /\ leader' = IF ttl' = 0 THEN NoLeader ELSE leader
    /\ due' = [i \in Instances |-> Down(due[i])]
    /\ UNCHANGED <<status, isLeader, pc, notified, lost>>

RunStep(i) ==
    TryElect(i) \/ AcquireOrRenew(i) \/ ElectReply(i) \/ ElectError(i) \/ RunExit(i)

OtherStep(i) == Start(i) \/ ShutdownCancel(i) \/ ShutdownResign(i) \/ ShutdownSkip(i) \/ Crash(i)

Next ==
    \/ \E i \in Instances : RunStep(i) \/ OtherStep(i)
    \/ Tick

Spec == Init /\ [][Next]_electionVars

-----------------------------------------------------------------------------
(* Properties. *)

\* Every variable keeps its type, and the key has a TTL exactly while it
\* exists (SET PX and PEXPIRE always give it one).
TypeOK ==
    /\ leader \in Instances \cup {NoLeader}
    /\ ttl \in 0 .. LeaderTTL
    /\ ttl = 0 <=> leader = NoLeader
    /\ status \in [Instances -> Statuses]
    /\ isLeader \in [Instances -> BOOLEAN]
    /\ pc \in [Instances -> PCs]
    /\ due \in [Instances -> 0 .. RenewEvery]
    /\ notified \subseteq Instances
    /\ lost \subseteq Instances

\* "Safe to call on every instance; only the leader enqueues"
\* (scheduler.go:151): while no instance stalls past its timers, an instance
\* that acts as leader is the one the key names, unless its own latest call
\* failed; failed calls of the others do not matter.
SoleLeader == \A i \in Instances \ lost : Running(i) /\ isLeader[i] => leader = i

\* A healthy leader keeps its term: the key never passes from an instance
\* that runs, renews on its ticker and has its calls answered to anyone else.
TermKept ==
    [][\A i \in Instances \ lost :
          leader = i /\ Running(i) /\ Running(i)' => leader' = i]_electionVars

-----------------------------------------------------------------------------
(* The ticker, the goroutine and Redis keep going; calls are answered.      *)
Fairness ==
    /\ WF_electionVars(Tick)
    /\ \A i \in Instances :
          /\ WF_electionVars(TryElect(i))
          /\ SF_electionVars(AcquireOrRenew(i))
          /\ WF_electionVars(ElectReply(i))
          /\ SF_electionVars(pc[i] = "granted" /\ ElectReply(i))

FairSpec == Spec /\ Fairness

\* Failover: as long as some instance runs, one that runs becomes leader,
\* after any crash, shutdown or finite run of failed calls of the one before.
Failover ==
    \A i \in Instances :
        Running(i) ~> (~Running(i) \/ \E j \in Instances : Running(j) /\ isLeader[j] /\ leader = j)
=============================================================================
