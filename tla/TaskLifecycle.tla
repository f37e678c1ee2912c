--------------------------- MODULE TaskLifecycle ---------------------------
(***************************************************************************)
(* What a queue promises of each task, without the stream, the ZSETs, the  *)
(* loops and the crashes that keep the promise: a task is in one stage at  *)
(* a time, moves along the edges below, and spends a retry exactly when a  *)
(* run of it ends in "retry". TaskQueue implements this specification.     *)
(***************************************************************************)
EXTENDS Integers

CONSTANTS
    Tasks,          \* task IDs
    MaxRetry,       \* the retries each task may spend
    NoArchive,      \* tasks that may be discarded instead of archived
    Retained,       \* tasks that are kept when they have completed
    Operator        \* the operator calls in use: RunTask, DeleteTask

VARIABLES
    stage,      \* where each task is
    spent       \* how many retries it has spent

lifeVars == <<stage, spent>>

Waiting == {"scheduled", "retry"}
Finished == {"archived", "completed"}
Stages == {"absent", "pending", "held"} \cup Waiting \cup Finished

Init ==
    /\ stage = [t \in Tasks |-> "absent"]
    /\ spent = [t \in Tasks |-> 0]

\* Task t goes from one of the stages From to the stage to with n retries spent.
Move(t, From, to, n) ==
    /\ stage[t] \in From
    /\ stage' = [stage EXCEPT ![t] = to]
    /\ spent' = [spent EXCEPT ![t] = n]

\* A client submits t, anew or under an ID whose last task has ended.
Submit(t) ==
    \E to \in {"pending", "scheduled"} : Move(t, Finished \cup {"absent"}, to, 0)

Promote(t) == Move(t, Waiting, "pending", spent[t])

\* A worker or a recoverer takes t, and gives it back without an outcome.
Take(t) == Move(t, {"pending"}, "held", spent[t])
GiveBack(t) == Move(t, {"held"}, "pending", spent[t])

Succeed(t) ==
    IF t \in Retained
    THEN Move(t, {"held"}, "completed", spent[t])
    ELSE Move(t, {"held"}, "absent", 0)

Fail(t) ==
    /\ spent[t] < MaxRetry[t]
    /\ Move(t, {"held"}, "retry", spent[t] + 1)

\* The recoverer archives a NoArchive task as well.
Die(t) ==
    \/ Move(t, {"held"}, "archived", spent[t])
    \/ t \in NoArchive /\ Move(t, {"held"}, "absent", 0)

Expire(t) == Move(t, Finished, "absent", 0)

Rerun(t) ==
    /\ "RunTask" \in Operator
    /\ Move(t, Waiting \cup Finished, "pending", spent[t])

\* A task in somebody's hands is gone only once they let go of it.
Delete(t) ==
    /\ "DeleteTask" \in Operator
    /\ Move(t, Stages \ {"absent"}, "absent", 0)

Next ==
    \E t \in Tasks :
        \/ Submit(t) \/ Promote(t) \/ Take(t) \/ GiveBack(t)
        \/ Succeed(t) \/ Fail(t) \/ Die(t) \/ Expire(t)
        \/ Rerun(t) \/ Delete(t)

Spec == Init /\ [][Next]_lifeVars
=============================================================================
