---------------------------- MODULE TaskLifecycle ----------------------------
(***************************************************************************)
(* What the platform promises of one provisioning task, whoever writes it: *)
(* the user through the API, or the executor through its store adapter.    *)
(* A task that ended (succeeded, failed or cancelled) comes back only when *)
(* a user retries it, and a task that succeeded never changes again.       *)
(***************************************************************************)
CONSTANT TaskId        \* the identifiers of the tasks

VARIABLE status        \* status[t]: the stored status of task t, or "none"

TaskStatus == {"pending", "running", "succeeded", "failed", "cancelled"}

TypeOK == status \in [TaskId -> TaskStatus \cup {"none"}]

Init == status = [t \in TaskId |-> "none"]

Move(t, from, to) ==
    /\ status[t] \in from
    /\ status' = [status EXCEPT ![t] = to]

Create(t) == Move(t, {"none"}, "pending")

Start(t)  == Move(t, {"pending", "running"}, "running")

\* A retry that overtakes the executor's answer leaves the task pending: the
\* answer of the first attempt may then end it.
Finish(t) == \E to \in {"succeeded", "failed"} : Move(t, {"pending", "running"}, to)

Cancel(t) == Move(t, {"pending", "running", "failed"}, "cancelled")

Retry(t)  == Move(t, {"failed", "cancelled"}, "pending")

\* Deleting a node removes all of its tasks in one write.
Remove(T) == status' = [t \in TaskId |-> IF t \in T THEN "none" ELSE status[t]]

Next ==
    \/ \E t \in TaskId : Create(t) \/ Start(t) \/ Finish(t) \/ Cancel(t) \/ Retry(t)
    \/ \E T \in SUBSET TaskId : Remove(T)

Spec == Init /\ [][Next]_status
=============================================================================
