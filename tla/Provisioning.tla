----------------------------- MODULE Provisioning -----------------------------
(***************************************************************************)
(* Automatic provisioning of cluster nodes.  Users create, retry and       *)
(* cancel tasks and edit and delete nodes through the service, each in one *)
(* write to the store.  The executor's poll loop lists the tasks, runs the *)
(* pending ones (at most Concurrency at once, one goroutine per task) and  *)
(* saves what it finds from copies it read earlier; then it collects the   *)
(* nodes' metrics.  Users, too, edit a node from the copy their browser    *)
(* loaded last.  Every call of the executor to the store is a step of   *)
(* its own: all interleavings with the users are possible.                 *)
(***************************************************************************)
EXTENDS Naturals, FiniteSets

CONSTANTS
    Node,          \* identifiers of cluster nodes
    Browser,       \* the web clients users edit nodes with
    MaxTasks,      \* bound on the tasks ever created
    SgxChoice,     \* the values of EnableSGX users ask for
    Concurrency,   \* capacity of the semaphore, Config.ProvisioningConcurrency
    Limit,         \* Limit[op]: bound on how often op happens, for op in Budgeted
    NoNode, NoTask \* no record

TaskId == 1..MaxTasks

Budgeted == {"save", "delete", "retry", "cancel", "crash", "storeError"}

(***************************************************************************)
(* The steps of a task, in order: preflight, K3s server or agent install,  *)
(* runtime verification, SGX/DCAP, final verification.                     *)
(***************************************************************************)
Preflight == 1
K3sInstall == 2
RuntimeVerify == 3
SgxInstall == 4
FinalVerify == 5
Step == 1..5

TaskStatus == {"pending", "running", "succeeded", "failed", "cancelled"}
StepStatus == {"pending", "running", "succeeded", "failed", "skipped", "absent"}

\* aged: UpdatedAt lies more than 30 minutes back
Task == [node : Node, sgx : BOOLEAN, status : TaskStatus,
         steps : [Step -> StepStatus], aged : BOOLEAN]

\* The fields SaveClusterNodeStatus overwrites.
NodeRecord == [status  : {"credential_ready", "ready", "unreachable"},
               prov    : TaskStatus,
               task    : TaskId \cup {NoTask},
               runtime : {"unknown", "pending", "ready"},
               sgx     : {"unknown", "pending", "ready"}]

ASSUME ConstantsAssumption ==
    /\ MaxTasks \in Nat
    /\ SgxChoice \subseteq BOOLEAN
    /\ Concurrency \in Nat \ {0}
    /\ Limit \in [Budgeted -> Nat]
    /\ NoNode \notin NodeRecord
    /\ NoTask \notin Task
    /\ NoTask \notin TaskId

VARIABLES
    tasks,     \* the store: tasks by identifier
    nodes,     \* the store: nodes by identifier
    created,   \* how many tasks have been created: the last identifier in use
    phase,     \* where the poll goroutine is
    listed,    \* the tasks it listed and has not looked at yet, as it listed them
    seen,      \* the nodes it listed and still needs, as it listed them
    runner,    \* the goroutine of each task, with its copies of task and node
    page,      \* page[b]: the nodes that browser b loaded last
    ran,       \* ran[n]: the steps whose command succeeded on the machine of n
    used,      \* how much of each bound is used up
    outdated   \* history: the nodes an edit gave an outdated record, until a
               \* task of theirs is saved

store == <<tasks, nodes, created, outdated>>
pollVars == <<phase, listed, seen>>
outside == <<page, ran>>
vars == <<store, pollVars, runner, outside, used>>

Idle == [pc |-> "idle"]

NothingListed == [t \in TaskId |-> NoTask]
NothingSeen == [n \in Node |-> NoNode]
NothingLoaded == [b \in Browser |-> NothingSeen]

Active(t) == runner[t] # Idle

Spend(op) ==
    /\ used[op] < Limit[op]
    /\ used' = [used EXCEPT ![op] = @ + 1]

-------------------------------------------------------------------------------
(* The service's functions on tasks and nodes.                              *)

buildProvisioningSteps(sgx) ==
    [s \in Step |-> IF s = SgxInstall /\ ~sgx THEN "absent" ELSE "pending"]

Open == {"pending", "running", "failed"}

IsNextStep(task, s) ==
    /\ task.steps[s] \in Open
    /\ \A r \in Step : r < s => task.steps[r] \notin Open

updateNodeProvisioningStatus(node, t, status, sgx) ==
    [node EXCEPT
        !.task = t,
        !.prov = status,
        !.status = IF status = "succeeded" THEN "ready" ELSE @,
        !.runtime = CASE status \in {"pending", "running"} -> "pending"
                      [] status = "succeeded" -> "ready"
                      [] OTHER -> @,
        !.sgx = CASE sgx /\ status \in {"pending", "running"} -> "pending"
                  [] sgx /\ status = "succeeded" -> "ready"
                  [] sgx /\ status = "failed" /\ @ # "ready" -> "pending"
                  [] OTHER -> @]

\* Mutant: saving a task does not touch its node.
NodesAfterUnsynced(n, t, status, sgx) == nodes

NodesAfter(n, t, status, sgx) ==
    IF nodes[n] = NoNode THEN nodes
    ELSE [nodes EXCEPT ![n] = updateNodeProvisioningStatus(@, t, status, sgx)]

Unfinished(n) ==
    {t \in TaskId : /\ tasks[t] # NoTask
                    /\ tasks[t].node = n
                    /\ tasks[t].status \in {"pending", "running"}}

-------------------------------------------------------------------------------
(* The store calls of the executor.  It only logs an error.                 *)

\* Mutant: a cancelled task can be saved as anything.
CanSaveCancelled(t, task) == tasks[t] # NoTask

CanSave(t, task) ==
    /\ tasks[t] # NoTask
    /\ tasks[t].status = "cancelled" => task.status = "cancelled"

StoreFails == Spend("storeError") /\ UNCHANGED store

SaveProvisioningTaskStatus(t, task) ==
    \/ LET saved == [task EXCEPT !.sgx = @ \/ tasks[t].sgx]
       IN  /\ CanSave(t, task)
           /\ tasks' = [tasks EXCEPT ![t] = saved]
           /\ nodes' = NodesAfter(task.node, t, task.status, saved.sgx)
           /\ outdated' = outdated \ {task.node}
           /\ UNCHANGED <<created, used>>
    \/ ~CanSave(t, task) /\ UNCHANGED <<store, used>>
    \/ StoreFails

SaveClusterNodeStatus(n, node) ==
    \/ /\ nodes[n] # NoNode
       /\ nodes' = [nodes EXCEPT ![n] = node]
       /\ UNCHANGED <<tasks, created, outdated, used>>
    \/ nodes[n] = NoNode /\ UNCHANGED <<store, used>>
    \/ StoreFails

-------------------------------------------------------------------------------
(* What users do.  Each is one critical section under writeMu.              *)

\* The web form's record of a new node.
NewNode(sgx, auto) ==
    [status  |-> "credential_ready",
     prov    |-> "pending",
     task    |-> NoTask,
     runtime |-> IF auto THEN "pending" ELSE "unknown",
     sgx     |-> IF sgx THEN "pending" ELSE "unknown"]

createProvisioningTaskInSnapshot(n, sgx) ==
    /\ Unfinished(n) = {}
    /\ created < MaxTasks
    /\ created' = created + 1
    /\ tasks' = [tasks EXCEPT ![created + 1] =
                    [node |-> n, sgx |-> sgx, status |-> "pending",
                     steps |-> buildProvisioningSteps(sgx), aged |-> FALSE]]
    /\ outdated' = outdated \ {n}

\* The payload tells of a task, and not what the record it replaces tells.
TakesBack(n, payload) ==
    /\ payload.task # NoTask
    /\ \/ nodes[n] = NoNode
       \/ payload.task # nodes[n].task
       \/ payload.prov # nodes[n].prov

\* Bound: what the browsers show is dropped when no save is left.
PagesNeeded == IF used'["save"] < Limit["save"] THEN page ELSE NothingLoaded

\* The payload replaces the whole record; only what this module leaves out (the
\* time of joining, usage, the SSH password) is kept.
SaveClusterNode(n, payload, sgx, auto) ==
    /\ Spend("save")
    /\ \/ /\ auto
          /\ createProvisioningTaskInSnapshot(n, sgx)
          /\ nodes' = [nodes EXCEPT ![n] =
                          [payload EXCEPT !.task = created + 1,
                                          !.prov = "pending",
                                          !.runtime = "pending",
                                          !.sgx = IF sgx THEN "pending" ELSE @]]
       \/ /\ ~auto
          /\ nodes' = [nodes EXCEPT ![n] = payload]
          /\ outdated' = IF TakesBack(n, payload) THEN outdated \cup {n} ELSE outdated
          /\ UNCHANGED <<tasks, created>>
    /\ page' = PagesNeeded
    /\ UNCHANGED <<pollVars, runner, ran>>

\* Refused while a component is deployed, which this module leaves open.
DeleteClusterNode(n) ==
    /\ nodes[n] # NoNode
    /\ Spend("delete")
    /\ nodes' = [nodes EXCEPT ![n] = NoNode]
    /\ tasks' = [t \in TaskId |->
                    IF tasks[t] # NoTask /\ tasks[t].node = n THEN NoTask ELSE tasks[t]]
    /\ UNCHANGED <<created, outdated, pollVars, runner, outside>>

Restarted(steps) ==
    IF \E s \in Step : steps[s] \in {"failed", "running"}
    THEN [s \in Step |->
            IF steps[s] # "absent" /\ \E r \in 1..s : steps[r] \in {"failed", "running"}
            THEN "pending" ELSE steps[s]]
    ELSE [steps EXCEPT ![Preflight] = "pending"]

RetryProvisioningTask(t) ==
    /\ tasks[t] # NoTask
    /\ tasks[t].status \in {"failed", "cancelled"}
    /\ Spend("retry")
    /\ tasks' = [tasks EXCEPT ![t].steps = Restarted(@),
                              ![t].status = "pending",
                              ![t].aged = FALSE]
    /\ nodes' = NodesAfter(tasks[t].node, t, "pending", tasks[t].sgx)
    /\ outdated' = outdated \ {tasks[t].node}
    /\ UNCHANGED <<created, pollVars, runner, outside>>

\* Mutant: the node is given the status of the steps instead of the task's.
CancelWithStepStatus(t) ==
    /\ tasks[t] # NoTask
    /\ tasks[t].status \notin {"succeeded", "cancelled"}
    /\ Spend("cancel")
    /\ tasks' = [tasks EXCEPT ![t].status = "cancelled"]
    /\ nodes' = NodesAfter(tasks[t].node, t, "skipped", tasks[t].sgx)
    /\ outdated' = outdated \ {tasks[t].node}
    /\ UNCHANGED <<created, pollVars, runner, outside>>

\* Mutant: only the running step is skipped.
RunningSkipped(steps) ==
    [s \in Step |-> IF steps[s] = "running" THEN "skipped" ELSE steps[s]]

Skipped(steps) ==
    [s \in Step |-> IF steps[s] \in {"running", "pending"} THEN "skipped" ELSE steps[s]]

CancelProvisioningTask(t) ==
    /\ tasks[t] # NoTask
    /\ tasks[t].status \notin {"succeeded", "cancelled"}
    /\ Spend("cancel")
    /\ tasks' = [tasks EXCEPT ![t].steps = Skipped(@),
                              ![t].status = "cancelled",
                              ![t].aged = FALSE]
    /\ nodes' = NodesAfter(tasks[t].node, t, "cancelled", tasks[t].sgx)
    /\ outdated' = outdated \ {tasks[t].node}
    /\ UNCHANGED <<created, pollVars, runner, outside>>

\* The browser loads the snapshot: every 30 seconds, after each save, on demand.
LoadPage(b) ==
    /\ used["save"] < Limit["save"]
    /\ page' = [page EXCEPT ![b] = nodes]
    /\ UNCHANGED <<store, pollVars, runner, ran, used>>

\* The form of an existing node sends the record that is on the page, whatever
\* happened to the node since the page was loaded.
EditNode(b, n, sgx, auto) ==
    /\ page[b][n] # NoNode
    /\ SaveClusterNode(n, page[b][n], sgx, auto)

UserNext ==
    \/ \E n \in Node, sgx \in SgxChoice, auto \in BOOLEAN :
          \/ SaveClusterNode(n, NewNode(sgx, auto), sgx, auto)
          \/ \E b \in Browser : EditNode(b, n, sgx, auto)
    \/ \E b \in Browser : LoadPage(b)
    \/ \E n \in Node : DeleteClusterNode(n)
    \/ \E t \in TaskId : RetryProvisioningTask(t) \/ CancelProvisioningTask(t)

-------------------------------------------------------------------------------
(* The poll goroutine: pollOnce.                                            *)

PollListTasks ==
    /\ phase = "idle"
    /\ listed' = tasks
    /\ phase' = IF tasks = NothingListed THEN "wait" ELSE "listed"
    /\ UNCHANGED <<store, seen, runner, outside, used>>

PollListNodes ==
    /\ phase = "listed"
    /\ seen' = nodes
    /\ phase' = "scan"
    /\ UNCHANGED <<store, listed, runner, outside, used>>

\* Tasks are appended to the list, so list order is the order of identifiers.
IsNextTask(t) ==
    /\ listed[t] # NoTask
    /\ \A u \in TaskId : listed[u] # NoTask => t <= u

LookedAt(t) == listed' = [listed EXCEPT ![t] = NoTask]

\* Mutant: no timeout recovery.
NeverTimedOut(t) == FALSE

TimedOut(t) == listed[t].status = "running" /\ listed[t].aged

PollPass(t) ==
    /\ phase = "scan"
    /\ IsNextTask(t)
    /\ listed[t].status # "pending"
    /\ ~TimedOut(t)
    /\ LookedAt(t)
    /\ UNCHANGED <<store, phase, seen, runner, outside, used>>

FailedCopy(t) == [listed[t] EXCEPT !.status = "failed", !.aged = FALSE]

PollTimeout(t) ==
    /\ phase = "scan"
    /\ IsNextTask(t)
    /\ TimedOut(t)
    /\ SaveProvisioningTaskStatus(t, FailedCopy(t))
    /\ IF seen[listed[t].node] = NoNode
       THEN LookedAt(t) /\ UNCHANGED phase
       ELSE phase' = "timeout" /\ UNCHANGED listed
    /\ UNCHANGED <<seen, runner, outside>>

PollTimeoutNode(t) ==
    LET n == listed[t].node
    IN  /\ phase = "timeout"
        /\ IsNextTask(t)
        /\ SaveClusterNodeStatus(n, [seen[n] EXCEPT !.prov = "failed"])
        /\ phase' = "scan"
        /\ LookedAt(t)
        /\ UNCHANGED <<seen, runner, outside>>

PollMissingNode(t) ==
    /\ phase = "scan"
    /\ IsNextTask(t)
    /\ listed[t].status = "pending"
    /\ seen[listed[t].node] = NoNode
    /\ SaveProvisioningTaskStatus(t, FailedCopy(t))
    /\ LookedAt(t)
    /\ UNCHANGED <<phase, seen, runner, outside>>

\* Mutant: the goroutine of a task that ended keeps its slot.
SlotKept ==
    Cardinality({u \in TaskId :
        \/ Active(u)
        \/ tasks[u] # NoTask /\ tasks[u].status \in {"succeeded", "failed"}}) < Concurrency

\* The semaphore: the poll loop waits here for a goroutine to leave.
FreeSlot == Cardinality({u \in TaskId : Active(u)}) < Concurrency

PollSpawn(t) ==
    /\ phase = "scan"
    /\ IsNextTask(t)
    /\ listed[t].status = "pending"
    /\ seen[listed[t].node] # NoNode
    /\ FreeSlot
    /\ runner' = [runner EXCEPT ![t] = [pc |-> "start", task |-> listed[t],
                                        node |-> seen[listed[t].node], step |-> Preflight]]
    /\ LookedAt(t)
    /\ UNCHANGED <<store, phase, seen, outside, used>>

PollScanned ==
    /\ phase = "scan"
    /\ listed = NothingListed
    /\ phase' = "wait"
    /\ seen' = NothingSeen
    /\ UNCHANGED <<store, listed, runner, outside, used>>

\* Mutant: the poll does not wait for the goroutines it started.
NoWait == TRUE

RunnersDone == \A t \in TaskId : ~Active(t)

\* wg.Wait, then pollOnce lists the nodes to collect their metrics.
PollMetrics ==
    /\ phase = "wait"
    /\ RunnersDone
    /\ seen' = nodes
    /\ phase' = "metrics"
    /\ UNCHANGED <<store, listed, runner, outside, used>>

\* A collected node is saved as listed; a node that was listed ready and could
\* not be reached three times in a row is saved as unreachable.
PollSaveMetrics(n) ==
    /\ phase = "metrics"
    /\ seen[n] # NoNode
    /\ seen' = [seen EXCEPT ![n] = NoNode]
    /\ \/ SaveClusterNodeStatus(n, seen[n])
       \/ /\ seen[n].status = "ready"
          /\ SaveClusterNodeStatus(n, [seen[n] EXCEPT !.status = "unreachable"])
       \/ UNCHANGED <<store, used>>
    /\ UNCHANGED <<phase, listed, runner, outside>>

PollDone ==
    /\ phase = "metrics"
    /\ seen = NothingSeen
    /\ phase' = "idle"
    /\ UNCHANGED <<store, listed, seen, runner, outside, used>>

PollNext ==
    \/ PollListTasks \/ PollListNodes \/ PollScanned \/ PollMetrics \/ PollDone
    \/ \E t \in TaskId : \/ PollPass(t) \/ PollTimeout(t) \/ PollTimeoutNode(t)
                         \/ PollMissingNode(t) \/ PollSpawn(t)
    \/ \E n \in Node : PollSaveMetrics(n)

-------------------------------------------------------------------------------
(* The goroutine of a task: runProvisioningTask.                            *)

SeesCancel(t) == tasks[t] # NoTask /\ tasks[t].status = "cancelled"

GoOn(t, pc, task, node, s) ==
    runner' = [runner EXCEPT ![t] = [pc |-> pc, task |-> task, node |-> node, step |-> s]]

Leave(t) == runner' = [runner EXCEPT ![t] = Idle]

At(t, pc) == runner[t].pc = pc

RunnerQuits(t) ==
    /\ \/ At(t, "start") \/ At(t, "loop") \/ At(t, "exec") \/ At(t, "check")
    /\ SeesCancel(t)
    /\ Leave(t)
    /\ UNCHANGED <<store, pollVars, outside, used>>

RunnerStarts(t) ==
    LET r == runner[t]
    IN  /\ At(t, "start")
        /\ ~SeesCancel(t)
        /\ GoOn(t, "startNode", [r.task EXCEPT !.status = "running"],
                [r.node EXCEPT !.prov = "running", !.task = t], r.step)
        /\ UNCHANGED <<store, pollVars, outside, used>>

\* The places where the goroutine saves its copy of the node, of the task, and
\* where it goes on from there.
AfterNodeSave == [startNode |-> "startTask", okNode |-> "loop", endNode |-> "endTask"]
AfterTaskSave == [startTask |-> "loop", stepTask |-> "exec", okTask |-> "check"]

RunnerSavesNode(t) ==
    LET r == runner[t]
    IN  /\ r.pc \in DOMAIN AfterNodeSave
        /\ SaveClusterNodeStatus(r.task.node, r.node)
        /\ GoOn(t, AfterNodeSave[r.pc], r.task, r.node, r.step)
        /\ UNCHANGED <<pollVars, outside>>

RunnerSavesTask(t) ==
    LET r == runner[t]
    IN  /\ r.pc \in DOMAIN AfterTaskSave
        /\ SaveProvisioningTaskStatus(t, r.task)
        /\ GoOn(t, AfterTaskSave[r.pc], r.task, r.node, r.step)
        /\ UNCHANGED <<pollVars, outside>>

RunnerBeginsStep(t) ==
    LET r == runner[t]
    IN  /\ At(t, "loop")
        /\ ~SeesCancel(t)
        /\ \E s \in Step :
              /\ IsNextStep(r.task, s)
              /\ GoOn(t, "stepTask",
                      [r.task EXCEPT !.steps[s] = "running", !.status = "running",
                                     !.aged = FALSE],
                      r.node, s)
        /\ UNCHANGED <<store, pollVars, outside, used>>

CompletedNode(node, sgx) ==
    [node EXCEPT !.status = "ready", !.prov = "succeeded", !.runtime = "ready",
                 !.sgx = IF sgx THEN "ready" ELSE @]

RunnerCompletes(t) ==
    LET r == runner[t]
    IN  /\ At(t, "loop")
        /\ ~SeesCancel(t)
        /\ \A s \in Step : ~IsNextStep(r.task, s)
        /\ GoOn(t, "endNode", [r.task EXCEPT !.status = "succeeded", !.aged = FALSE],
                CompletedNode(r.node, r.task.sgx), r.step)
        /\ UNCHANGED <<store, pollVars, outside, used>>

\* Mutant: the preflight already makes the node ready.
ReadyAfterPreflight(node, s, sgx) ==
    IF s = Preflight THEN [node EXCEPT !.status = "ready", !.prov = "running"] ELSE node

applyProvisioningStepNodeState(node, s, sgx) ==
    CASE s = Preflight     -> [node EXCEPT !.prov = "running"]
      [] s = K3sInstall    -> [node EXCEPT !.status = "ready"]
      [] s = RuntimeVerify -> [node EXCEPT !.runtime = "ready"]
      [] s = SgxInstall    -> [node EXCEPT !.sgx = IF sgx THEN "ready" ELSE @]
      [] s = FinalVerify   -> [node EXCEPT !.status = "ready", !.prov = "succeeded",
                                           !.runtime = "ready",
                                           !.sgx = IF sgx /\ @ = "unknown" THEN "ready" ELSE @]

\* The command succeeds on the machine; the goroutine looks at the task again
\* before it uses the result.
StepSucceeds(t) ==
    LET r == runner[t]
    IN  /\ At(t, "exec")
        /\ ran' = [ran EXCEPT ![r.task.node] = @ \cup {r.step}]
        /\ IF SeesCancel(t)
           THEN Leave(t)
           ELSE GoOn(t, "okTask",
                     [r.task EXCEPT !.steps[r.step] = "succeeded", !.aged = FALSE],
                     applyProvisioningStepNodeState(r.node, r.step, r.task.sgx), r.step)
        /\ UNCHANGED <<store, pollVars, page, used>>

\* Mutant: the SGX step is nothing special.
FailedNodePlain(node, s) == [node EXCEPT !.prov = "failed"]

FailedNode(node, s) ==
    IF s = SgxInstall
    THEN [node EXCEPT !.prov = "failed", !.status = "ready", !.runtime = "ready",
                      !.sgx = "pending"]
    ELSE [node EXCEPT !.prov = "failed"]

\* Mutant: the error of the command is dropped.
StepErrorDropped(t) ==
    LET r == runner[t]
    IN  /\ At(t, "exec")
        /\ ~SeesCancel(t)
        /\ GoOn(t, "okTask", [r.task EXCEPT !.steps[r.step] = "succeeded", !.aged = FALSE],
                r.node, r.step)
        /\ UNCHANGED <<store, pollVars, outside, used>>

\* Mutant: a failing step is skipped and the task goes on.
StepFailureSkipped(t) ==
    LET r == runner[t]
    IN  /\ At(t, "exec")
        /\ ~SeesCancel(t)
        /\ GoOn(t, "okTask", [r.task EXCEPT !.steps[r.step] = "skipped", !.aged = FALSE],
                r.node, r.step)
        /\ UNCHANGED <<store, pollVars, outside, used>>

\* Mutant: a failing step is tried again at once.
StepRetriedAtOnce(t) ==
    LET r == runner[t]
    IN  /\ At(t, "exec")
        /\ ~SeesCancel(t)
        /\ GoOn(t, "loop", r.task, r.node, r.step)
        /\ UNCHANGED <<store, pollVars, outside, used>>

StepFails(t) ==
    LET r == runner[t]
    IN  /\ At(t, "exec")
        /\ ~SeesCancel(t)
        /\ GoOn(t, "endNode",
                [r.task EXCEPT !.steps[r.step] = "failed", !.status = "failed", !.aged = FALSE],
                FailedNode(r.node, r.step), r.step)
        /\ UNCHANGED <<store, pollVars, outside, used>>

\* The step panics and the deferred function recovers.
StepPanics(t) ==
    LET r == runner[t]
    IN  /\ At(t, "exec")
        /\ GoOn(t, "endNode", [r.task EXCEPT !.status = "failed", !.aged = FALSE],
                [r.node EXCEPT !.prov = "failed"], r.step)
        /\ UNCHANGED <<store, pollVars, outside, used>>

RunnerKeepsResult(t) ==
    LET r == runner[t]
    IN  /\ At(t, "check")
        /\ ~SeesCancel(t)
        /\ GoOn(t, "okNode", r.task, r.node, r.step)
        /\ UNCHANGED <<store, pollVars, outside, used>>

RunnerEnds(t) ==
    /\ At(t, "endTask")
    /\ SaveProvisioningTaskStatus(t, runner[t].task)
    /\ Leave(t)
    /\ UNCHANGED <<pollVars, outside>>

RunnerNext(t) ==
    \/ RunnerQuits(t) \/ RunnerStarts(t) \/ RunnerSavesNode(t) \/ RunnerSavesTask(t)
    \/ RunnerBeginsStep(t) \/ RunnerCompletes(t)
    \/ StepSucceeds(t) \/ StepFails(t) \/ StepPanics(t)
    \/ RunnerKeepsResult(t) \/ RunnerEnds(t)

-------------------------------------------------------------------------------
(* The clock and the process.                                               *)

Fresh(task) == task # NoTask /\ task.status = "running" /\ ~task.aged

Aged(task) == IF Fresh(task) THEN [task EXCEPT !.aged = TRUE] ELSE task

\* Thirty minutes pass without a save of a running task.  Its age matters only
\* to the poll loop, which never looks at it while its goroutine lives.
TimePasses(t) ==
    /\ ~Active(t)
    /\ Fresh(tasks[t]) \/ Fresh(listed[t])
    /\ tasks' = [tasks EXCEPT ![t] = Aged(@)]
    /\ listed' = [listed EXCEPT ![t] = Aged(@)]
    /\ UNCHANGED <<nodes, created, outdated, phase, seen, runner, outside, used>>

\* The process dies and starts again: the store is all that is left.
Crash ==
    /\ Spend("crash")
    /\ phase' = "idle"
    /\ listed' = NothingListed
    /\ seen' = NothingSeen
    /\ runner' = [t \in TaskId |-> Idle]
    /\ UNCHANGED <<store, outside>>

-------------------------------------------------------------------------------
Init ==
    /\ tasks = NothingListed
    /\ nodes = NothingSeen
    /\ created = 0
    /\ phase = "idle"
    /\ listed = NothingListed
    /\ seen = NothingSeen
    /\ runner = [t \in TaskId |-> Idle]
    /\ page = NothingLoaded
    /\ ran = [n \in Node |-> {}]
    /\ used = [op \in Budgeted |-> 0]
    /\ outdated = {}

Next ==
    \/ UserNext
    \/ PollNext
    \/ \E t \in TaskId : RunnerNext(t) \/ TimePasses(t)
    \/ Crash

Spec == Init /\ [][Next]_vars

Fairness ==
    /\ WF_vars(PollNext)
    /\ \A t \in TaskId : WF_vars(RunnerNext(t)) /\ WF_vars(TimePasses(t))

FairSpec == Spec /\ Fairness
-------------------------------------------------------------------------------
(* Properties.                                                              *)

PcSet == {"start", "startNode", "startTask", "loop", "stepTask", "exec",
          "okTask", "check", "okNode", "endNode", "endTask"}

Running == [pc : PcSet, task : Task, node : NodeRecord, step : Step]

TypeOK ==
    /\ tasks \in [TaskId -> Task \cup {NoTask}]
    /\ nodes \in [Node -> NodeRecord \cup {NoNode}]
    /\ created \in 0..MaxTasks
    /\ phase \in {"idle", "listed", "scan", "timeout", "wait", "metrics"}
    /\ listed \in [TaskId -> Task \cup {NoTask}]
    /\ seen \in [Node -> NodeRecord \cup {NoNode}]
    /\ runner \in [TaskId -> Running \cup {Idle}]
    /\ page \in [Browser -> [Node -> NodeRecord \cup {NoNode}]]
    /\ ran \in [Node -> SUBSET Step]
    /\ used \in [Budgeted -> Nat]
    /\ outdated \in SUBSET Node

\* A step is recorded as succeeded only if its command has succeeded on the
\* node's machine, and an ended task that counts as succeeded has no step left
\* to do, whatever stale copies of the task were written back.
RecordIsTruthful(task, done) ==
    /\ \A s \in Step : task.steps[s] = "succeeded" => s \in done[task.node]
    /\ task.status = "succeeded" => \A s \in Step : task.steps[s] \notin Open

StepsAreTruthful ==
    \A t \in TaskId : tasks[t] # NoTask => RecordIsTruthful(tasks[t], ran)

\* design.md, correctness property 4: a step is begun only after every earlier
\* step succeeded, and a skipped step is never followed by one still to do.
StepsInOrder(task) ==
    \A r, s \in Step : r < s =>
        /\ task.steps[s] \in {"running", "failed"} => task.steps[r] \in {"succeeded", "absent"}
        /\ task.steps[r] = "skipped" => task.steps[s] \notin Open

StepOrder ==
    \A t \in TaskId : tasks[t] # NoTask => StepsInOrder(tasks[t])

\* The timeout recovery only ends tasks nobody works on: when the poll loop is
\* about to look at a listed running task, no goroutine runs that task, and a
\* task that ended in the store has no goroutine that could revive it.
EndedTasksAreAlone ==
    \A t \in TaskId : Active(t) =>
        /\ phase \in {"scan", "timeout", "wait"}
        /\ listed[t] = NoTask
        /\ tasks[t] # NoTask => tasks[t].status \notin {"succeeded", "failed"}

NeverCancelled == used["cancel"] = 0

\* t is the only task its node has in the store.
OnlyTask(t) ==
    \A u \in TaskId : tasks[u] # NoTask /\ tasks[u].node = tasks[t].node => u = t

\* Nothing was cancelled, deleted or lost, and every save of a node gave it a
\* task: no record was replaced behind the back of a task.
Undisturbed ==
    /\ NeverCancelled
    /\ used["storeError"] = 0
    /\ used["delete"] = 0
    /\ used["save"] = created

SgxFailed(task) == task.status = "failed" /\ task.steps[SgxInstall] = "failed"

K3sKept(node) == node.runtime = "ready" /\ node.status # "credential_ready"

\* design.md, correctness property 5: when a task failed in its SGX step, the
\* K3s state its node had reached is kept, retries and crashes included.  (A
\* user who edits the node or cancels and retries the task in the middle of the
\* two saves of the failure, or a store that loses one of them, undoes it.)
SGXFailureKeepsK3s ==
    \A t \in TaskId :
        LET node == nodes[tasks[t].node]
        IN  /\ Undisturbed
            /\ tasks[t] # NoTask
            /\ SgxFailed(tasks[t])
            /\ OnlyTask(t)
            /\ node # NoNode
            => K3sKept(node)

\* A node tells of its task what the task itself tells once it has succeeded or
\* failed, whatever crashed, failed to be saved, was cancelled, retried or edited
\* in between: an edit sent from an outdated page takes the node back to what it
\* told then, but only until a task of the node is saved the next time.  (When
\* another task of the node is unfinished or failed, that one's timeout may have
\* been saved to the copy of the node made before.)
NodeTellsOfItsTask ==
    \A n \in Node \ outdated :
        LET t == nodes[n].task
        IN  /\ nodes[n] # NoNode
            /\ t # NoTask
            /\ tasks[t] # NoTask
            /\ tasks[t].status \in {"succeeded", "failed"}
            /\ \A u \in TaskId \ {t} :
                  tasks[u] # NoTask /\ tasks[u].node = n => tasks[u].status = "succeeded"
            => nodes[n].prov = tasks[t].status

\* A task that ended as succeeded has done every one of its steps.
NoFalseSuccess ==
    \A t \in TaskId :
        tasks[t] # NoTask /\ tasks[t].status = "succeeded" =>
            \A s \in Step : tasks[t].steps[s] \in {"succeeded", "absent"}

\* That holds when nothing was cancelled: failures, panics, timeouts, crashes
\* and retries never make a task skip a step.
SucceededDidEverything == NeverCancelled => NoFalseSuccess

\* Without cancellations a node that was registered with the web form becomes
\* ready only after K3s has been installed on its machine.
ReadyMeansInstalled ==
    NeverCancelled =>
        \A n \in Node : nodes[n] # NoNode /\ nodes[n].status = "ready" => K3sInstall \in ran[n]

\* design.md, correctness property 3: at most one task of a node is running.
OneRunningTaskPerNode ==
    \A t, u \in TaskId :
        /\ tasks[t] # NoTask /\ tasks[t].status = "running"
        /\ tasks[u] # NoTask /\ tasks[u].status = "running"
        /\ tasks[t].node = tasks[u].node
        => t = u

\* provisioning_test.go: the status of a node whose task is cancelled is not
\* overwritten by the executor, which would leave the node running for good.
CancelledNodeNotOverwritten ==
    phase = "idle" => \A n \in Node :
        LET t == nodes[n].task
        IN  nodes[n] # NoNode /\ t # NoTask /\ tasks[t] # NoTask /\ tasks[t].status = "cancelled"
            => nodes[n].prov # "running"

\* The stored status of every task follows the promised life cycle.
StoredStatus == [t \in TaskId |-> IF tasks[t] = NoTask THEN "none" ELSE tasks[t].status]

Lifecycle == INSTANCE TaskLifecycle WITH status <- StoredStatus

FollowsLifecycle == Lifecycle!Spec

\* Every task that was handed to the executor ends, or is removed, in spite of
\* crashes, store errors, cancellations and retries.
InFlight(t) == tasks[t] # NoTask /\ tasks[t].status \in {"pending", "running"}

TasksEnd == \A t \in TaskId : InFlight(t) ~> ~InFlight(t)

\* The executor notices a cancellation: a goroutine never outlives its task.
RunnersEnd == \A t \in TaskId : Active(t) ~> ~Active(t)
===============================================================================
