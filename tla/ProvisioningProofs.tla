-------------------------- MODULE ProvisioningProofs --------------------------
(***************************************************************************)
(* Machine-checked proofs about Provisioning, for any nodes, any number of *)
(* tasks, any concurrency and any bounds.                                  *)
(***************************************************************************)
EXTENDS Provisioning, TLAPS

(***************************************************************************)
(* What the service's functions return.                                    *)
(***************************************************************************)
LEMMA UpdateNodeType ==
    ASSUME NEW node \in NodeRecord, NEW t \in TaskId, NEW status \in TaskStatus,
           NEW sgx \in BOOLEAN
    PROVE  updateNodeProvisioningStatus(node, t, status, sgx) \in NodeRecord
  BY DEF updateNodeProvisioningStatus, NodeRecord, TaskStatus

LEMMA NodesAfterType ==
    ASSUME TypeOK, NEW n \in Node, NEW t \in TaskId, NEW status \in TaskStatus,
           NEW sgx \in BOOLEAN
    PROVE  NodesAfter(n, t, status, sgx) \in [Node -> NodeRecord \cup {NoNode}]
  <1>1. CASE nodes[n] = NoNode
    BY <1>1 DEF NodesAfter, TypeOK
  <1>2. CASE nodes[n] # NoNode
    <2>1. nodes[n] \in NodeRecord
      BY <1>2 DEF TypeOK
    <2>2. updateNodeProvisioningStatus(nodes[n], t, status, sgx) \in NodeRecord
      BY <2>1, UpdateNodeType
    <2>3. QED
      BY <1>2, <2>2 DEF NodesAfter, TypeOK
  <1>3. QED
    BY <1>1, <1>2

\* Whatever a store call of the executor does, it leaves the store well typed.
LEMMA SpendType ==
    ASSUME NEW op \in Budgeted, Spend(op), used \in [Budgeted -> Nat]
    PROVE  used' \in [Budgeted -> Nat]
  BY DEF Spend

LEMMA SaveTaskType ==
    ASSUME TypeOK, NEW t \in TaskId, NEW task \in Task, SaveProvisioningTaskStatus(t, task)
    PROVE  /\ tasks' \in [TaskId -> Task \cup {NoTask}]
           /\ nodes' \in [Node -> NodeRecord \cup {NoNode}]
           /\ created' = created
           /\ used' \in [Budgeted -> Nat]
           /\ outdated' \in SUBSET Node
  <1>1. CASE CanSave(t, task) /\ ~(UNCHANGED store)
    <2> DEFINE saved == [task EXCEPT !.sgx = @ \/ tasks[t].sgx]
    <2>1. tasks[t] \in Task
      BY <1>1 DEF CanSave, TypeOK
    <2>2. saved \in Task /\ saved.sgx \in BOOLEAN /\ task.node \in Node
          /\ task.status \in TaskStatus
      BY <2>1 DEF Task
    <2>3. /\ tasks' = [tasks EXCEPT ![t] = saved]
          /\ nodes' = NodesAfter(task.node, t, task.status, saved.sgx)
          /\ outdated' = outdated \ {task.node}
          /\ UNCHANGED <<created, used>>
      BY <1>1 DEF SaveProvisioningTaskStatus, StoreFails, store
    <2>4. tasks' \in [TaskId -> Task \cup {NoTask}]
      BY <2>2, <2>3 DEF TypeOK
    <2>5. nodes' \in [Node -> NodeRecord \cup {NoNode}]
      BY <2>2, <2>3, NodesAfterType
    <2>6. QED
      BY <2>3, <2>4, <2>5 DEF TypeOK
  <1>2. CASE UNCHANGED store
    <2>1. used' \in [Budgeted -> Nat]
      BY <1>2, SpendType
         DEF SaveProvisioningTaskStatus, StoreFails, TypeOK, Budgeted
    <2>2. QED
      BY <1>2, <2>1 DEF store, TypeOK
  <1>3. CASE ~CanSave(t, task)
    BY <1>2, <1>3 DEF SaveProvisioningTaskStatus, StoreFails, store
  <1>4. QED
    BY <1>1, <1>2, <1>3

LEMMA SaveNodeType ==
    ASSUME TypeOK, NEW n \in Node, NEW node \in NodeRecord, SaveClusterNodeStatus(n, node)
    PROVE  /\ tasks' = tasks
           /\ nodes' \in [Node -> NodeRecord \cup {NoNode}]
           /\ created' = created
           /\ used' \in [Budgeted -> Nat]
           /\ outdated' = outdated
  <1>1. tasks' = tasks /\ created' = created /\ outdated' = outdated
    BY DEF SaveClusterNodeStatus, StoreFails, store
  <1>2. nodes' \in [Node -> NodeRecord \cup {NoNode}]
    BY DEF SaveClusterNodeStatus, StoreFails, store, TypeOK
  <1>3. used' \in [Budgeted -> Nat]
    BY SpendType DEF SaveClusterNodeStatus, StoreFails, TypeOK, Budgeted
  <1>4. QED
    BY <1>1, <1>2, <1>3

(***************************************************************************)
(* A goroutine's copies are well typed wherever it stands.                 *)
(***************************************************************************)
LEMMA RunnerType ==
    ASSUME TypeOK, NEW t \in TaskId, runner[t] # Idle
    PROVE  /\ runner[t] \in Running
           /\ runner[t].pc \in PcSet
           /\ runner[t].task \in Task
           /\ runner[t].task.node \in Node
           /\ runner[t].task.sgx \in BOOLEAN
           /\ runner[t].task.steps \in [Step -> StepStatus]
           /\ runner[t].node \in NodeRecord
           /\ runner[t].step \in Step
  <1>1. runner[t] \in Running
    BY DEF TypeOK
  <1>2. QED
    BY <1>1 DEF Running, Task

LEMMA NotIdle ==
    ASSUME NEW t \in TaskId, runner[t].pc # "idle"
    PROVE  runner[t] # Idle
  BY DEF Idle

LEMMA GoOnType ==
    ASSUME TypeOK, NEW t \in TaskId, NEW pc \in PcSet, NEW task \in Task,
           NEW node \in NodeRecord, NEW s \in Step, GoOn(t, pc, task, node, s)
    PROVE  runner' \in [TaskId -> Running \cup {Idle}]
  <1>1. [pc |-> pc, task |-> task, node |-> node, step |-> s] \in Running
    BY DEF Running
  <1>2. QED
    BY <1>1 DEF GoOn, TypeOK

LEMMA LeaveType ==
    ASSUME TypeOK, NEW t \in TaskId, Leave(t)
    PROVE  runner' \in [TaskId -> Running \cup {Idle}]
  BY DEF Leave, TypeOK

LEMMA CopyType ==
    ASSUME TypeOK, NEW t \in TaskId, listed[t] # NoTask
    PROVE  /\ listed[t] \in Task
           /\ listed[t].node \in Node
           /\ FailedCopy(t) \in Task
           /\ FailedCopy(t).node = listed[t].node
           /\ FailedCopy(t).steps = listed[t].steps
           /\ FailedCopy(t).status = "failed"
  <1>1. listed[t] \in Task
    BY DEF TypeOK
  <1>2. QED
    BY <1>1 DEF FailedCopy, Task, TaskStatus

(***************************************************************************)
(* The type invariant is preserved: the users' actions.                    *)
(***************************************************************************)
LEMMA NewTaskType ==
    ASSUME TypeOK, NEW n \in Node, NEW sgx \in BOOLEAN, createProvisioningTaskInSnapshot(n, sgx)
    PROVE  /\ created' \in 0..MaxTasks
           /\ created + 1 \in TaskId
           /\ tasks' \in [TaskId -> Task \cup {NoTask}]
           /\ outdated' \in SUBSET Node
  <1>1. created + 1 \in TaskId /\ created' \in 0..MaxTasks
    BY ConstantsAssumption DEF createProvisioningTaskInSnapshot, TypeOK, TaskId
  <1>2. buildProvisioningSteps(sgx) \in [Step -> StepStatus]
    BY DEF buildProvisioningSteps, StepStatus
  <1>3. [node |-> n, sgx |-> sgx, status |-> "pending",
         steps |-> buildProvisioningSteps(sgx), aged |-> FALSE] \in Task
    BY <1>2 DEF Task, TaskStatus
  <1>4. QED
    BY <1>1, <1>3 DEF createProvisioningTaskInSnapshot, TypeOK

LEMMA SaveClusterNodeTypeOK ==
    ASSUME TypeOK, NEW n \in Node, NEW payload \in NodeRecord, NEW sgx \in BOOLEAN,
           NEW auto \in BOOLEAN, SaveClusterNode(n, payload, sgx, auto)
    PROVE  TypeOK'
  <1>1. used' \in [Budgeted -> Nat]
    BY SpendType DEF SaveClusterNode, TypeOK, Budgeted
  <1>2. page' \in [Browser -> [Node -> NodeRecord \cup {NoNode}]]
    BY DEF SaveClusterNode, PagesNeeded, NothingLoaded, NothingSeen, TypeOK
  <1>3. CASE auto
    <2>1. createProvisioningTaskInSnapshot(n, sgx)
      BY <1>3 DEF SaveClusterNode
    <2>2. created + 1 \in TaskId
      BY <2>1, NewTaskType
    <2>3. [payload EXCEPT !.task = created + 1, !.prov = "pending", !.runtime = "pending",
                          !.sgx = IF sgx THEN "pending" ELSE @] \in NodeRecord
      BY <2>2 DEF NodeRecord, TaskStatus
    <2>4. nodes' \in [Node -> NodeRecord \cup {NoNode}]
      BY <1>3, <2>3 DEF SaveClusterNode, TypeOK
    <2>5. QED
      BY <1>1, <1>2, <2>1, <2>4, NewTaskType DEF SaveClusterNode, TypeOK, pollVars
  <1>4. CASE ~auto
    BY <1>1, <1>2, <1>4 DEF SaveClusterNode, TypeOK, pollVars
  <1>5. QED
    BY <1>3, <1>4

LEMMA DeleteTypeOK ==
    ASSUME TypeOK, NEW n \in Node, DeleteClusterNode(n)
    PROVE  TypeOK'
  <1>1. used' \in [Budgeted -> Nat]
    BY SpendType DEF DeleteClusterNode, TypeOK, Budgeted
  <1>2. QED
    BY <1>1 DEF DeleteClusterNode, TypeOK, pollVars, outside

LEMMA RestartedType ==
    ASSUME NEW steps \in [Step -> StepStatus]
    PROVE  Restarted(steps) \in [Step -> StepStatus]
  BY DEF Restarted, StepStatus, Step, Preflight

LEMMA RetryTypeOK ==
    ASSUME TypeOK, NEW t \in TaskId, RetryProvisioningTask(t)
    PROVE  TypeOK'
  <1>1. used' \in [Budgeted -> Nat]
    BY SpendType DEF RetryProvisioningTask, TypeOK, Budgeted
  <1>2. tasks[t] \in Task
    BY DEF RetryProvisioningTask, TypeOK
  <1>3. /\ Restarted(tasks[t].steps) \in [Step -> StepStatus]
        /\ tasks[t].node \in Node
        /\ tasks[t].sgx \in BOOLEAN
    BY <1>2, RestartedType DEF Task
  <1>4. nodes' \in [Node -> NodeRecord \cup {NoNode}]
    BY <1>3, NodesAfterType DEF RetryProvisioningTask, TaskStatus
  <1>5. tasks' = [tasks EXCEPT ![t] = [[[tasks[t] EXCEPT !.steps = Restarted(@)]
                                          EXCEPT !.status = "pending"]
                                          EXCEPT !.aged = FALSE]]
    BY DEF RetryProvisioningTask, TypeOK
  <1>6. [[[tasks[t] EXCEPT !.steps = Restarted(@)]
             EXCEPT !.status = "pending"] EXCEPT !.aged = FALSE] \in Task
    BY <1>2, <1>3 DEF Task, TaskStatus
  <1>7. QED
    BY <1>1, <1>4, <1>5, <1>6 DEF RetryProvisioningTask, TypeOK, pollVars, outside

LEMMA SkippedType ==
    ASSUME NEW steps \in [Step -> StepStatus]
    PROVE  Skipped(steps) \in [Step -> StepStatus]
  BY DEF Skipped, StepStatus

LEMMA CancelTypeOK ==
    ASSUME TypeOK, NEW t \in TaskId, CancelProvisioningTask(t)
    PROVE  TypeOK'
  <1>1. used' \in [Budgeted -> Nat]
    BY SpendType DEF CancelProvisioningTask, TypeOK, Budgeted
  <1>2. tasks[t] \in Task
    BY DEF CancelProvisioningTask, TypeOK
  <1>3. /\ Skipped(tasks[t].steps) \in [Step -> StepStatus]
        /\ tasks[t].node \in Node
        /\ tasks[t].sgx \in BOOLEAN
    BY <1>2, SkippedType DEF Task
  <1>4. nodes' \in [Node -> NodeRecord \cup {NoNode}]
    BY <1>3, NodesAfterType DEF CancelProvisioningTask, TaskStatus
  <1>5. tasks' = [tasks EXCEPT ![t] = [[[tasks[t] EXCEPT !.steps = Skipped(@)]
                                          EXCEPT !.status = "cancelled"]
                                          EXCEPT !.aged = FALSE]]
    BY DEF CancelProvisioningTask, TypeOK
  <1>6. [[[tasks[t] EXCEPT !.steps = Skipped(@)]
             EXCEPT !.status = "cancelled"] EXCEPT !.aged = FALSE] \in Task
    BY <1>2, <1>3 DEF Task, TaskStatus
  <1>7. QED
    BY <1>1, <1>4, <1>5, <1>6 DEF CancelProvisioningTask, TypeOK, pollVars, outside

LEMMA UserTypeOK ==
    ASSUME TypeOK, UserNext
    PROVE  TypeOK'
  <1>1. CASE \E n \in Node, sgx \in SgxChoice, auto \in BOOLEAN :
                \/ SaveClusterNode(n, NewNode(sgx, auto), sgx, auto)
                \/ \E b \in Browser : EditNode(b, n, sgx, auto)
    <2>1. PICK n \in Node, sgx \in SgxChoice, auto \in BOOLEAN :
                \/ SaveClusterNode(n, NewNode(sgx, auto), sgx, auto)
                \/ \E b \in Browser : EditNode(b, n, sgx, auto)
      BY <1>1
    <2>2. sgx \in BOOLEAN
      BY ConstantsAssumption
    <2>3. NewNode(sgx, auto) \in NodeRecord
      BY <2>2 DEF NewNode, NodeRecord, TaskStatus
    <2>4. PICK payload \in NodeRecord : SaveClusterNode(n, payload, sgx, auto)
      BY <2>1, <2>3 DEF EditNode, TypeOK
    <2>5. QED
      BY <2>2, <2>4, SaveClusterNodeTypeOK
  <1>2. CASE \E n \in Node : DeleteClusterNode(n)
    BY <1>2, DeleteTypeOK
  <1>3. CASE \E t \in TaskId : RetryProvisioningTask(t) \/ CancelProvisioningTask(t)
    BY <1>3, RetryTypeOK, CancelTypeOK
  <1>4. CASE \E b \in Browser : LoadPage(b)
    BY <1>4 DEF LoadPage, TypeOK, store, pollVars
  <1>5. QED
    BY <1>1, <1>2, <1>3, <1>4 DEF UserNext

(***************************************************************************)
(* The type invariant is preserved: the poll goroutine.                    *)
(***************************************************************************)
LEMMA PollTimeoutTypeOK ==
    ASSUME TypeOK, NEW t \in TaskId, PollTimeout(t) \/ PollMissingNode(t)
    PROVE  TypeOK'
  <1>1. listed[t] # NoTask /\ SaveProvisioningTaskStatus(t, FailedCopy(t))
    BY DEF PollTimeout, PollMissingNode, IsNextTask
  <1>2. /\ tasks' \in [TaskId -> Task \cup {NoTask}]
        /\ nodes' \in [Node -> NodeRecord \cup {NoNode}]
        /\ created' = created
        /\ used' \in [Budgeted -> Nat]
        /\ outdated' \in SUBSET Node
    BY <1>1, CopyType, SaveTaskType
  <1>3. listed' \in [TaskId -> Task \cup {NoTask}]
    BY DEF PollTimeout, PollMissingNode, LookedAt, TypeOK
  <1>4. phase' \in {"idle", "listed", "scan", "timeout", "wait", "metrics"}
    BY DEF PollTimeout, PollMissingNode, TypeOK
  <1>5. QED
    BY <1>2, <1>3, <1>4 DEF PollTimeout, PollMissingNode, TypeOK, outside

LEMMA SavesNodeTypeOK ==
    ASSUME TypeOK, NEW n \in Node, NEW node \in NodeRecord, SaveClusterNodeStatus(n, node),
           phase' \in {"idle", "listed", "scan", "timeout", "wait", "metrics"},
           listed' \in [TaskId -> Task \cup {NoTask}],
           seen' \in [Node -> NodeRecord \cup {NoNode}],
           runner' \in [TaskId -> Running \cup {Idle}],
           ran' \in [Node -> SUBSET Step], page' = page
    PROVE  TypeOK'
  BY SaveNodeType DEF TypeOK

LEMMA PollTimeoutNodeTypeOK ==
    ASSUME TypeOK, NEW t \in TaskId, PollTimeoutNode(t), seen[listed[t].node] # NoNode
    PROVE  TypeOK'
  <1> DEFINE n == listed[t].node
             node == [seen[n] EXCEPT !.prov = "failed"]
  <1>1. n \in Node
    BY CopyType DEF PollTimeoutNode, IsNextTask
  <1>2. node \in NodeRecord
    BY <1>1 DEF TypeOK, NodeRecord, TaskStatus
  <1>3. SaveClusterNodeStatus(n, node)
    BY DEF PollTimeoutNode
  <1>4. /\ phase' = "scan"
        /\ listed' = [listed EXCEPT ![t] = NoTask]
        /\ UNCHANGED <<seen, runner, ran, page>>
    BY DEF PollTimeoutNode, LookedAt, outside
  <1>5. listed' \in [TaskId -> Task \cup {NoTask}]
    BY <1>4 DEF TypeOK
  <1>6. QED
    BY <1>1, <1>2, <1>3, <1>4, <1>5, SavesNodeTypeOK DEF TypeOK

LEMMA PollTypeOK ==
    ASSUME TypeOK, PollNext,
           \A t \in TaskId : PollTimeoutNode(t) => seen[listed[t].node] # NoNode
    PROVE  TypeOK'
  <1>1. CASE PollListTasks
    BY <1>1 DEF PollListTasks, TypeOK, store, outside
  <1>2. CASE PollListNodes
    BY <1>2 DEF PollListNodes, TypeOK, store, outside
  <1>3. CASE PollScanned
    BY <1>3 DEF PollScanned, TypeOK, store, NothingSeen, outside
  <1>4. CASE PollMetrics
    BY <1>4 DEF PollMetrics, TypeOK, store, outside
  <1>5. CASE PollDone
    BY <1>5 DEF PollDone, TypeOK, store, outside
  <1>6. ASSUME NEW t \in TaskId, PollPass(t)
        PROVE  TypeOK'
    BY <1>6 DEF PollPass, LookedAt, TypeOK, store, outside
  <1>7. ASSUME NEW t \in TaskId, PollSpawn(t)
        PROVE  TypeOK'
    <2>1. listed[t] \in Task /\ seen[listed[t].node] \in NodeRecord
      BY <1>7, CopyType DEF PollSpawn, IsNextTask, TypeOK
    <2>2. [pc |-> "start", task |-> listed[t], node |-> seen[listed[t].node],
           step |-> Preflight] \in Running
      BY <2>1 DEF Running, PcSet, Preflight, Step
    <2>3. runner' \in [TaskId -> Running \cup {Idle}]
      BY <1>7, <2>2 DEF PollSpawn, TypeOK
    <2>4. listed' \in [TaskId -> Task \cup {NoTask}]
      BY <1>7 DEF PollSpawn, LookedAt, TypeOK
    <2>5. QED
      BY <1>7, <2>3, <2>4 DEF PollSpawn, TypeOK, store, outside
  <1>8. ASSUME NEW n \in Node, PollSaveMetrics(n)
        PROVE  TypeOK'
    <2>1. seen[n] \in NodeRecord
      BY <1>8 DEF PollSaveMetrics, TypeOK
    <2>2. [seen[n] EXCEPT !.status = "unreachable"] \in NodeRecord
      BY <2>1 DEF NodeRecord
    <2>3. seen' \in [Node -> NodeRecord \cup {NoNode}]
      BY <1>8 DEF PollSaveMetrics, TypeOK
    <2>4. \/ SaveClusterNodeStatus(n, seen[n])
          \/ SaveClusterNodeStatus(n, [seen[n] EXCEPT !.status = "unreachable"])
          \/ UNCHANGED <<store, used>>
      BY <1>8 DEF PollSaveMetrics
    <2>5. UNCHANGED <<phase, listed, runner, ran, page>>
      BY <1>8 DEF PollSaveMetrics, outside
    <2>6. CASE UNCHANGED <<store, used>>
      BY <2>3, <2>5, <2>6 DEF TypeOK, store
    <2>7. QED
      BY <2>1, <2>2, <2>3, <2>4, <2>5, <2>6, SavesNodeTypeOK DEF TypeOK
  <1>9. QED
    BY <1>1, <1>2, <1>3, <1>4, <1>5, <1>6, <1>7, <1>8,
       PollTimeoutTypeOK, PollTimeoutNodeTypeOK DEF PollNext

(***************************************************************************)
(* The type invariant is preserved: the goroutine of a task.               *)
(***************************************************************************)
LEMMA StepNodeType ==
    ASSUME NEW node \in NodeRecord, NEW s \in Step, NEW sgx \in BOOLEAN
    PROVE  /\ applyProvisioningStepNodeState(node, s, sgx) \in NodeRecord
           /\ FailedNode(node, s) \in NodeRecord
           /\ CompletedNode(node, sgx) \in NodeRecord
  <1>1. applyProvisioningStepNodeState(node, s, sgx) \in NodeRecord
    <2>1. \E sgx2 \in {"unknown", "pending", "ready"} :
             \/ applyProvisioningStepNodeState(node, s, sgx) = [node EXCEPT !.prov = "running"]
             \/ applyProvisioningStepNodeState(node, s, sgx) = [node EXCEPT !.status = "ready"]
             \/ applyProvisioningStepNodeState(node, s, sgx) = [node EXCEPT !.runtime = "ready"]
             \/ applyProvisioningStepNodeState(node, s, sgx) = [node EXCEPT !.sgx = sgx2]
             \/ applyProvisioningStepNodeState(node, s, sgx) =
                   [node EXCEPT !.status = "ready", !.prov = "succeeded",
                                !.runtime = "ready", !.sgx = sgx2]
      <3>1. node.sgx \in {"unknown", "pending", "ready"}
        BY DEF NodeRecord
      <3>2. \/ s = Preflight \/ s = K3sInstall \/ s = RuntimeVerify \/ s = SgxInstall
            \/ s = FinalVerify
        BY DEF Step, Preflight, K3sInstall, RuntimeVerify, SgxInstall, FinalVerify
      <3>3. CASE s = SgxInstall
        BY <3>1, <3>3 DEF applyProvisioningStepNodeState, Preflight, K3sInstall, RuntimeVerify,
              SgxInstall, FinalVerify
      <3>4. CASE s = FinalVerify
        <4>1. applyProvisioningStepNodeState(node, s, sgx) =
                [node EXCEPT !.status = "ready", !.prov = "succeeded", !.runtime = "ready",
                             !.sgx = IF sgx /\ @ = "unknown" THEN "ready" ELSE @]
          <5>1. s # Preflight /\ s # K3sInstall /\ s # RuntimeVerify /\ s # SgxInstall
            BY <3>4 DEF Preflight, K3sInstall, RuntimeVerify, SgxInstall, FinalVerify
          <5>2. QED
            BY <3>4, <5>1, Zenon DEF applyProvisioningStepNodeState
        <4>2. PICK sgx2 \in {"unknown", "pending", "ready"} :
                sgx2 = IF sgx /\ node.sgx = "unknown" THEN "ready" ELSE node.sgx
          BY <3>1
        <4>3. QED
          BY <4>1, <4>2, Zenon
      <3>5. CASE s \in {Preflight, K3sInstall, RuntimeVerify}
        BY <3>1, <3>5 DEF applyProvisioningStepNodeState, Preflight, K3sInstall, RuntimeVerify,
              SgxInstall, FinalVerify
      <3>6. QED
        BY <3>2, <3>3, <3>4, <3>5
    <2>2. QED
      BY <2>1 DEF NodeRecord, TaskStatus
  <1>2. FailedNode(node, s) \in NodeRecord
    BY DEF FailedNode, NodeRecord, TaskStatus
  <1>3. CompletedNode(node, sgx) \in NodeRecord
    BY DEF CompletedNode, NodeRecord, TaskStatus
  <1>4. QED
    BY <1>1, <1>2, <1>3

LEMMA StepTaskType ==
    ASSUME NEW task \in Task, NEW s \in Step, NEW st \in StepStatus, NEW status \in TaskStatus,
           NEW aged \in BOOLEAN
    PROVE  [task EXCEPT !.steps[s] = st, !.status = status, !.aged = aged] \in Task
  BY DEF Task

LEMMA GoesOnTypeOK ==
    ASSUME TypeOK, NEW t \in TaskId, NEW pc \in PcSet, NEW task \in Task,
           NEW node \in NodeRecord, NEW s \in Step, GoOn(t, pc, task, node, s),
           UNCHANGED <<store, pollVars, page, used>>, ran' \in [Node -> SUBSET Step]
    PROVE  TypeOK'
  BY GoOnType DEF TypeOK, store, pollVars

LEMMA RunnerTypeOK ==
    ASSUME TypeOK, NEW t \in TaskId, RunnerNext(t)
    PROVE  TypeOK'
  <1> DEFINE r == runner[t]
  <1>1. r.pc # "idle"
    BY DEF RunnerNext, RunnerQuits, RunnerStarts, RunnerSavesNode, RunnerSavesTask,
           RunnerBeginsStep, RunnerCompletes, StepSucceeds, StepFails, StepPanics,
           RunnerKeepsResult, RunnerEnds, At, AfterNodeSave, AfterTaskSave
  <1>2. /\ r.task \in Task /\ r.node \in NodeRecord /\ r.step \in Step
        /\ r.task.node \in Node /\ r.task.sgx \in BOOLEAN
    BY <1>1, NotIdle, RunnerType
  <1>3. CASE RunnerQuits(t)
    BY <1>3, LeaveType DEF RunnerQuits, TypeOK, store, pollVars, outside
  <1>4. CASE RunnerStarts(t)
    <2>1. [r.task EXCEPT !.status = "running"] \in Task
      BY <1>2 DEF TaskStatus, Task
    <2>2. [r.node EXCEPT !.prov = "running", !.task = t] \in NodeRecord
      BY <1>2 DEF NodeRecord, TaskStatus
    <2>3. QED
      BY <1>2, <1>4, <2>1, <2>2, GoesOnTypeOK DEF RunnerStarts, PcSet, TypeOK, outside
  <1>5. CASE RunnerSavesNode(t)
    <2>1. AfterNodeSave[r.pc] \in PcSet
      BY <1>5 DEF RunnerSavesNode, AfterNodeSave, PcSet
    <2>2. SaveClusterNodeStatus(r.task.node, r.node)
          /\ GoOn(t, AfterNodeSave[r.pc], r.task, r.node, r.step)
          /\ UNCHANGED <<pollVars, ran, page>>
      BY <1>5 DEF RunnerSavesNode, outside
    <2>3. QED
      BY <1>2, <2>1, <2>2, GoOnType, SavesNodeTypeOK DEF TypeOK, pollVars
  <1>6. CASE RunnerSavesTask(t)
    <2>1. AfterTaskSave[r.pc] \in PcSet
      BY <1>6 DEF RunnerSavesTask, AfterTaskSave, PcSet
    <2>2. SaveProvisioningTaskStatus(t, r.task)
          /\ GoOn(t, AfterTaskSave[r.pc], r.task, r.node, r.step)
          /\ UNCHANGED <<pollVars, ran, page>>
      BY <1>6 DEF RunnerSavesTask, outside
    <2>3. QED
      BY <1>2, <2>1, <2>2, GoOnType, SaveTaskType DEF TypeOK, pollVars
  <1>7. CASE RunnerBeginsStep(t)
    <2>1. PICK s \in Step :
            GoOn(t, "stepTask", [r.task EXCEPT !.steps[s] = "running", !.status = "running",
                                               !.aged = FALSE], r.node, s)
      BY <1>7 DEF RunnerBeginsStep
    <2>2. [r.task EXCEPT !.steps[s] = "running", !.status = "running", !.aged = FALSE] \in Task
      BY <1>2, StepTaskType DEF TaskStatus, StepStatus
    <2>3. QED
      BY <1>2, <1>7, <2>1, <2>2, GoesOnTypeOK DEF RunnerBeginsStep, PcSet, TypeOK, outside
  <1>8. CASE RunnerCompletes(t)
    <2>1. [r.task EXCEPT !.status = "succeeded", !.aged = FALSE] \in Task
      BY <1>2 DEF TaskStatus, Task
    <2>2. CompletedNode(r.node, r.task.sgx) \in NodeRecord
      BY <1>2, StepNodeType
    <2>3. QED
      BY <1>2, <1>8, <2>1, <2>2, GoesOnTypeOK DEF RunnerCompletes, PcSet, TypeOK, outside
  <1>9. CASE StepSucceeds(t)
    <2>1. ran' \in [Node -> SUBSET Step]
      BY <1>2, <1>9 DEF StepSucceeds, TypeOK
    <2>2. [r.task EXCEPT !.steps[r.step] = "succeeded", !.aged = FALSE] \in Task
      BY <1>2 DEF StepStatus, Task
    <2>3. applyProvisioningStepNodeState(r.node, r.step, r.task.sgx) \in NodeRecord
      BY <1>2, StepNodeType
    <2>4. CASE Leave(t)
      BY <1>9, <2>1, <2>4, LeaveType DEF StepSucceeds, TypeOK, store, pollVars
    <2>5. CASE ~Leave(t)
      BY <1>2, <1>9, <2>1, <2>2, <2>3, <2>5, GoesOnTypeOK DEF StepSucceeds, PcSet
    <2>6. QED
      BY <2>4, <2>5
  <1>10. CASE StepFails(t)
    <2>1. [r.task EXCEPT !.steps[r.step] = "failed", !.status = "failed", !.aged = FALSE] \in Task
      BY <1>2, StepTaskType DEF TaskStatus, StepStatus
    <2>2. FailedNode(r.node, r.step) \in NodeRecord
      BY <1>2, StepNodeType
    <2>3. QED
      BY <1>2, <1>10, <2>1, <2>2, GoesOnTypeOK DEF StepFails, PcSet, TypeOK, outside
  <1>11. CASE StepPanics(t)
    <2>1. [r.task EXCEPT !.status = "failed", !.aged = FALSE] \in Task
      BY <1>2 DEF TaskStatus, Task
    <2>2. [r.node EXCEPT !.prov = "failed"] \in NodeRecord
      BY <1>2 DEF NodeRecord, TaskStatus
    <2>3. QED
      BY <1>2, <1>11, <2>1, <2>2, GoesOnTypeOK DEF StepPanics, PcSet, TypeOK, outside
  <1>12. CASE RunnerKeepsResult(t)
    BY <1>2, <1>12, GoesOnTypeOK DEF RunnerKeepsResult, PcSet, TypeOK, outside
  <1>13. CASE RunnerEnds(t)
    BY <1>2, <1>13, LeaveType, SaveTaskType DEF RunnerEnds, TypeOK, pollVars, outside
  <1>14. QED
    BY <1>3, <1>4, <1>5, <1>6, <1>7, <1>8, <1>9, <1>10, <1>11, <1>12, <1>13 DEF RunnerNext

(***************************************************************************)
(* The clock and a crash.                                                  *)
(***************************************************************************)
LEMMA AgedType ==
    ASSUME NEW task \in Task \cup {NoTask}
    PROVE  /\ Aged(task) \in Task \cup {NoTask}
           /\ Aged(task) = NoTask <=> task = NoTask
           /\ task # NoTask => /\ Aged(task).node = task.node
                               /\ Aged(task).steps = task.steps
                               /\ Aged(task).status = task.status
  BY ConstantsAssumption DEF Aged, Fresh, Task

LEMMA TimeTypeOK ==
    ASSUME TypeOK, NEW t \in TaskId, TimePasses(t)
    PROVE  TypeOK'
  BY AgedType DEF TimePasses, TypeOK, outside

LEMMA CrashTypeOK ==
    ASSUME TypeOK, Crash
    PROVE  TypeOK'
  <1>1. used' \in [Budgeted -> Nat]
    BY SpendType DEF Crash, TypeOK, Budgeted
  <1>2. QED
    BY <1>1 DEF Crash, TypeOK, NothingListed, NothingSeen, store, outside

(***************************************************************************)
(* The inductive invariant.  The stored records stay truthful and ordered  *)
(* only because every copy of them does: those the poll loop listed and    *)
(* those the goroutines work on, which are written back later.             *)
(***************************************************************************)
GoodRecord(task, done) == RecordIsTruthful(task, done) /\ StepsInOrder(task)

GoodRunner(r, done) ==
    /\ GoodRecord(r.task, done)
    /\ r.pc \in {"stepTask", "exec"} => r.task.steps[r.step] = "running"
    /\ r.pc = "start" => r.task.status = "pending"
    /\ r.pc \in {"endNode", "endTask"} => r.task.status \in {"succeeded", "failed"}
    /\ r.pc \notin {"start", "endNode", "endTask"} => r.task.status = "running"

RecordsInv ==
    /\ \A t \in TaskId : tasks[t] # NoTask => GoodRecord(tasks[t], ran)
    /\ \A t \in TaskId : listed[t] # NoTask => GoodRecord(listed[t], ran)
    /\ \A t \in TaskId : runner[t] # Idle => GoodRunner(runner[t], ran)

Ended(task) == task.status \in {"succeeded", "failed"}

\* The task whose timeout the poll loop is in the middle of saving.
BeingTimedOut(t) == phase = "timeout" /\ IsNextTask(t)

\* A listed task the poll loop may still start or time out has not ended in the
\* store: only its goroutine or the poll loop itself could have ended it.
AloneInv ==
    /\ EndedTasksAreAlone
    /\ phase \in {"idle", "wait", "metrics"} => listed = NothingListed
    /\ \A t \in TaskId :
          /\ listed[t] # NoTask
          /\ listed[t].status \in {"pending", "running"}
          /\ tasks[t] # NoTask
          /\ Ended(tasks[t])
          => BeingTimedOut(t)
    /\ \A t \in TaskId :
          BeingTimedOut(t) => listed[t].status = "running" /\ seen[listed[t].node] # NoNode
    /\ \A t \in TaskId : t > created => tasks[t] = NoTask

Inv == TypeOK /\ RecordsInv /\ AloneInv

(***************************************************************************)
(* What the functions of the service and of the executor do to a record.   *)
(***************************************************************************)
LEMMA GoodLater ==
    ASSUME NEW task \in Task, NEW done, NEW later, GoodRecord(task, done),
           \A n \in Node : done[n] \subseteq later[n]
    PROVE  GoodRecord(task, later)
  BY DEF GoodRecord, RecordIsTruthful, Task

LEMMA GoodSame ==
    ASSUME NEW task \in Task, NEW other \in Task, NEW done, GoodRecord(task, done),
           other.node = task.node, other.steps = task.steps,
           other.status = "succeeded" => task.status = "succeeded"
    PROVE  GoodRecord(other, done)
  BY DEF GoodRecord, RecordIsTruthful, StepsInOrder

LEMMA GoodNew ==
    ASSUME NEW task \in Task, NEW sgx \in BOOLEAN, NEW done,
           task.steps = buildProvisioningSteps(sgx), task.status = "pending"
    PROVE  GoodRecord(task, done)
  BY DEF GoodRecord, RecordIsTruthful, StepsInOrder, buildProvisioningSteps

LEMMA GoodRetried ==
    ASSUME NEW task \in Task, NEW other \in Task, NEW done, GoodRecord(task, done),
           other.node = task.node, other.steps = Restarted(task.steps),
           other.status = "pending"
    PROVE  GoodRecord(other, done)
  <1>1. \A s \in Step : other.steps[s] \in {task.steps[s], "pending"}
    BY DEF Restarted
  <1>2. RecordIsTruthful(other, done)
    BY <1>1 DEF GoodRecord, RecordIsTruthful
  <1>3. task.steps \in [Step -> StepStatus]
    BY DEF Task
  <1>4. StepsInOrder(other)
    <2>1. CASE \E s \in Step : task.steps[s] \in {"failed", "running"}
      BY <1>3, <2>1 DEF GoodRecord, StepsInOrder, Restarted, Open, Step, StepStatus
    <2>2. CASE ~ \E s \in Step : task.steps[s] \in {"failed", "running"}
      BY <1>3, <2>2 DEF GoodRecord, StepsInOrder, Restarted, Open, Step, StepStatus, Preflight
    <2>3. QED
      BY <2>1, <2>2
  <1>5. QED
    BY <1>2, <1>4 DEF GoodRecord

LEMMA GoodCancelled ==
    ASSUME NEW task \in Task, NEW other \in Task, NEW done, GoodRecord(task, done),
           other.node = task.node, other.steps = Skipped(task.steps),
           other.status = "cancelled"
    PROVE  GoodRecord(other, done)
  <1>1. task.steps \in [Step -> StepStatus]
    BY DEF Task
  <1>2. \A s \in Step : \/ other.steps[s] = task.steps[s]
                           /\ task.steps[s] \notin {"running", "pending"}
                        \/ other.steps[s] = "skipped"
                           /\ task.steps[s] \in {"running", "pending"}
    BY DEF Skipped
  <1>3. RecordIsTruthful(other, done)
    BY <1>2 DEF GoodRecord, RecordIsTruthful
  <1>4. StepsInOrder(other)
    BY <1>1, <1>2 DEF GoodRecord, StepsInOrder, Open, StepStatus
  <1>5. QED
    BY <1>3, <1>4 DEF GoodRecord

LEMMA GoodBegun ==
    ASSUME NEW task \in Task, NEW other \in Task, NEW done, GoodRecord(task, done),
           NEW s \in Step, IsNextStep(task, s), other.node = task.node,
           other.steps = [task.steps EXCEPT ![s] = "running"], other.status = "running"
    PROVE  GoodRecord(other, done)
  <1>1. task.steps \in [Step -> StepStatus]
    BY DEF Task
  <1>2. RecordIsTruthful(other, done)
    BY <1>1 DEF GoodRecord, RecordIsTruthful
  <1>3. StepsInOrder(other)
    BY <1>1 DEF GoodRecord, StepsInOrder, IsNextStep, Open, StepStatus, Step
  <1>4. QED
    BY <1>2, <1>3 DEF GoodRecord

LEMMA GoodStepDone ==
    ASSUME NEW task \in Task, NEW other \in Task, NEW done, GoodRecord(task, done),
           NEW s \in Step, task.steps[s] = "running", NEW st \in {"succeeded", "failed"},
           st = "succeeded" => s \in done[task.node], other.node = task.node,
           other.steps = [task.steps EXCEPT ![s] = st], other.status # "succeeded"
    PROVE  GoodRecord(other, done)
  <1>1. task.steps \in [Step -> StepStatus]
    BY DEF Task
  <1>2. RecordIsTruthful(other, done)
    BY <1>1 DEF GoodRecord, RecordIsTruthful
  <1>3. StepsInOrder(other)
    BY <1>1 DEF GoodRecord, StepsInOrder, Open, StepStatus, Step
  <1>4. QED
    BY <1>2, <1>3 DEF GoodRecord

LEMMA GoodCompleted ==
    ASSUME NEW task \in Task, NEW other \in Task, NEW done, GoodRecord(task, done),
           \A s \in Step : ~IsNextStep(task, s), other.node = task.node,
           other.steps = task.steps
    PROVE  GoodRecord(other, done)
  <1>1. \A s \in Step : task.steps[s] \notin Open
    BY DEF IsNextStep, Step
  <1>2. QED
    BY <1>1 DEF GoodRecord, RecordIsTruthful, StepsInOrder

(***************************************************************************)
(* The invariant is preserved: the users' actions, which never end a task  *)
(* and touch nothing but the store.                                        *)
(***************************************************************************)
LEMMA NewTaskEffect ==
    ASSUME Inv, NEW n \in Node, NEW sgx \in BOOLEAN, createProvisioningTaskInSnapshot(n, sgx)
    PROVE  /\ \A u \in TaskId : tasks'[u] # NoTask =>
                 /\ GoodRecord(tasks'[u], ran)
                 /\ Ended(tasks'[u]) => tasks[u] # NoTask /\ Ended(tasks[u])
           /\ \A u \in TaskId : u > created' => tasks'[u] = NoTask
  <1> DEFINE new == [node |-> n, sgx |-> sgx, status |-> "pending",
                     steps |-> buildProvisioningSteps(sgx), aged |-> FALSE]
  <1>1. buildProvisioningSteps(sgx) \in [Step -> StepStatus]
    BY DEF buildProvisioningSteps, StepStatus
  <1>2. new \in Task
    BY <1>1 DEF Task, TaskStatus
  <1>3. GoodRecord(new, ran) /\ ~Ended(new)
    BY <1>2, GoodNew DEF Ended
  <1>4. tasks' = [tasks EXCEPT ![created + 1] = new] /\ created' = created + 1
    BY DEF createProvisioningTaskInSnapshot
  <1>5. created \in Nat /\ \A u \in TaskId : u \in Nat
    BY ConstantsAssumption DEF Inv, TypeOK, TaskId
  <1> HIDE DEF new
  <1>6. \A u \in TaskId : tasks'[u] = IF u = created + 1 THEN new ELSE tasks[u]
    BY <1>4 DEF Inv, TypeOK
  <1>7. QED
    BY <1>3, <1>4, <1>5, <1>6 DEF Inv, RecordsInv, AloneInv

LEMMA UserEffect ==
    ASSUME Inv, UserNext
    PROVE  /\ UNCHANGED <<pollVars, runner, ran>>
           /\ \A u \in TaskId : tasks'[u] # NoTask =>
                 /\ GoodRecord(tasks'[u], ran)
                 /\ Ended(tasks'[u]) => tasks[u] # NoTask /\ Ended(tasks[u])
           /\ \A u \in TaskId : u > created' => tasks'[u] = NoTask
  <1> USE DEF Inv
  <1>1. ASSUME NEW n \in Node, NEW payload, NEW sgx \in BOOLEAN, NEW auto \in BOOLEAN,
               SaveClusterNode(n, payload, sgx, auto)
        PROVE  /\ UNCHANGED <<pollVars, runner, ran>>
               /\ \A u \in TaskId : tasks'[u] # NoTask =>
                     /\ GoodRecord(tasks'[u], ran)
                     /\ Ended(tasks'[u]) => tasks[u] # NoTask /\ Ended(tasks[u])
               /\ \A u \in TaskId : u > created' => tasks'[u] = NoTask
    <2>1. UNCHANGED <<pollVars, runner, ran>>
      BY <1>1 DEF SaveClusterNode
    <2>2. CASE createProvisioningTaskInSnapshot(n, sgx)
      BY <2>1, <2>2, NewTaskEffect
    <2>3. CASE UNCHANGED <<tasks, created>>
      BY <2>1, <2>3 DEF RecordsInv, AloneInv
    <2>4. QED
      BY <1>1, <2>2, <2>3 DEF SaveClusterNode
  <1>2. ASSUME NEW n \in Node, DeleteClusterNode(n)
        PROVE  /\ UNCHANGED <<pollVars, runner, ran>>
               /\ \A u \in TaskId : tasks'[u] # NoTask =>
                     /\ GoodRecord(tasks'[u], ran)
                     /\ Ended(tasks'[u]) => tasks[u] # NoTask /\ Ended(tasks[u])
               /\ \A u \in TaskId : u > created' => tasks'[u] = NoTask
    <2>1. \A u \in TaskId : tasks'[u] \in {tasks[u], NoTask}
      BY <1>2 DEF DeleteClusterNode
    <2>2. UNCHANGED <<created, pollVars, runner, ran>>
      BY <1>2 DEF DeleteClusterNode, outside
    <2>3. QED
      BY <2>1, <2>2 DEF RecordsInv, AloneInv
  <1>3. ASSUME NEW t \in TaskId, RetryProvisioningTask(t) \/ CancelProvisioningTask(t)
        PROVE  /\ UNCHANGED <<pollVars, runner, ran>>
               /\ \A u \in TaskId : tasks'[u] # NoTask =>
                     /\ GoodRecord(tasks'[u], ran)
                     /\ Ended(tasks'[u]) => tasks[u] # NoTask /\ Ended(tasks[u])
               /\ \A u \in TaskId : u > created' => tasks'[u] = NoTask
    <2>1. tasks[t] \in Task /\ tasks[t] # NoTask
      BY <1>3 DEF RetryProvisioningTask, CancelProvisioningTask, TypeOK
    <2>2. TypeOK'
      BY <1>3, RetryTypeOK, CancelTypeOK
    <2>3. UNCHANGED <<created, pollVars, runner, ran>>
      BY <1>3 DEF RetryProvisioningTask, CancelProvisioningTask, outside
    <2>4. \A u \in TaskId : u # t => tasks'[u] = tasks[u]
      BY <1>3 DEF RetryProvisioningTask, CancelProvisioningTask, TypeOK
    <2>5. /\ tasks'[t].node = tasks[t].node
          /\ \/ /\ tasks'[t].steps = Restarted(tasks[t].steps)
                /\ tasks'[t].status = "pending"
             \/ /\ tasks'[t].steps = Skipped(tasks[t].steps)
                /\ tasks'[t].status = "cancelled"
      BY <1>3, <2>1 DEF RetryProvisioningTask, CancelProvisioningTask, TypeOK, Task
    <2>6. tasks'[t] \in Task
      <3>1. tasks'[t] \in Task \cup {NoTask}
        BY <2>2 DEF TypeOK
      <3>2. tasks'[t] # NoTask
        BY <1>3, <2>1, ConstantsAssumption, RestartedType, SkippedType
           DEF RetryProvisioningTask, CancelProvisioningTask, TypeOK, Task, TaskStatus
      <3>3. QED
        BY <3>1, <3>2
    <2>7. GoodRecord(tasks[t], ran)
      BY <2>1 DEF RecordsInv
    <2>8. GoodRecord(tasks'[t], ran) /\ ~Ended(tasks'[t])
      BY <2>1, <2>5, <2>6, <2>7, GoodRetried, GoodCancelled DEF Ended
    <2>9. ~(t > created)
      BY <2>1 DEF AloneInv
    <2>10. \A u \in TaskId : tasks'[u] # NoTask =>
             /\ GoodRecord(tasks'[u], ran)
             /\ Ended(tasks'[u]) => tasks[u] # NoTask /\ Ended(tasks[u])
      BY <2>4, <2>8 DEF RecordsInv
    <2>11. \A u \in TaskId : u > created' => tasks'[u] = NoTask
      BY <2>3, <2>4, <2>9 DEF AloneInv
    <2>12. QED
      BY <2>3, <2>10, <2>11
  <1>4. SgxChoice \subseteq BOOLEAN
    BY ConstantsAssumption
  <1>5. ASSUME NEW b \in Browser, LoadPage(b)
        PROVE  UNCHANGED <<tasks, created, pollVars, runner, ran>>
    BY <1>5 DEF LoadPage, store
  <1>6. QED
    BY <1>1, <1>2, <1>3, <1>4, <1>5 DEF UserNext, EditNode, RecordsInv, AloneInv

LEMMA UserInv ==
    ASSUME Inv, UserNext
    PROVE  Inv'
  <1>1. TypeOK'
    BY UserTypeOK DEF Inv
  <1>2. UNCHANGED <<phase, listed, seen, runner, ran>>
    BY UserEffect DEF pollVars
  <1>3. RecordsInv'
    BY <1>2, UserEffect DEF Inv, RecordsInv
  <1>4. EndedTasksAreAlone'
    BY <1>2, UserEffect DEF Inv, AloneInv, EndedTasksAreAlone, Active, Ended
  <1>5. \A t \in TaskId : BeingTimedOut(t)' <=> BeingTimedOut(t)
    BY <1>2 DEF BeingTimedOut, IsNextTask
  <1>6. AloneInv'
    BY <1>2, <1>4, <1>5, UserEffect DEF Inv, AloneInv
  <1>7. QED
    BY <1>1, <1>3, <1>6 DEF Inv

(***************************************************************************)
(* What the executor's save of a task does to the stored tasks.            *)
(***************************************************************************)
LEMMA SaveTaskEffect ==
    ASSUME Inv, NEW t \in TaskId, NEW task \in Task, GoodRecord(task, ran),
           SaveProvisioningTaskStatus(t, task)
    PROVE  /\ created' = created
           /\ \A u \in TaskId : u # t => tasks'[u] = tasks[u]
           /\ tasks'[t] # NoTask => GoodRecord(tasks'[t], ran)
           /\ tasks'[t] = NoTask <=> tasks[t] = NoTask
           /\ \/ tasks'[t] = tasks[t]
              \/ /\ tasks[t] # NoTask
                 /\ tasks'[t].status = task.status
                 /\ tasks[t].status = "cancelled" => task.status = "cancelled"
  <1> USE DEF Inv
  <1>1. CASE tasks' = tasks
    BY <1>1, SaveTaskType DEF RecordsInv
  <1>2. CASE tasks' # tasks
    <2> DEFINE saved == [task EXCEPT !.sgx = @ \/ tasks[t].sgx]
    <2>1. CanSave(t, task) /\ tasks' = [tasks EXCEPT ![t] = saved]
      BY <1>2 DEF SaveProvisioningTaskStatus, StoreFails, store
    <2>2. tasks[t] \in Task
      BY <2>1 DEF CanSave, TypeOK
    <2>3. saved \in Task
      BY <2>2 DEF Task
    <2>4. saved.node = task.node /\ saved.steps = task.steps /\ saved.status = task.status
      BY DEF Task
    <2>5. GoodRecord(saved, ran)
      BY <2>3, <2>4, GoodSame
    <2> HIDE DEF saved
    <2>6. tasks'[t] = saved /\ \A u \in TaskId : u # t => tasks'[u] = tasks[u]
      BY <2>1 DEF TypeOK
    <2>7. tasks'[t] # NoTask
      BY <2>3, <2>6, ConstantsAssumption
    <2>8. created' = created
      BY SaveTaskType
    <2>9. QED
      BY <2>1, <2>4, <2>5, <2>6, <2>7, <2>8 DEF CanSave
  <1>3. QED
    BY <1>1, <1>2

LEMMA SaveTaskKeeps ==
    ASSUME Inv, NEW t \in TaskId, NEW task \in Task, GoodRecord(task, ran),
           SaveProvisioningTaskStatus(t, task)
    PROVE  /\ \A u \in TaskId : tasks'[u] # NoTask => GoodRecord(tasks'[u], ran)
           /\ \A u \in TaskId : u > created' => tasks'[u] = NoTask
  <1>1. \A u \in TaskId : tasks'[u] # NoTask => GoodRecord(tasks'[u], ran)
    BY SaveTaskEffect DEF Inv, RecordsInv
  <1>2. \A u \in TaskId : u > created' => tasks'[u] = NoTask
    BY SaveTaskEffect DEF Inv, AloneInv
  <1>3. QED
    BY <1>1, <1>2

(***************************************************************************)
(* The invariant is preserved: the poll goroutine.                         *)
(***************************************************************************)
LEMMA OneIsNext ==
    ASSUME NEW t \in TaskId, NEW u \in TaskId, IsNextTask(t), IsNextTask(u)
    PROVE  t = u
  BY DEF IsNextTask, TaskId

LEMMA ListedGood ==
    ASSUME Inv, NEW t \in TaskId, listed[t] # NoTask
    PROVE  /\ GoodRecord(listed[t], ran)
           /\ GoodRecord(FailedCopy(t), ran)
           /\ ~Active(t)
  <1>1. GoodRecord(listed[t], ran)
    BY DEF Inv, RecordsInv
  <1>2. GoodRecord(FailedCopy(t), ran)
    BY <1>1, CopyType, GoodSame DEF Inv
  <1>3. ~Active(t)
    BY DEF Inv, AloneInv, EndedTasksAreAlone
  <1>4. QED
    BY <1>1, <1>2, <1>3

LEMMA PollListTasksInv ==
    ASSUME Inv, PollListTasks
    PROVE  RecordsInv' /\ AloneInv'
  <1> USE DEF Inv, PollListTasks, store
  <1>1. RecordsInv'
    BY DEF RecordsInv, outside
  <1>2. \A t \in TaskId : ~Active(t)
    BY DEF AloneInv, EndedTasksAreAlone
  <1>3. EndedTasksAreAlone'
    BY <1>2 DEF EndedTasksAreAlone, Active
  <1>4. AloneInv'
    BY <1>3 DEF AloneInv, BeingTimedOut, Ended
  <1>5. QED
    BY <1>1, <1>4

LEMMA PollLooksInv ==
    ASSUME Inv,
           \/ PollListNodes \/ PollScanned \/ PollMetrics \/ PollDone
           \/ \E t \in TaskId : PollPass(t)
           \/ \E n \in Node : PollSaveMetrics(n)
    PROVE  RecordsInv' /\ AloneInv'
  <1> USE DEF Inv
  <1>1. UNCHANGED <<tasks, created, runner, ran>>
    BY SaveNodeType DEF PollListNodes, PollScanned, PollMetrics, PollDone, PollPass,
       PollSaveMetrics, SaveClusterNodeStatus, StoreFails, store, outside
  <1>2. \A t \in TaskId : listed'[t] \in {listed[t], NoTask}
    BY DEF PollListNodes, PollScanned, PollMetrics, PollDone, PollPass, PollSaveMetrics,
       LookedAt, TypeOK
  <1>3. RecordsInv'
    BY <1>1, <1>2 DEF RecordsInv
  <1>4. phase' # "timeout" /\ phase # "timeout"
    BY DEF PollListNodes, PollScanned, PollMetrics, PollDone, PollPass, PollSaveMetrics
  <1>5. (\E t \in TaskId : Active(t)) => phase' \in {"scan", "timeout", "wait"}
    BY DEF PollListNodes, PollScanned, PollMetrics, PollDone, PollPass, PollSaveMetrics,
       RunnersDone, AloneInv, EndedTasksAreAlone
  <1>6. EndedTasksAreAlone'
    BY <1>1, <1>2, <1>5 DEF AloneInv, EndedTasksAreAlone, Active
  <1>7. phase' \in {"idle", "wait", "metrics"} => listed' = NothingListed
    BY DEF PollListNodes, PollScanned, PollMetrics, PollDone, PollPass, PollSaveMetrics, AloneInv
  <1>8. AloneInv'
    BY <1>1, <1>2, <1>4, <1>6, <1>7 DEF AloneInv, BeingTimedOut
  <1>9. QED
    BY <1>3, <1>8

LEMMA PollTimeoutInv ==
    ASSUME Inv, NEW t \in TaskId, PollTimeout(t) \/ PollMissingNode(t)
    PROVE  RecordsInv' /\ AloneInv'
  <1> USE DEF Inv
  <1>1. /\ listed[t] # NoTask /\ IsNextTask(t) /\ phase = "scan"
        /\ SaveProvisioningTaskStatus(t, FailedCopy(t))
        /\ UNCHANGED <<seen, runner, ran>>
    BY DEF PollTimeout, PollMissingNode, IsNextTask, outside
  <1>2. GoodRecord(FailedCopy(t), ran) /\ FailedCopy(t) \in Task /\ ~Active(t)
    BY <1>1, ListedGood, CopyType
  <1>3. /\ created' = created
        /\ \A u \in TaskId : u # t => tasks'[u] = tasks[u]
        /\ \A u \in TaskId : tasks'[u] # NoTask => GoodRecord(tasks'[u], ran)
        /\ \A u \in TaskId : u > created' => tasks'[u] = NoTask
    BY <1>1, <1>2, SaveTaskEffect, SaveTaskKeeps
  <1>4. \/ /\ phase' = "scan"
           /\ listed' = [listed EXCEPT ![t] = NoTask]
        \/ /\ phase' = "timeout" /\ listed' = listed
           /\ listed[t].status = "running" /\ seen[listed[t].node] # NoNode
    BY <1>1 DEF PollTimeout, PollMissingNode, LookedAt, TimedOut
  <1>5. \A u \in TaskId : listed'[u] \in {listed[u], NoTask}
    BY <1>4 DEF TypeOK
  <1>6. RecordsInv'
    BY <1>1, <1>3, <1>5 DEF RecordsInv
  <1>7. EndedTasksAreAlone'
    BY <1>1, <1>2, <1>3, <1>4, <1>5 DEF AloneInv, EndedTasksAreAlone, Active
  <1>8. \A u \in TaskId : u # t => /\ tasks'[u] = tasks[u]
                                   /\ ~BeingTimedOut(u)
    BY <1>1, <1>3 DEF BeingTimedOut
  <1>9. CASE phase' = "scan" /\ listed' = [listed EXCEPT ![t] = NoTask]
    <2>1. listed'[t] = NoTask
      BY <1>9 DEF TypeOK
    <2>2. QED
      BY <1>1, <1>3, <1>5, <1>6, <1>7, <1>8, <1>9, <2>1 DEF AloneInv, BeingTimedOut
  <1>10. CASE /\ phase' = "timeout" /\ listed' = listed
              /\ listed[t].status = "running" /\ seen[listed[t].node] # NoNode
    <2>1. \A u \in TaskId : BeingTimedOut(u)' <=> u = t
      BY <1>1, <1>10, OneIsNext DEF BeingTimedOut, IsNextTask
    <2>2. QED
      BY <1>1, <1>3, <1>6, <1>7, <1>8, <1>10, <2>1 DEF AloneInv
  <1>11. QED
    BY <1>4, <1>6, <1>9, <1>10

LEMMA PollTimeoutNodeInv ==
    ASSUME Inv, NEW t \in TaskId, PollTimeoutNode(t)
    PROVE  RecordsInv' /\ AloneInv'
  <1> USE DEF Inv
  <1>1. /\ BeingTimedOut(t) /\ phase' = "scan"
        /\ listed' = [listed EXCEPT ![t] = NoTask]
        /\ UNCHANGED <<tasks, created, seen, runner, ran>>
    BY DEF PollTimeoutNode, BeingTimedOut, LookedAt, SaveClusterNodeStatus, StoreFails, store,
       outside
  <1>2. listed'[t] = NoTask /\ \A u \in TaskId : listed'[u] \in {listed[u], NoTask}
    BY <1>1 DEF TypeOK
  <1>3. RecordsInv'
    BY <1>1, <1>2 DEF RecordsInv
  <1>4. EndedTasksAreAlone'
    BY <1>1, <1>2 DEF AloneInv, EndedTasksAreAlone, Active
  <1>5. \A u \in TaskId : u # t => ~BeingTimedOut(u)
    BY <1>1, OneIsNext DEF BeingTimedOut
  <1>6. AloneInv'
    BY <1>1, <1>2, <1>4, <1>5 DEF AloneInv, BeingTimedOut
  <1>7. QED
    BY <1>3, <1>6

LEMMA PollSpawnInv ==
    ASSUME Inv, NEW t \in TaskId, PollSpawn(t)
    PROVE  RecordsInv' /\ AloneInv'
  <1> DEFINE started == [pc |-> "start", task |-> listed[t], node |-> seen[listed[t].node],
                         step |-> Preflight]
  <1> USE DEF Inv
  <1>1. /\ listed[t] # NoTask /\ listed[t].status = "pending"
        /\ phase = "scan"
        /\ runner' = [runner EXCEPT ![t] = started]
        /\ listed' = [listed EXCEPT ![t] = NoTask]
        /\ UNCHANGED <<tasks, nodes, created, phase, seen, ran>>
    BY DEF PollSpawn, IsNextTask, LookedAt, store, outside
  <1>2. /\ listed'[t] = NoTask
        /\ \A u \in TaskId : listed'[u] \in {listed[u], NoTask}
        /\ runner'[t] = started
        /\ \A u \in TaskId : u # t => runner'[u] = runner[u]
    BY <1>1 DEF TypeOK
  <1>3. GoodRunner(started, ran)
    BY <1>1, ListedGood DEF GoodRunner
  <1> HIDE DEF started
  <1>4. RecordsInv'
    BY <1>1, <1>2, <1>3 DEF RecordsInv
  <1>5. tasks[t] # NoTask => ~Ended(tasks[t])
    BY <1>1 DEF AloneInv, BeingTimedOut
  <1>6. EndedTasksAreAlone'
    BY <1>1, <1>2, <1>5 DEF AloneInv, EndedTasksAreAlone, Active, Ended
  <1>7. AloneInv'
    BY <1>1, <1>2, <1>6 DEF AloneInv, BeingTimedOut
  <1>8. QED
    BY <1>4, <1>7

LEMMA PollInv ==
    ASSUME Inv, PollNext
    PROVE  Inv'
  <1>1. \A t \in TaskId : PollTimeoutNode(t) => seen[listed[t].node] # NoNode
    BY DEF Inv, AloneInv, BeingTimedOut, PollTimeoutNode
  <1>2. TypeOK'
    BY <1>1, PollTypeOK DEF Inv
  <1>3. RecordsInv' /\ AloneInv'
    BY PollListTasksInv, PollLooksInv, PollTimeoutInv, PollTimeoutNodeInv, PollSpawnInv
       DEF PollNext
  <1>4. QED
    BY <1>2, <1>3 DEF Inv

(***************************************************************************)
(* The invariant is preserved: the goroutine of a task.                    *)
(***************************************************************************)
LEMMA RunnerFacts ==
    ASSUME Inv, NEW t \in TaskId, runner[t].pc # "idle"
    PROVE  /\ Active(t)
           /\ GoodRunner(runner[t], ran)
           /\ runner[t].task \in Task
           /\ runner[t].step \in Step
           /\ runner[t].task.node \in Node
           /\ runner[t].task.steps \in [Step -> StepStatus]
           /\ listed[t] = NoTask
           /\ phase \in {"scan", "timeout", "wait"}
           /\ tasks[t] # NoTask => ~Ended(tasks[t])
  <1>1. runner[t] # Idle
    BY NotIdle
  <1>2. QED
    BY <1>1, RunnerType DEF Inv, RecordsInv, AloneInv, EndedTasksAreAlone, Active, Ended

LEMMA RunnerMoves ==
    ASSUME Inv, NEW t \in TaskId, runner[t].pc # "idle", NEW next,
           next = Idle \/ GoodRunner(next, ran'),
           runner' = [runner EXCEPT ![t] = next],
           UNCHANGED <<tasks, created, pollVars>>,
           \A n \in Node : ran[n] \subseteq ran'[n]
    PROVE  RecordsInv' /\ AloneInv'
  <1> USE DEF Inv
  <1>1. /\ runner'[t] = next /\ \A u \in TaskId : u # t => runner'[u] = runner[u]
        /\ UNCHANGED <<tasks, created, phase, listed, seen>>
    BY DEF TypeOK, pollVars
  <1>2. \A u \in TaskId : tasks[u] # NoTask => GoodRecord(tasks[u], ran')
    BY GoodLater DEF TypeOK, RecordsInv
  <1>3. \A u \in TaskId : listed[u] # NoTask => GoodRecord(listed[u], ran')
    BY GoodLater DEF TypeOK, RecordsInv
  <1>4. \A u \in TaskId : runner[u] # Idle => GoodRunner(runner[u], ran')
    <2>1. TAKE u \in TaskId
    <2>2. HAVE runner[u] # Idle
    <2>3. GoodRunner(runner[u], ran) /\ runner[u].task \in Task
      BY <2>2, RunnerType DEF RecordsInv
    <2>4. QED
      BY <2>3, GoodLater DEF GoodRunner
  <1>5. RecordsInv'
    BY <1>1, <1>2, <1>3, <1>4 DEF RecordsInv
  <1>6. EndedTasksAreAlone'
    BY <1>1, RunnerFacts DEF AloneInv, EndedTasksAreAlone, Active
  <1>7. \A u \in TaskId : BeingTimedOut(u)' <=> BeingTimedOut(u)
    BY <1>1 DEF BeingTimedOut, IsNextTask
  <1>8. AloneInv'
    BY <1>1, <1>6, <1>7 DEF AloneInv
  <1>9. QED
    BY <1>5, <1>8

LEMMA RunnerWorksInv ==
    ASSUME Inv, NEW t \in TaskId,
           \/ RunnerQuits(t) \/ RunnerStarts(t) \/ RunnerBeginsStep(t) \/ RunnerCompletes(t)
           \/ StepSucceeds(t) \/ StepFails(t) \/ StepPanics(t) \/ RunnerKeepsResult(t)
           \/ RunnerSavesNode(t)
    PROVE  RecordsInv' /\ AloneInv'
  <1> DEFINE r == runner[t]
  <1>1. r.pc # "idle"
    BY DEF RunnerQuits, RunnerStarts, RunnerBeginsStep, RunnerCompletes, StepSucceeds,
           StepFails, StepPanics, RunnerKeepsResult, RunnerSavesNode, At, AfterNodeSave
  <1>2. /\ GoodRunner(r, ran) /\ r.task \in Task /\ r.step \in Step
        /\ r.task.node \in Node /\ r.task.steps \in [Step -> StepStatus]
    BY <1>1, RunnerFacts
  <1>3. UNCHANGED <<tasks, created, pollVars>>
    BY DEF RunnerQuits, RunnerStarts, RunnerBeginsStep, RunnerCompletes, StepSucceeds,
           StepFails, StepPanics, RunnerKeepsResult, RunnerSavesNode, SaveClusterNodeStatus,
           StoreFails, store
  <1>4. CASE UNCHANGED ran /\ Leave(t)
    BY <1>1, <1>3, <1>4, RunnerMoves DEF Leave
  <1>5. CASE RunnerStarts(t)
    <2> DEFINE task == [r.task EXCEPT !.status = "running"]
               node == [r.node EXCEPT !.prov = "running", !.task = t]
    <2>1. task \in Task /\ task.node = r.task.node /\ task.steps = r.task.steps
          /\ task.status = "running"
      BY <1>2 DEF Task, TaskStatus
    <2>2. GoodRecord(task, ran)
      BY <1>2, <2>1, GoodSame DEF GoodRunner
    <2> HIDE DEF task, node
    <2>3. GoodRunner([pc |-> "startNode", task |-> task, node |-> node, step |-> r.step], ran)
      BY <2>1, <2>2 DEF GoodRunner
    <2>4. runner' = [runner EXCEPT ![t] = [pc |-> "startNode", task |-> task, node |-> node,
                                           step |-> r.step]] /\ ran' = ran
      BY <1>5 DEF RunnerStarts, GoOn, task, node, outside
    <2>5. QED
      BY <1>1, <1>3, <2>3, <2>4, RunnerMoves
  <1>6. CASE RunnerSavesNode(t) \/ RunnerKeepsResult(t)
    <2> DEFINE pc == IF RunnerKeepsResult(t) THEN "okNode" ELSE AfterNodeSave[r.pc]
    <2>1. runner' = [runner EXCEPT ![t] = [pc |-> pc, task |-> r.task, node |-> r.node,
                                           step |-> r.step]] /\ ran' = ran
      BY <1>6 DEF RunnerSavesNode, RunnerKeepsResult, GoOn, At, AfterNodeSave, outside
    <2>2. GoodRunner([pc |-> pc, task |-> r.task, node |-> r.node, step |-> r.step], ran)
      BY <1>2, <1>6 DEF GoodRunner, RunnerSavesNode, RunnerKeepsResult, At, AfterNodeSave
    <2> HIDE DEF pc
    <2>3. QED
      BY <1>1, <1>3, <2>1, <2>2, RunnerMoves
  <1>7. CASE RunnerBeginsStep(t)
    <2>1. PICK s \in Step :
            /\ IsNextStep(r.task, s)
            /\ GoOn(t, "stepTask", [r.task EXCEPT !.steps[s] = "running", !.status = "running",
                                                  !.aged = FALSE], r.node, s)
      BY <1>7 DEF RunnerBeginsStep
    <2> DEFINE task == [r.task EXCEPT !.steps[s] = "running", !.status = "running",
                                      !.aged = FALSE]
    <2>2. task \in Task
      BY <1>2, StepTaskType DEF TaskStatus, StepStatus
    <2>3. /\ task.node = r.task.node /\ task.status = "running"
          /\ task.steps = [r.task.steps EXCEPT ![s] = "running"]
          /\ task.steps[s] = "running"
      BY <1>2 DEF Task
    <2>4. GoodRecord(task, ran)
      BY <1>2, <2>1, <2>2, <2>3, GoodBegun DEF GoodRunner
    <2>5. runner' = [runner EXCEPT ![t] = [pc |-> "stepTask", task |-> task, node |-> r.node,
                                           step |-> s]] /\ ran' = ran
      BY <1>7, <2>1 DEF RunnerBeginsStep, GoOn, outside
    <2> HIDE DEF task
    <2>6. GoodRunner([pc |-> "stepTask", task |-> task, node |-> r.node, step |-> s], ran)
      BY <2>3, <2>4 DEF GoodRunner
    <2>7. QED
      BY <1>1, <1>3, <2>5, <2>6, RunnerMoves
  <1>8. CASE RunnerCompletes(t)
    <2> DEFINE task == [r.task EXCEPT !.status = "succeeded", !.aged = FALSE]
               node == CompletedNode(r.node, r.task.sgx)
    <2>1. task \in Task /\ task.node = r.task.node /\ task.steps = r.task.steps
          /\ task.status = "succeeded"
      BY <1>2 DEF Task, TaskStatus
    <2>2. GoodRecord(task, ran)
      BY <1>2, <1>8, <2>1, GoodCompleted DEF RunnerCompletes, GoodRunner
    <2>3. runner' = [runner EXCEPT ![t] = [pc |-> "endNode", task |-> task, node |-> node,
                                           step |-> r.step]] /\ ran' = ran
      BY <1>8 DEF RunnerCompletes, GoOn, outside
    <2> HIDE DEF task, node
    <2>4. GoodRunner([pc |-> "endNode", task |-> task, node |-> node, step |-> r.step], ran)
      BY <2>1, <2>2 DEF GoodRunner
    <2>5. QED
      BY <1>1, <1>3, <2>3, <2>4, RunnerMoves
  <1>9. CASE StepPanics(t)
    <2> DEFINE task == [r.task EXCEPT !.status = "failed", !.aged = FALSE]
               node == [r.node EXCEPT !.prov = "failed"]
    <2>1. task \in Task /\ task.node = r.task.node /\ task.steps = r.task.steps
          /\ task.status = "failed"
      BY <1>2 DEF Task, TaskStatus
    <2>2. GoodRecord(task, ran)
      BY <1>2, <2>1, GoodSame DEF GoodRunner
    <2>3. runner' = [runner EXCEPT ![t] = [pc |-> "endNode", task |-> task, node |-> node,
                                           step |-> r.step]] /\ ran' = ran
      BY <1>9 DEF StepPanics, GoOn, outside
    <2> HIDE DEF task, node
    <2>4. GoodRunner([pc |-> "endNode", task |-> task, node |-> node, step |-> r.step], ran)
      BY <2>1, <2>2 DEF GoodRunner
    <2>5. QED
      BY <1>1, <1>3, <2>3, <2>4, RunnerMoves
  <1>10. CASE StepFails(t)
    <2> DEFINE task == [r.task EXCEPT !.steps[r.step] = "failed", !.status = "failed",
                                      !.aged = FALSE]
               node == FailedNode(r.node, r.step)
    <2>1. task \in Task
      BY <1>2, StepTaskType DEF TaskStatus, StepStatus
    <2>2. task.node = r.task.node /\ task.status = "failed"
          /\ task.steps = [r.task.steps EXCEPT ![r.step] = "failed"]
      BY <1>2 DEF Task
    <2>3. r.task.steps[r.step] = "running"
      BY <1>2, <1>10 DEF StepFails, At, GoodRunner
    <2>4. GoodRecord(task, ran)
      BY <1>2, <2>1, <2>2, <2>3, GoodStepDone DEF GoodRunner
    <2>5. runner' = [runner EXCEPT ![t] = [pc |-> "endNode", task |-> task, node |-> node,
                                           step |-> r.step]] /\ ran' = ran
      BY <1>10 DEF StepFails, GoOn, outside
    <2> HIDE DEF task, node
    <2>6. GoodRunner([pc |-> "endNode", task |-> task, node |-> node, step |-> r.step], ran)
      BY <2>2, <2>4 DEF GoodRunner
    <2>7. QED
      BY <1>1, <1>3, <2>5, <2>6, RunnerMoves
  <1>11. CASE StepSucceeds(t)
    <2> DEFINE task == [r.task EXCEPT !.steps[r.step] = "succeeded", !.aged = FALSE]
               node == applyProvisioningStepNodeState(r.node, r.step, r.task.sgx)
    <2>1. r.task.steps[r.step] = "running" /\ r.task.status = "running"
      BY <1>2, <1>11 DEF StepSucceeds, At, GoodRunner
    <2>2. /\ task \in Task /\ task.node = r.task.node /\ task.status = "running"
          /\ task.steps = [r.task.steps EXCEPT ![r.step] = "succeeded"]
      BY <1>2, <2>1 DEF Task, StepStatus
    <2>3. /\ r.step \in ran'[r.task.node]
          /\ \A n \in Node : ran[n] \subseteq ran'[n]
      BY <1>2, <1>11 DEF StepSucceeds, Inv, TypeOK
    <2>4. GoodRecord(r.task, ran')
      BY <1>2, <2>3, GoodLater DEF GoodRunner
    <2>5. GoodRecord(task, ran')
      BY <1>2, <2>1, <2>2, <2>3, <2>4, GoodStepDone
    <2>6. \/ runner' = [runner EXCEPT ![t] = Idle]
          \/ runner' = [runner EXCEPT ![t] = [pc |-> "okTask", task |-> task, node |-> node,
                                              step |-> r.step]]
      BY <1>11 DEF StepSucceeds, GoOn, Leave
    <2> HIDE DEF task, node
    <2>7. GoodRunner([pc |-> "okTask", task |-> task, node |-> node, step |-> r.step], ran')
      BY <2>2, <2>5 DEF GoodRunner
    <2>8. QED
      BY <1>1, <1>3, <2>3, <2>6, <2>7, RunnerMoves
  <1>12. CASE RunnerQuits(t)
    BY <1>4, <1>12 DEF RunnerQuits, outside
  <1>13. QED
    BY <1>5, <1>6, <1>7, <1>8, <1>9, <1>10, <1>11, <1>12

LEMMA RunnerSavesInv ==
    ASSUME Inv, NEW t \in TaskId, RunnerSavesTask(t) \/ RunnerEnds(t)
    PROVE  RecordsInv' /\ AloneInv'
  <1> DEFINE r == runner[t]
  <1> USE DEF Inv
  <1>1. r.pc # "idle" /\ r.pc # "start" /\ SaveProvisioningTaskStatus(t, r.task)
        /\ UNCHANGED <<pollVars, ran>>
    BY DEF RunnerSavesTask, RunnerEnds, At, AfterTaskSave, outside
  <1>2. /\ GoodRunner(r, ran) /\ GoodRecord(r.task, ran) /\ r.task \in Task
        /\ listed[t] = NoTask /\ phase \in {"scan", "timeout", "wait"}
        /\ tasks[t] # NoTask => ~Ended(tasks[t])
    BY <1>1, RunnerFacts DEF GoodRunner
  <1>3. /\ \A u \in TaskId : u # t => tasks'[u] = tasks[u]
        /\ \A u \in TaskId : tasks'[u] # NoTask => GoodRecord(tasks'[u], ran)
        /\ \A u \in TaskId : u > created' => tasks'[u] = NoTask
        /\ \/ tasks'[t] = tasks[t]
           \/ tasks'[t].status = r.task.status
    BY <1>1, <1>2, SaveTaskEffect, SaveTaskKeeps
  <1>4. \/ runner' = [runner EXCEPT ![t] = Idle]
        \/ \E pc : /\ runner' = [runner EXCEPT ![t] = [pc |-> pc, task |-> r.task,
                                                       node |-> r.node, step |-> r.step]]
                   /\ GoodRunner([pc |-> pc, task |-> r.task, node |-> r.node,
                                  step |-> r.step], ran)
                   /\ r.task.status = "running"
    <2>1. CASE RunnerEnds(t)
      BY <2>1 DEF RunnerEnds, Leave
    <2>2. CASE RunnerSavesTask(t)
      <3>1. GoodRunner([pc |-> AfterTaskSave[r.pc], task |-> r.task, node |-> r.node,
                        step |-> r.step], ran) /\ r.task.status = "running"
        BY <1>2, <2>2 DEF RunnerSavesTask, AfterTaskSave, GoodRunner
      <3>2. QED
        BY <2>2, <3>1 DEF RunnerSavesTask, GoOn
    <2>3. QED
      BY <2>1, <2>2
  <1>5. /\ \A u \in TaskId : u # t => runner'[u] = runner[u]
        /\ \/ runner'[t] = Idle
           \/ GoodRunner(runner'[t], ran) /\ r.task.status = "running"
    BY <1>4 DEF TypeOK
  <1>6. UNCHANGED <<phase, listed, seen, ran>>
    BY <1>1 DEF pollVars
  <1>7. RecordsInv'
    BY <1>3, <1>5, <1>6 DEF RecordsInv
  <1>8. EndedTasksAreAlone'
    BY <1>2, <1>3, <1>5, <1>6 DEF AloneInv, EndedTasksAreAlone, Active, Ended
  <1>9. \A u \in TaskId : BeingTimedOut(u)' <=> BeingTimedOut(u)
    BY <1>6 DEF BeingTimedOut, IsNextTask
  <1>10. AloneInv'
    BY <1>2, <1>3, <1>6, <1>8, <1>9 DEF AloneInv
  <1>11. QED
    BY <1>7, <1>10

LEMMA RunnerInv ==
    ASSUME Inv, NEW t \in TaskId, RunnerNext(t)
    PROVE  Inv'
  <1>1. TypeOK'
    BY RunnerTypeOK DEF Inv
  <1>2. RecordsInv' /\ AloneInv'
    BY RunnerWorksInv, RunnerSavesInv DEF RunnerNext
  <1>3. QED
    BY <1>1, <1>2 DEF Inv

(***************************************************************************)
(* The invariant is preserved: the clock and a crash.                      *)
(***************************************************************************)
LEMMA TimeInv ==
    ASSUME Inv, NEW t \in TaskId, TimePasses(t)
    PROVE  Inv'
  <1> USE DEF Inv
  <1>1. TypeOK'
    BY TimeTypeOK
  <1>2. /\ UNCHANGED <<created, phase, seen, runner, ran>>
        /\ \A u \in TaskId : tasks'[u] \in {tasks[u], Aged(tasks[u])}
        /\ \A u \in TaskId : listed'[u] \in {listed[u], Aged(listed[u])}
    BY DEF TimePasses, TypeOK, outside
  <1>3. \A u \in TaskId : /\ tasks'[u] = NoTask <=> tasks[u] = NoTask
                          /\ tasks[u] # NoTask => /\ tasks'[u].node = tasks[u].node
                                                  /\ tasks'[u].steps = tasks[u].steps
                                                  /\ tasks'[u].status = tasks[u].status
    BY <1>2, AgedType DEF TypeOK
  <1>4. \A u \in TaskId : /\ listed'[u] = NoTask <=> listed[u] = NoTask
                          /\ listed[u] # NoTask => /\ listed'[u].node = listed[u].node
                                                   /\ listed'[u].steps = listed[u].steps
                                                   /\ listed'[u].status = listed[u].status
    BY <1>2, AgedType DEF TypeOK
  <1>5. \A u \in TaskId : tasks'[u] # NoTask => GoodRecord(tasks'[u], ran)
    BY <1>1, <1>3, GoodSame DEF TypeOK, RecordsInv
  <1>6. \A u \in TaskId : listed'[u] # NoTask => GoodRecord(listed'[u], ran)
    BY <1>1, <1>4, GoodSame DEF TypeOK, RecordsInv
  <1>7. RecordsInv'
    BY <1>2, <1>5, <1>6 DEF RecordsInv
  <1>8. EndedTasksAreAlone'
    BY <1>2, <1>3, <1>4 DEF AloneInv, EndedTasksAreAlone, Active
  <1>9. \A u \in TaskId : BeingTimedOut(u)' <=> BeingTimedOut(u)
    BY <1>2, <1>4 DEF BeingTimedOut, IsNextTask
  <1>10. listed = NothingListed => listed' = NothingListed
    <2>1. SUFFICES ASSUME listed = NothingListed
                   PROVE  listed' = NothingListed
      OBVIOUS
    <2>2. \A u \in TaskId : listed'[u] = NoTask
      BY <1>4, <2>1 DEF NothingListed
    <2>3. QED
      BY <1>1, <2>2 DEF TypeOK, NothingListed
  <1>11. \A u \in TaskId : BeingTimedOut(u) => listed[u] # NoTask
    BY DEF BeingTimedOut, IsNextTask
  <1>12. AloneInv'
    BY <1>2, <1>3, <1>4, <1>8, <1>9, <1>10, <1>11 DEF AloneInv, Ended
  <1>13. QED
    BY <1>1, <1>7, <1>12

LEMMA CrashInv ==
    ASSUME Inv, Crash
    PROVE  Inv'
  <1> USE DEF Inv
  <1>1. TypeOK'
    BY CrashTypeOK
  <1>2. /\ UNCHANGED <<tasks, created, ran>>
        /\ phase' = "idle"
        /\ listed' = NothingListed
        /\ \A t \in TaskId : listed'[t] = NoTask /\ runner'[t] = Idle
    BY DEF Crash, store, NothingListed, outside
  <1>3. RecordsInv'
    BY <1>2 DEF RecordsInv
  <1>4. AloneInv'
    BY <1>2 DEF AloneInv, EndedTasksAreAlone, Active, BeingTimedOut
  <1>5. QED
    BY <1>1, <1>3, <1>4

LEMMA InitInv ==
    ASSUME Init
    PROVE  Inv
  <1>1. TypeOK
    BY ConstantsAssumption DEF Init, TypeOK, NothingListed, NothingSeen, NothingLoaded
  <1>2. \A t \in TaskId : tasks[t] = NoTask /\ listed[t] = NoTask /\ runner[t] = Idle
    BY DEF Init, NothingListed
  <1>3. RecordsInv
    BY <1>2 DEF RecordsInv
  <1>4. AloneInv
    BY <1>2 DEF Init, AloneInv, EndedTasksAreAlone, Active, BeingTimedOut
  <1>5. QED
    BY <1>1, <1>3, <1>4 DEF Inv

\* The invariant is preserved by every step.
LEMMA Inductive ==
    ASSUME Inv, [Next]_vars
    PROVE  Inv'
  <1>1. CASE UserNext
    BY <1>1, UserInv
  <1>2. CASE PollNext
    BY <1>2, PollInv
  <1>3. ASSUME NEW t \in TaskId, RunnerNext(t) \/ TimePasses(t)
        PROVE  Inv'
    BY <1>3, RunnerInv, TimeInv
  <1>4. CASE Crash
    BY <1>4, CrashInv
  <1>5. CASE UNCHANGED vars
    <2>1. UNCHANGED <<tasks, nodes, created, phase, listed, seen, runner, page, ran, used, outdated>>
      BY <1>5 DEF vars, store, pollVars, outside
    <2>2. QED
      BY <2>1 DEF Inv, TypeOK, RecordsInv, AloneInv, EndedTasksAreAlone, Active,
         BeingTimedOut, IsNextTask
  <1>6. QED
    BY <1>1, <1>2, <1>3, <1>4, <1>5 DEF Next

\* Inv holds in every reachable state, whatever the number of nodes and tasks,
\* the concurrency and how often users, crashes and store errors strike.
THEOREM Invariance == Spec => []Inv
  <1>1. Init => Inv
    BY InitInv
  <1>2. Inv /\ [Next]_vars => Inv'
    BY Inductive
  <1>3. QED
    BY <1>1, <1>2, PTL DEF Spec

\* Every variable keeps its type.
THEOREM TypeCorrect == Spec => []TypeOK
  <1>1. Inv => TypeOK
    BY DEF Inv
  <1>2. QED
    BY <1>1, Invariance, PTL

\* What a stored task records about its steps is true of the machine: a step
\* recorded as succeeded did succeed there, and a task that counts as succeeded
\* has no step left (runProvisioningTask, SaveProvisioningTaskStatus).
THEOREM TruthfulRecords == Spec => []StepsAreTruthful
  <1>1. Inv => StepsAreTruthful
    BY DEF Inv, RecordsInv, GoodRecord, StepsAreTruthful
  <1>2. QED
    BY <1>1, Invariance, PTL

\* The steps of a stored task are done in order (nextProvisioningStepIndex with
\* RetryProvisioningTask and CancelProvisioningTask).
THEOREM OrderedSteps == Spec => []StepOrder
  <1>1. Inv => StepOrder
    BY DEF Inv, RecordsInv, GoodRecord, StepOrder
  <1>2. QED
    BY <1>1, Invariance, PTL

\* No goroutine works on a task that the poll loop may still look at or that
\* has ended in the store (pollProvisioningTasks waits for its goroutines).
THEOREM EndedAlone == Spec => []EndedTasksAreAlone
  <1>1. Inv => EndedTasksAreAlone
    BY DEF Inv, AloneInv
  <1>2. QED
    BY <1>1, Invariance, PTL

(***************************************************************************)
(* The stored statuses implement the life cycle.                           *)
(***************************************************************************)
Status(task) == IF task = NoTask THEN "none" ELSE task.status

LEMMA OneStatusMoves ==
    ASSUME NEW t \in TaskId,
           \A u \in TaskId : u # t => tasks'[u] = tasks[u],
           LET from == Status(tasks[t])
               to   == Status(tasks'[t])
           IN  \/ from = to
               \/ from = "none" /\ to = "pending"
               \/ from = "pending" /\ to = "running"
               \/ from \in {"pending", "running"} /\ to \in {"succeeded", "failed"}
               \/ from \in {"pending", "running", "failed"} /\ to = "cancelled"
               \/ from \in {"failed", "cancelled"} /\ to = "pending"
    PROVE  [Lifecycle!Next]_StoredStatus
  <1> DEFINE to == Status(tasks'[t])
  <1>1. StoredStatus' = [StoredStatus EXCEPT ![t] = to] /\ StoredStatus[t] = Status(tasks[t])
    BY DEF StoredStatus, Status
  <1>2. CASE Status(tasks[t]) = to
    BY <1>1, <1>2 DEF StoredStatus
  <1>3. CASE Status(tasks[t]) # to
    <2>1. \/ Lifecycle!Create(t) \/ Lifecycle!Start(t) \/ Lifecycle!Finish(t)
          \/ Lifecycle!Cancel(t) \/ Lifecycle!Retry(t)
      BY <1>1, <1>3 DEF Lifecycle!Create, Lifecycle!Start, Lifecycle!Finish, Lifecycle!Cancel,
         Lifecycle!Retry, Lifecycle!Move
    <2>2. QED
      BY <2>1 DEF Lifecycle!Next
  <1>4. QED
    BY <1>2, <1>3

LEMMA StatusStays ==
    ASSUME \A u \in TaskId : Status(tasks'[u]) = Status(tasks[u])
    PROVE  [Lifecycle!Next]_StoredStatus
  BY DEF StoredStatus, Status

\* A save by the executor starts or ends a task that has not ended.
LEMMA SaveFollows ==
    ASSUME Inv, NEW t \in TaskId, NEW task \in Task, GoodRecord(task, ran),
           SaveProvisioningTaskStatus(t, task),
           task.status \in {"running", "succeeded", "failed"},
           tasks[t] # NoTask => ~Ended(tasks[t])
    PROVE  [Lifecycle!Next]_StoredStatus
  <1>1. /\ \A u \in TaskId : u # t => tasks'[u] = tasks[u]
        /\ tasks'[t] = NoTask <=> tasks[t] = NoTask
        /\ \/ tasks'[t] = tasks[t]
           \/ /\ tasks'[t].status = task.status
              /\ tasks[t] # NoTask
              /\ tasks[t].status = "cancelled" => task.status = "cancelled"
    BY SaveTaskEffect
  <1>2. tasks[t] # NoTask => tasks[t].status \in {"pending", "running", "cancelled"}
    BY DEF Inv, TypeOK, Task, TaskStatus, Ended
  <1>3. QED
    BY <1>1, <1>2, OneStatusMoves DEF Status

LEMMA UserFollows ==
    ASSUME Inv, UserNext
    PROVE  [Lifecycle!Next]_StoredStatus
  <1> USE DEF Inv
  <1>1. ASSUME NEW n \in Node, NEW payload, NEW sgx \in BOOLEAN, NEW auto \in BOOLEAN,
               SaveClusterNode(n, payload, sgx, auto)
        PROVE  [Lifecycle!Next]_StoredStatus
    <2>1. CASE createProvisioningTaskInSnapshot(n, sgx)
      <3>1. created + 1 \in TaskId /\ created + 1 > created
        BY <2>1, NewTaskType DEF TypeOK
      <3>2. tasks[created + 1] = NoTask
        BY <3>1 DEF AloneInv
      <3>3. tasks'[created + 1].status = "pending"
            /\ \A u \in TaskId : u # created + 1 => tasks'[u] = tasks[u]
        BY <2>1, <3>1 DEF createProvisioningTaskInSnapshot, TypeOK
      <3>4. Status(tasks'[created + 1]) \in {"none", "pending"}
        BY <3>3 DEF Status
      <3>5. Status(tasks[created + 1]) = "none"
        BY <3>2 DEF Status
      <3>6. QED
        BY <3>1, <3>3, <3>4, <3>5, OneStatusMoves
    <2>2. CASE UNCHANGED tasks
      BY <2>2, StatusStays
    <2>3. QED
      BY <1>1, <2>1, <2>2 DEF SaveClusterNode
  <1>2. ASSUME NEW n \in Node, DeleteClusterNode(n)
        PROVE  [Lifecycle!Next]_StoredStatus
    <2> DEFINE gone == {t \in TaskId : tasks[t] # NoTask /\ tasks[t].node = n}
    <2>1. StoredStatus' = [t \in TaskId |-> IF t \in gone THEN "none" ELSE StoredStatus[t]]
      BY <1>2 DEF DeleteClusterNode, StoredStatus
    <2>2. Lifecycle!Remove(gone) /\ gone \in SUBSET TaskId
      BY <2>1 DEF Lifecycle!Remove
    <2>3. QED
      BY <2>2 DEF Lifecycle!Next
  <1>3. ASSUME NEW t \in TaskId, RetryProvisioningTask(t)
        PROVE  [Lifecycle!Next]_StoredStatus
    <2>1. /\ tasks[t] \in Task /\ tasks[t] # NoTask
          /\ tasks[t].status \in {"failed", "cancelled"}
          /\ tasks'[t].status = "pending"
          /\ \A u \in TaskId : u # t => tasks'[u] = tasks[u]
      BY <1>3 DEF RetryProvisioningTask, TypeOK, Task
    <2>2. tasks'[t] # NoTask
      BY <1>3, <2>1, ConstantsAssumption, RestartedType
         DEF RetryProvisioningTask, TypeOK, Task, TaskStatus
    <2>3. QED
      BY <2>1, <2>2, OneStatusMoves DEF Status
  <1>4. ASSUME NEW t \in TaskId, CancelProvisioningTask(t)
        PROVE  [Lifecycle!Next]_StoredStatus
    <2>1. /\ tasks[t] \in Task /\ tasks[t] # NoTask
          /\ tasks[t].status \in {"pending", "running", "failed"}
          /\ tasks'[t].status = "cancelled"
          /\ \A u \in TaskId : u # t => tasks'[u] = tasks[u]
      BY <1>4 DEF CancelProvisioningTask, TypeOK, Task, TaskStatus
    <2>2. tasks'[t] # NoTask
      BY <1>4, <2>1, ConstantsAssumption, SkippedType
         DEF CancelProvisioningTask, TypeOK, Task, TaskStatus
    <2>3. QED
      BY <2>1, <2>2, OneStatusMoves DEF Status
  <1>5. SgxChoice \subseteq BOOLEAN
    BY ConstantsAssumption
  <1>6. ASSUME NEW b \in Browser, LoadPage(b)
        PROVE  [Lifecycle!Next]_StoredStatus
    BY <1>6, StatusStays DEF LoadPage, store
  <1>7. QED
    BY <1>1, <1>2, <1>3, <1>4, <1>5, <1>6 DEF UserNext, EditNode

LEMMA PollFollows ==
    ASSUME Inv, PollNext
    PROVE  [Lifecycle!Next]_StoredStatus
  <1>1. ASSUME NEW t \in TaskId, PollTimeout(t) \/ PollMissingNode(t)
        PROVE  [Lifecycle!Next]_StoredStatus
    <2>1. /\ listed[t] # NoTask /\ phase = "scan"
          /\ listed[t].status \in {"pending", "running"}
          /\ SaveProvisioningTaskStatus(t, FailedCopy(t))
      BY <1>1 DEF PollTimeout, PollMissingNode, IsNextTask, TimedOut
    <2>2. FailedCopy(t) \in Task /\ FailedCopy(t).status = "failed"
      BY <2>1, CopyType DEF Inv
    <2>3. tasks[t] # NoTask => ~Ended(tasks[t])
      BY <2>1 DEF Inv, AloneInv, BeingTimedOut
    <2>4. QED
      BY <2>1, <2>2, <2>3, ListedGood, SaveFollows
  <1>2. CASE UNCHANGED tasks
    BY <1>2, StatusStays
  <1>3. QED
    BY <1>1, <1>2 DEF PollNext, PollListTasks, PollListNodes, PollScanned, PollMetrics, PollDone,
       PollPass, PollTimeoutNode, PollSpawn, PollSaveMetrics, SaveClusterNodeStatus,
       StoreFails, store

LEMMA RunnerFollows ==
    ASSUME Inv, NEW t \in TaskId, RunnerNext(t)
    PROVE  [Lifecycle!Next]_StoredStatus
  <1>1. CASE RunnerSavesTask(t) \/ RunnerEnds(t)
    <2>1. SaveProvisioningTaskStatus(t, runner[t].task) /\ runner[t].pc \notin {"idle", "start"}
      BY <1>1 DEF RunnerSavesTask, RunnerEnds, At, AfterTaskSave
    <2>2. runner[t].task.status \in {"running", "succeeded", "failed"}
      BY <2>1, RunnerFacts DEF GoodRunner
    <2>3. QED
      BY <2>1, <2>2, RunnerFacts, SaveFollows DEF GoodRunner
  <1>2. CASE UNCHANGED tasks
    BY <1>2, StatusStays
  <1>3. QED
    BY <1>1, <1>2 DEF RunnerNext, RunnerQuits, RunnerStarts, RunnerSavesNode, RunnerBeginsStep,
       RunnerCompletes, StepSucceeds, StepFails, StepPanics, RunnerKeepsResult,
       SaveClusterNodeStatus, StoreFails, store

\* Every behaviour of the service and its executor is, task by task, one the
\* life cycle allows: a task that ended comes back only by a retry of a user.
THEOREM ImplementsLifecycle == Spec => FollowsLifecycle
  <1>1. Init => Lifecycle!Init
    BY DEF Init, Lifecycle!Init, StoredStatus, NothingListed
  <1>2. Inv /\ [Next]_vars => [Lifecycle!Next]_StoredStatus
    <2>1. SUFFICES ASSUME Inv, [Next]_vars
                   PROVE  [Lifecycle!Next]_StoredStatus
      OBVIOUS
    <2>2. ASSUME NEW t \in TaskId, TimePasses(t)
          PROVE  [Lifecycle!Next]_StoredStatus
      <3>1. \A u \in TaskId : tasks'[u] \in {tasks[u], Aged(tasks[u])}
        BY <2>1, <2>2 DEF TimePasses, Inv, TypeOK
      <3>2. \A u \in TaskId : Status(tasks'[u]) = Status(tasks[u])
        BY <2>1, <3>1, AgedType DEF Status, Inv, TypeOK
      <3>3. QED
        BY <3>2, StatusStays
    <2>3. CASE Crash \/ UNCHANGED vars
      BY <2>3, StatusStays DEF Crash, store, vars
    <2>4. QED
      BY <2>1, <2>2, <2>3, UserFollows, PollFollows, RunnerFollows DEF Next
  <1>3. QED
    BY <1>1, <1>2, Invariance, PTL DEF Spec, FollowsLifecycle, Lifecycle!Spec
=============================================================================
