--------------------------- MODULE ProvisioningNodes ---------------------------
(***************************************************************************)
(* What the records of the nodes tell of their tasks: how the task of a    *)
(* node ended, and that a failed SGX step leaves K3s.  Tasks and nodes are *)
(* saved one after the other and from copies, so the argument is about     *)
(* every copy of both and about whose copies may still be saved.           *)
(***************************************************************************)
EXTENDS ProvisioningResults

(***************************************************************************)
(* What a step does to the store.                                          *)
(***************************************************************************)

\* No step of the task is marked as failed.
NoFailedStep(task) == \A s \in Step : task.steps[s] # "failed"

\* Task t gets a status and steps, and its node is told.  A cancelled task stays
\* so until it is retried.
Told(t, status, steps) ==
    /\ tasks[t] # NoTask /\ tasks'[t] # NoTask
    /\ tasks'[t].node = tasks[t].node
    /\ tasks'[t].status = status
    /\ tasks'[t].steps = steps
    /\ tasks[t].status = "cancelled" => status \in {"cancelled", "pending"}
    /\ \A u \in TaskId \ {t} : tasks'[u] = tasks[u]
    /\ created' = created
    /\ outdated' = outdated \ {tasks[t].node}
    /\ \E sgx \in BOOLEAN : nodes' = NodesAfter(tasks[t].node, t, status, sgx)

\* The record of node n is replaced.
Put(n, node) ==
    /\ UNCHANGED <<tasks, created>>
    /\ nodes' = [nodes EXCEPT ![n] = node]

\* Node n, which has no unfinished task, gets a new one and a record that names it.
Born(n) ==
    /\ Unfinished(n) = {}
    /\ created + 1 \in TaskId
    /\ created' = created + 1
    /\ outdated' = outdated \ {n}
    /\ tasks'[created'] # NoTask
    /\ tasks'[created'].node = n
    /\ tasks'[created'].status = "pending"
    /\ NoFailedStep(tasks'[created'])
    /\ \A u \in TaskId \ {created'} : tasks'[u] = tasks[u]
    /\ nodes'[n] # NoNode /\ nodes'[n].task = created'
    /\ \A m \in Node \ {n} : nodes'[m] = nodes[m]

\* Every task keeps its node, its status and its steps.
SameTasks ==
    /\ created' = created
    /\ \A u \in TaskId :
          /\ tasks'[u] = NoTask <=> tasks[u] = NoTask
          /\ tasks[u] # NoTask => /\ tasks'[u].node = tasks[u].node
                                  /\ tasks'[u].status = tasks[u].status
                                  /\ tasks'[u].steps = tasks[u].steps

\* The status of a task and its node's record, before and after.
LEMMA NodesAfterEffect ==
    ASSUME TypeOK, NEW n \in Node, NEW t \in TaskId, NEW status \in TaskStatus,
           NEW sgx \in BOOLEAN, NEW after, after = NodesAfter(n, t, status, sgx)
    PROVE  /\ \A m \in Node \ {n} : after[m] = nodes[m]
           /\ after[n] = NoNode <=> nodes[n] = NoNode
           /\ nodes[n] # NoNode =>
                 /\ after[n].task = t
                 /\ after[n].prov = status
                 /\ status = "failed" => /\ after[n].status = nodes[n].status
                                         /\ after[n].runtime = nodes[n].runtime
  <1>1. CASE nodes[n] = NoNode
    BY <1>1 DEF NodesAfter
  <1>2. CASE nodes[n] # NoNode
    <2> DEFINE node == updateNodeProvisioningStatus(nodes[n], t, status, sgx)
    <2>1. nodes[n] \in NodeRecord
      BY <1>2 DEF TypeOK
    <2>2. /\ node.task = t /\ node.prov = status
          /\ status = "failed" => /\ node.status = nodes[n].status
                                  /\ node.runtime = nodes[n].runtime
      BY <2>1 DEF updateNodeProvisioningStatus, NodeRecord
    <2>3. node # NoNode
      BY <2>1, UpdateNodeType, ConstantsAssumption
    <2>4. after = [nodes EXCEPT ![n] = node]
      BY <1>2 DEF NodesAfter, TypeOK
    <2> HIDE DEF node
    <2>5. QED
      BY <1>2, <2>2, <2>3, <2>4 DEF TypeOK
  <1>3. QED
    BY <1>1, <1>2

\* The same of a task that was told of.
LEMMA ToldNodes ==
    ASSUME TypeOK, NEW t \in TaskId, NEW status \in TaskStatus, NEW steps,
           Told(t, status, steps), NEW n, n = tasks[t].node
    PROVE  /\ n \in Node
           /\ \A m \in Node \ {n} : nodes'[m] = nodes[m]
           /\ nodes'[n] = NoNode <=> nodes[n] = NoNode
           /\ nodes[n] # NoNode =>
                 /\ nodes'[n].task = t
                 /\ nodes'[n].prov = status
                 /\ status = "failed" => /\ nodes'[n].status = nodes[n].status
                                         /\ nodes'[n].runtime = nodes[n].runtime
  <1>1. tasks[t] \in Task
    BY DEF Told, TypeOK
  <1>2. n \in Node
    BY <1>1 DEF Task
  <1>3. PICK sgx \in BOOLEAN : nodes' = NodesAfter(n, t, status, sgx)
    BY DEF Told
  <1>4. QED
    BY <1>2, <1>3, NodesAfterEffect

\* The executor's save of a task that names the task's node is such a step, or
\* nothing happens: the task is gone or cancelled, or the store fails.
LEMMA SaveTaskTells ==
    ASSUME TypeOK, NEW t \in TaskId, NEW task \in Task,
           tasks[t] # NoTask => task.node = tasks[t].node,
           SaveProvisioningTaskStatus(t, task)
    PROVE  \/ Told(t, task.status, task.steps)
           \/ UNCHANGED store /\ (~CanSave(t, task) \/ used'["storeError"] # 0)
  <1>1. CASE CanSave(t, task) /\ ~StoreFails
    <2> DEFINE saved == [task EXCEPT !.sgx = @ \/ tasks[t].sgx]
    <2>1. /\ tasks' = [tasks EXCEPT ![t] = saved]
          /\ nodes' = NodesAfter(task.node, t, task.status, saved.sgx)
          /\ created' = created
          /\ outdated' = outdated \ {task.node}
      BY <1>1 DEF SaveProvisioningTaskStatus
    <2>2. tasks[t] # NoTask /\ tasks[t] \in Task
      BY <1>1 DEF CanSave, TypeOK
    <2>3. /\ saved \in Task /\ saved.node = task.node /\ saved.steps = task.steps
          /\ saved.status = task.status /\ saved.sgx \in BOOLEAN
      BY <2>2 DEF Task
    <2>4. saved # NoTask
      BY <2>3, ConstantsAssumption
    <2> HIDE DEF saved
    <2>5. tasks'[t] = saved /\ \A u \in TaskId \ {t} : tasks'[u] = tasks[u]
      BY <2>1 DEF TypeOK
    <2>6. tasks[t].status = "cancelled" => task.status = "cancelled"
      BY <1>1 DEF CanSave
    <2>7. QED
      BY <2>1, <2>2, <2>3, <2>4, <2>5, <2>6 DEF Told
  <1>2. CASE StoreFails
    BY <1>2 DEF StoreFails, Spend, TypeOK, Budgeted
  <1>3. CASE ~CanSave(t, task) /\ ~StoreFails
    BY <1>3 DEF SaveProvisioningTaskStatus
  <1>4. QED
    BY <1>1, <1>2, <1>3

\* Its save of a node replaces the record, unless it is gone or the store fails.
LEMMA SaveNodePuts ==
    ASSUME TypeOK, NEW n \in Node, NEW node, SaveClusterNodeStatus(n, node)
    PROVE  \/ Put(n, node) /\ UNCHANGED outdated
           \/ UNCHANGED store /\ (nodes[n] = NoNode \/ used'["storeError"] # 0)
  BY DEF SaveClusterNodeStatus, StoreFails, Spend, TypeOK, Budgeted, Put, store

\* What users do to the store.  A record they send is new, or is on the page of
\* some browser.
ShownOrNew(n, node) ==
    node.task = NoTask \/ \E b \in Browser : page[b][n] # NoNode /\ node = page[b][n]

Edited(n) ==
    /\ \E node : /\ Put(n, node)
                 /\ ShownOrNew(n, node)
                 /\ outdated' = IF TakesBack(n, node) THEN outdated \cup {n} ELSE outdated
    /\ used'["save"] = used["save"] + 1

Registered(n) == Born(n) /\ used'["save"] = used["save"] + 1

Retried(t) ==
    /\ Told(t, "pending", Restarted(tasks[t].steps))
    /\ tasks[t].status \in {"failed", "cancelled"}
    /\ used'["save"] = used["save"]
    /\ used'["retry"] = used["retry"] + 1

Cancelled(t) ==
    /\ Told(t, "cancelled", Skipped(tasks[t].steps))
    /\ used'["save"] = used["save"]
    /\ CancelProvisioningTask(t)

\* Every step of a user is one of these, the removal of a node or the loading of
\* a page, which leaves the store alone.
LEMMA UserTells ==
    ASSUME TypeOK, UserNext
    PROVE  /\ UNCHANGED <<pollVars, runner, ran>>
           /\ \/ \E n \in Node : Edited(n) \/ Registered(n) \/ DeleteClusterNode(n)
              \/ \E t \in TaskId : Retried(t) \/ Cancelled(t)
              \/ UNCHANGED <<store, used>>
  <1>1. ASSUME NEW n \in Node, NEW payload, NEW sgx \in BOOLEAN, NEW auto \in BOOLEAN,
               SaveClusterNode(n, payload, sgx, auto), payload \in NodeRecord,
               ShownOrNew(n, payload)
        PROVE  UNCHANGED <<pollVars, runner, ran>> /\ (Edited(n) \/ Registered(n))
    <2>1. UNCHANGED <<pollVars, runner, ran>> /\ used'["save"] = used["save"] + 1
      BY <1>1 DEF SaveClusterNode, Spend, TypeOK, Budgeted
    <2>2. CASE ~auto
      BY <1>1, <2>1, <2>2 DEF SaveClusterNode, Put, Edited
    <2>3. CASE auto
      <3> DEFINE new == [node |-> n, sgx |-> sgx, status |-> "pending",
                         steps |-> buildProvisioningSteps(sgx), aged |-> FALSE]
                 node == [payload EXCEPT !.task = created + 1, !.prov = "pending",
                                         !.runtime = "pending",
                                         !.sgx = IF sgx THEN "pending" ELSE @]
      <3>1. createProvisioningTaskInSnapshot(n, sgx)
        BY <1>1, <2>3 DEF SaveClusterNode
      <3>2. tasks' = [tasks EXCEPT ![created + 1] = new] /\ created' = created + 1
            /\ created + 1 \in TaskId /\ Unfinished(n) = {} /\ outdated' = outdated \ {n}
        BY <3>1, NewTaskType DEF createProvisioningTaskInSnapshot
      <3>3. nodes' = [nodes EXCEPT ![n] = node]
        BY <1>1, <2>3 DEF SaveClusterNode
      <3>4. node \in NodeRecord /\ node.task = created + 1
        BY <1>1, <3>2 DEF NodeRecord, TaskStatus
      <3>5. /\ new \in Task /\ new.node = n /\ new.status = "pending"
            /\ NoFailedStep(new)
        BY DEF Task, TaskStatus, buildProvisioningSteps, StepStatus, NoFailedStep
      <3>6. node # NoNode /\ new # NoTask
        BY <3>4, <3>5, ConstantsAssumption
      <3> HIDE DEF new, node
      <3>7. Born(n)
        BY <3>2, <3>3, <3>4, <3>5, <3>6 DEF Born, TypeOK
      <3>8. QED
        BY <2>1, <3>7 DEF Registered
    <2>4. QED
      BY <2>2, <2>3
  <1>2. ASSUME NEW n \in Node, NEW sgx \in BOOLEAN, NEW auto \in BOOLEAN
        PROVE  /\ NewNode(sgx, auto) \in NodeRecord
               /\ NewNode(sgx, auto).task = NoTask
               /\ \A b \in Browser : page[b][n] # NoNode => page[b][n] \in NodeRecord
    BY DEF NewNode, NodeRecord, TaskStatus, TypeOK
  <1>3. ASSUME NEW n \in Node, DeleteClusterNode(n)
        PROVE  UNCHANGED <<pollVars, runner, ran>>
    BY <1>3 DEF DeleteClusterNode, outside
  <1>4. ASSUME NEW t \in TaskId, RetryProvisioningTask(t)
        PROVE  /\ UNCHANGED <<pollVars, runner, ran>>
               /\ Retried(t)
    <2> DEFINE new == [[[tasks[t] EXCEPT !.steps = Restarted(@)]
                             EXCEPT !.status = "pending"] EXCEPT !.aged = FALSE]
    <2>1. tasks[t] \in Task /\ tasks[t] # NoTask
      BY <1>4 DEF RetryProvisioningTask, TypeOK
    <2>2. tasks' = [tasks EXCEPT ![t] = new]
      BY <1>4 DEF RetryProvisioningTask, TypeOK
    <2>3. /\ new \in Task /\ new.steps = Restarted(tasks[t].steps)
          /\ new.node = tasks[t].node /\ new.status = "pending"
          /\ tasks[t].sgx \in BOOLEAN
      BY <2>1, RestartedType DEF Task, TaskStatus
    <2>4. new # NoTask
      BY <2>3, ConstantsAssumption
    <2> HIDE DEF new
    <2>5. QED
      BY <1>4, <2>1, <2>2, <2>3, <2>4
         DEF RetryProvisioningTask, Retried, Told, Spend, TypeOK, Budgeted, outside
  <1>5. ASSUME NEW t \in TaskId, CancelProvisioningTask(t)
        PROVE  /\ UNCHANGED <<pollVars, runner, ran>>
               /\ Cancelled(t)
    <2> DEFINE new == [[[tasks[t] EXCEPT !.steps = Skipped(@)]
                             EXCEPT !.status = "cancelled"] EXCEPT !.aged = FALSE]
    <2>1. tasks[t] \in Task /\ tasks[t] # NoTask
      BY <1>5 DEF CancelProvisioningTask, TypeOK
    <2>2. tasks' = [tasks EXCEPT ![t] = new]
      BY <1>5 DEF CancelProvisioningTask, TypeOK
    <2>3. /\ new \in Task /\ new.steps = Skipped(tasks[t].steps)
          /\ new.node = tasks[t].node /\ new.status = "cancelled"
          /\ tasks[t].sgx \in BOOLEAN
      BY <2>1, SkippedType DEF Task, TaskStatus
    <2>4. new # NoTask
      BY <2>3, ConstantsAssumption
    <2> HIDE DEF new
    <2>5. QED
      BY <1>5, <2>1, <2>2, <2>3, <2>4
         DEF CancelProvisioningTask, Cancelled, Told, Spend, TypeOK, Budgeted, outside
  <1>6. SgxChoice \subseteq BOOLEAN
    BY ConstantsAssumption
  <1>7. ASSUME NEW n \in Node, NEW sgx \in BOOLEAN, NEW auto \in BOOLEAN,
               \/ SaveClusterNode(n, NewNode(sgx, auto), sgx, auto)
               \/ \E b \in Browser : EditNode(b, n, sgx, auto)
        PROVE  UNCHANGED <<pollVars, runner, ran>> /\ (Edited(n) \/ Registered(n))
    <2>1. CASE SaveClusterNode(n, NewNode(sgx, auto), sgx, auto)
      <3> DEFINE payload == NewNode(sgx, auto)
      <3>1. /\ SaveClusterNode(n, payload, sgx, auto)
            /\ payload \in NodeRecord /\ ShownOrNew(n, payload)
        BY <1>2, <2>1 DEF ShownOrNew
      <3> HIDE DEF payload
      <3>2. QED
        BY <1>1, <3>1
    <2>2. CASE \E b \in Browser : EditNode(b, n, sgx, auto)
      <3>1. PICK b \in Browser : EditNode(b, n, sgx, auto)
        BY <2>2
      <3> DEFINE payload == page[b][n]
      <3>2. /\ SaveClusterNode(n, payload, sgx, auto)
            /\ payload \in NodeRecord /\ ShownOrNew(n, payload)
        BY <1>2, <3>1 DEF EditNode, ShownOrNew
      <3> HIDE DEF payload
      <3>3. QED
        BY <1>1, <3>2
    <2>3. QED
      BY <1>7, <2>1, <2>2
  <1>8. ASSUME NEW b \in Browser, LoadPage(b)
        PROVE  UNCHANGED <<pollVars, runner, ran, store, used>>
    BY <1>8 DEF LoadPage
  <1>9. QED
    BY <1>3, <1>4, <1>5, <1>6, <1>7, <1>8 DEF UserNext

(***************************************************************************)
(* Whose task a copy is about.                                             *)
(***************************************************************************)

\* A record of n does not name the task of another node.
Owns(records, node, n) ==
    node.task # NoTask /\ records[node.task] # NoTask => records[node.task].node = n

OwnsAll(records, copies) == \A n \in Node : copies[n] # NoNode => Owns(records, copies[n], n)

\* Copies are of tasks that exist or existed, never of one still to come.
KnownAll(copies, last) ==
    \A n \in Node : copies[n] # NoNode /\ copies[n].task # NoTask => copies[n].task <= last

KnownInv ==
    /\ \A t \in TaskId : t > created => listed[t] = NoTask /\ runner[t] = Idle
    /\ KnownAll(nodes, created)
    /\ KnownAll(seen, created)
    /\ \A b \in Browser : KnownAll(page[b], created)

\* A copy of a task is about the same node as the task.
SameNode(records, task, t) == records[t] # NoTask => records[t].node = task.node

OwnInv ==
    /\ \A t \in TaskId :
          /\ listed[t] # NoTask => SameNode(tasks, listed[t], t)
          /\ runner[t] # Idle => SameNode(tasks, runner[t].task, t)
          /\ runner[t].pc \notin {"idle", "start"} => runner[t].node.task = t
    /\ OwnsAll(tasks, nodes)
    /\ OwnsAll(tasks, seen)
    /\ \A b \in Browser : OwnsAll(tasks, page[b])

IdInv == KnownInv /\ OwnInv

\* What a goroutine does to the store.
LEMMA RunnerStore ==
    ASSUME Inv, IdInv, NEW t \in TaskId, RunnerNext(t)
    PROVE  /\ UNCHANGED pollVars
           /\ runner[t] # Idle
           /\ \/ UNCHANGED store
              \/ /\ Put(runner[t].task.node, runner[t].node)
                 /\ UNCHANGED outdated
                 /\ runner[t].pc \in {"startNode", "okNode", "endNode"}
              \/ /\ Told(t, runner[t].task.status, runner[t].task.steps)
                 /\ runner[t].pc \in {"startTask", "stepTask", "okTask", "endTask"}
  <1>1. runner[t] # Idle /\ runner[t].task \in Task /\ runner[t].task.node \in Node
    BY RunnerTask, RunnerType DEF Inv
  <1>2. tasks[t] # NoTask => runner[t].task.node = tasks[t].node
    BY <1>1 DEF IdInv, OwnInv, SameNode
  <1>3. CASE RunnerSavesNode(t)
    BY <1>1, <1>3, SaveNodePuts DEF Inv, RunnerSavesNode, AfterNodeSave
  <1>4. CASE RunnerSavesTask(t) \/ RunnerEnds(t)
    BY <1>1, <1>2, <1>4, SaveTaskTells DEF Inv, RunnerSavesTask, RunnerEnds, At, AfterTaskSave
  <1>5. CASE UNCHANGED <<store, pollVars>>
    BY <1>1, <1>5
  <1>6. QED
    BY <1>1, <1>3, <1>4, <1>5 DEF RunnerNext, RunnerQuits, RunnerStarts, RunnerBeginsStep,
       RunnerCompletes, StepSucceeds, StepFails, StepPanics, RunnerKeepsResult,
       RunnerSavesNode, RunnerSavesTask, RunnerEnds

\* A goroutine's copy of the node names its task from the moment it has started.
LEMMA RunnerNames ==
    ASSUME Inv, IdInv, NEW t \in TaskId, RunnerNext(t), runner'[t] # Idle
    PROVE  runner'[t].node.task = t
  <1> DEFINE r == runner[t]
  <1>1. /\ r # Idle /\ r.node \in NodeRecord /\ r.step \in Step
    BY RunnerTask, RunnerType DEF Inv
  <1>2. r.pc # "start" => r.node.task = t
    BY <1>1, RunnerType DEF IdInv, OwnInv, Inv, PcSet
  <1>3. ASSUME NEW pc, NEW task, NEW node, NEW s, GoOn(t, pc, task, node, s)
        PROVE  runner'[t].node = node
    BY <1>3 DEF GoOn, Inv, TypeOK
  <1>4. CASE RunnerStarts(t)
    BY <1>1, <1>3, <1>4 DEF RunnerStarts, NodeRecord
  <1>5. CASE \/ RunnerSavesNode(t) \/ RunnerSavesTask(t) \/ RunnerBeginsStep(t)
             \/ RunnerKeepsResult(t)
    BY <1>2, <1>3, <1>5 DEF RunnerSavesNode, RunnerSavesTask, RunnerBeginsStep,
       RunnerKeepsResult, At, AfterNodeSave, AfterTaskSave
  <1>6. CASE RunnerCompletes(t)
    BY <1>1, <1>2, <1>3, <1>6 DEF RunnerCompletes, CompletedNode, NodeRecord, At
  <1>7. CASE StepSucceeds(t)
    <2>1. runner'[t].node = applyProvisioningStepNodeState(r.node, r.step, r.task.sgx)
      BY <1>3, <1>7 DEF StepSucceeds, Leave, Inv, TypeOK
    <2>2. r.node.task = t
      BY <1>2, <1>7 DEF StepSucceeds, At
    <2>3. applyProvisioningStepNodeState(r.node, r.step, r.task.sgx).task = r.node.task
      BY <1>1 DEF applyProvisioningStepNodeState, NodeRecord, Step, Preflight, K3sInstall,
         RuntimeVerify, SgxInstall, FinalVerify
    <2>4. QED
      BY <2>1, <2>2, <2>3
  <1>8. CASE StepFails(t)
    BY <1>1, <1>2, <1>3, <1>8 DEF StepFails, FailedNode, NodeRecord, At
  <1>9. CASE StepPanics(t)
    BY <1>1, <1>2, <1>3, <1>9 DEF StepPanics, NodeRecord, At
  <1>10. CASE RunnerQuits(t) \/ RunnerEnds(t)
    BY <1>10 DEF RunnerQuits, RunnerEnds, Leave, Inv, TypeOK
  <1>11. QED
    BY <1>4, <1>5, <1>6, <1>7, <1>8, <1>9, <1>10 DEF RunnerNext

\* What the poll loop does to the store.
PollTold(t) ==
    /\ PollTimeout(t) \/ PollMissingNode(t)
    /\ listed[t] # NoTask
    /\ Told(t, "failed", listed[t].steps)

PollPut(n) ==
    /\ seen[n] # NoNode
    /\ UNCHANGED outdated
    /\ \/ \E t \in TaskId :
             /\ PollTimeoutNode(t) /\ listed[t].node = n
             /\ Put(n, [seen[n] EXCEPT !.prov = "failed"])
       \/ /\ PollSaveMetrics(n)
          /\ \/ Put(n, seen[n])
             \/ Put(n, [seen[n] EXCEPT !.status = "unreachable"])

\* Nothing else: the other steps of the poll loop only read.
LEMMA PollStore ==
    ASSUME Inv, IdInv, PollNext
    PROVE  \/ UNCHANGED store
           \/ \E t \in TaskId : PollTold(t)
           \/ \E n \in Node : PollPut(n)
  <1>1. ASSUME NEW t \in TaskId, PollTimeout(t) \/ PollMissingNode(t)
        PROVE  UNCHANGED store \/ PollTold(t)
    <2>1. listed[t] # NoTask /\ SaveProvisioningTaskStatus(t, FailedCopy(t))
      BY <1>1 DEF PollTimeout, PollMissingNode, IsNextTask
    <2>2. /\ FailedCopy(t) \in Task /\ FailedCopy(t).status = "failed"
          /\ FailedCopy(t).steps = listed[t].steps
          /\ tasks[t] # NoTask => FailedCopy(t).node = tasks[t].node
      BY <2>1, CopyType DEF Inv, IdInv, OwnInv, SameNode
    <2>3. UNCHANGED store \/ Told(t, "failed", listed[t].steps)
      BY <2>1, <2>2, SaveTaskTells DEF Inv
    <2>4. QED
      BY <1>1, <2>1, <2>3 DEF PollTold
  <1>2. ASSUME NEW t \in TaskId, PollTimeoutNode(t)
        PROVE  UNCHANGED store \/ \E n \in Node : PollPut(n)
    <2> DEFINE n == listed[t].node
    <2>1. /\ n \in Node /\ seen[n] # NoNode
          /\ SaveClusterNodeStatus(n, [seen[n] EXCEPT !.prov = "failed"])
      BY <1>2, CopyType DEF PollTimeoutNode, IsNextTask, AloneInv, BeingTimedOut, Inv
    <2>2. \/ UNCHANGED store
          \/ Put(n, [seen[n] EXCEPT !.prov = "failed"]) /\ UNCHANGED outdated
      BY <2>1, SaveNodePuts DEF Inv
    <2>3. QED
      BY <1>2, <2>1, <2>2 DEF PollPut
  <1>3. ASSUME NEW n \in Node, PollSaveMetrics(n)
        PROVE  UNCHANGED store \/ PollPut(n)
    <2>1. \/ SaveClusterNodeStatus(n, seen[n])
          \/ SaveClusterNodeStatus(n, [seen[n] EXCEPT !.status = "unreachable"])
          \/ UNCHANGED store
      BY <1>3 DEF PollSaveMetrics
    <2>2. \/ /\ Put(n, seen[n]) \/ Put(n, [seen[n] EXCEPT !.status = "unreachable"])
             /\ UNCHANGED outdated
          \/ UNCHANGED store
      BY <2>1, SaveNodePuts DEF Inv
    <2>3. seen[n] # NoNode
      BY <1>3 DEF PollSaveMetrics
    <2>4. QED
      BY <1>3, <2>2, <2>3 DEF PollPut
  <1>4. QED
    BY <1>1, <1>2, <1>3 DEF PollNext, PollListTasks, PollListNodes, PollScanned, PollMetrics,
       PollDone, PollPass, PollSpawn

\* Where the poll loop's copies come from.
LEMMA PollCopies ==
    ASSUME Inv, PollNext
    PROVE  /\ \A n \in Node : seen'[n] \in {seen[n], nodes[n], NoNode}
           /\ \A t \in TaskId : listed'[t] \in {listed[t], tasks[t], NoTask}
           /\ \A t \in TaskId :
                 \/ runner'[t] = runner[t]
                 \/ /\ listed[t] # NoTask
                    /\ PollSpawn(t)
                    /\ runner'[t] # Idle
                    /\ runner'[t].pc = "start"
                    /\ runner'[t].task = listed[t]
  <1> USE DEF Inv
  <1>1. \A n \in Node : seen'[n] \in {seen[n], nodes[n], NoNode}
    BY DEF PollNext, PollListTasks, PollListNodes, PollScanned, PollMetrics, PollDone, PollPass,
       PollTimeout, PollTimeoutNode, PollMissingNode, PollSpawn, PollSaveMetrics, NothingSeen,
       TypeOK
  <1>2. \A t \in TaskId : listed'[t] \in {listed[t], tasks[t], NoTask}
    BY DEF PollNext, PollListTasks, PollListNodes, PollScanned, PollMetrics, PollDone, PollPass,
       PollTimeout, PollTimeoutNode, PollMissingNode, PollSpawn, PollSaveMetrics, LookedAt,
       TypeOK
  <1>3. ASSUME NEW t \in TaskId, PollSpawn(t)
        PROVE  /\ \A u \in TaskId \ {t} : runner'[u] = runner[u]
               /\ listed[t] # NoTask
               /\ runner'[t] # Idle
               /\ runner'[t].pc = "start"
               /\ runner'[t].task = listed[t]
    <2> DEFINE started == [pc |-> "start", task |-> listed[t],
                           node |-> seen[listed[t].node], step |-> Preflight]
    <2>1. listed[t] # NoTask /\ runner' = [runner EXCEPT ![t] = started]
      BY <1>3 DEF PollSpawn, IsNextTask
    <2>2. /\ started # Idle /\ started.pc = "start" /\ started.task = listed[t]
      BY DEF Idle
    <2> HIDE DEF started
    <2>3. QED
      BY <2>1, <2>2 DEF TypeOK
  <1>4. (\A t \in TaskId : ~PollSpawn(t)) => runner' = runner
    BY DEF PollNext, PollListTasks, PollListNodes, PollScanned, PollMetrics, PollDone, PollPass,
       PollTimeout, PollTimeoutNode, PollMissingNode, PollSaveMetrics
  <1>5. QED
    BY <1>1, <1>2, <1>3, <1>4

\* A task that was there before is about the same node as before.
TasksKeep ==
    /\ created <= created'
    /\ \A u \in TaskId : u <= created /\ tasks'[u] # NoTask =>
          tasks[u] # NoTask /\ tasks'[u].node = tasks[u].node

\* Telling of a task moves none to another node, and neither does a new task.
LEMMA ToldKeeps ==
    ASSUME TypeOK, NEW t \in TaskId, NEW status, NEW steps, Told(t, status, steps)
    PROVE  TasksKeep
  <1>1. created \in Nat
    BY ConstantsAssumption DEF TypeOK
  <1>2. QED
    BY <1>1 DEF Told, TasksKeep

LEMMA BornKeeps ==
    ASSUME TypeOK, NEW n \in Node, Born(n)
    PROVE  TasksKeep
  <1>1. created \in Nat
    BY ConstantsAssumption DEF TypeOK
  <1>2. \A u \in TaskId : u <= created => u # created'
    BY <1>1 DEF Born, TaskId
  <1>3. QED
    BY <1>1, <1>2 DEF Born, TasksKeep

\* No step at all does.
LEMMA TasksLater ==
    ASSUME Inv, IdInv, [Next]_vars
    PROVE  TasksKeep
  <1> USE DEF Inv
  <1>1. created \in Nat
    BY ConstantsAssumption DEF TypeOK
  <1>2. CASE UserNext
    <2>1. ASSUME NEW n \in Node, Edited(n) \/ DeleteClusterNode(n)
          PROVE  TasksKeep
      BY <1>1, <2>1 DEF Edited, Put, DeleteClusterNode, TasksKeep
    <2>2. ASSUME NEW n \in Node, Registered(n)
          PROVE  TasksKeep
      BY <2>2, BornKeeps DEF Registered
    <2>3. ASSUME NEW t \in TaskId, Retried(t) \/ Cancelled(t)
          PROVE  TasksKeep
      BY <2>3, ToldKeeps DEF Retried, Cancelled
    <2>4. CASE UNCHANGED <<store, used>>
      BY <1>1, <2>4 DEF store, TasksKeep
    <2>5. QED
      BY <1>2, <2>1, <2>2, <2>3, <2>4, UserTells
  <1>3. CASE UNCHANGED <<tasks, created>>
    BY <1>1, <1>3 DEF TasksKeep
  <1>4. CASE PollNext
    BY <1>3, <1>4, PollStore, ToldKeeps DEF PollTold, PollPut, Put, store
  <1>5. ASSUME NEW t \in TaskId, RunnerNext(t)
        PROVE  TasksKeep
    BY <1>3, <1>5, RunnerStore, ToldKeeps DEF Put, store
  <1>6. ASSUME NEW t \in TaskId, TimePasses(t)
        PROVE  TasksKeep
    <2>1. /\ created' = created
          /\ \A u \in TaskId : tasks'[u] \in {tasks[u], Aged(tasks[u])}
      BY <1>6 DEF TimePasses, TypeOK
    <2>2. QED
      BY <1>1, <2>1, AgedType DEF TypeOK, TasksKeep
  <1>7. CASE Crash \/ UNCHANGED vars
    BY <1>3, <1>7 DEF Crash, vars, store
  <1>8. QED
    BY <1>2, <1>4, <1>5, <1>6, <1>7 DEF Next

\* Copies that were right about their tasks stay so.
LEMMA OwnsLater ==
    ASSUME Inv, Inv', TasksKeep, NEW copies \in [Node -> NodeRecord \cup {NoNode}],
           OwnsAll(tasks, copies), KnownAll(copies, created)
    PROVE  OwnsAll(tasks', copies) /\ KnownAll(copies, created')
  <1>1. created \in Nat /\ created' \in Nat
    BY ConstantsAssumption DEF Inv, TypeOK
  <1>2. ASSUME NEW n \in Node, copies[n] # NoNode, copies[n].task # NoTask
        PROVE  /\ copies[n].task \in TaskId
               /\ copies[n].task <= created
               /\ copies[n].task <= created'
    BY <1>1, <1>2 DEF TasksKeep, KnownAll, NodeRecord, TaskId
  <1>3. QED
    BY <1>2 DEF OwnsAll, Owns, TasksKeep, KnownAll

\* The part of the invariant that is about the stored nodes.
OwnedNodes == OwnsAll(tasks, nodes) /\ KnownAll(nodes, created)

\* The kinds of steps keep the nodes' records right about their tasks.
LEMMA PutOwned ==
    ASSUME TypeOK, OwnedNodes, NEW n \in Node, NEW node, Put(n, node),
           Owns(tasks, node, n), node.task # NoTask => node.task <= created
    PROVE  OwnedNodes'
  <1>1. \A m \in Node : nodes'[m] = IF m = n THEN node ELSE nodes[m]
    BY DEF Put, TypeOK
  <1>2. UNCHANGED <<tasks, created>>
    BY DEF Put
  <1>3. QED
    BY <1>1, <1>2 DEF OwnedNodes, OwnsAll, KnownAll, Owns

\* Telling of a task names it in the record of its own node.
LEMMA ToldOwned ==
    ASSUME Inv, Inv', OwnedNodes, NEW t \in TaskId, NEW status \in TaskStatus, NEW steps,
           Told(t, status, steps)
    PROVE  OwnedNodes'
  <1> DEFINE n == tasks[t].node
  <1>1. TasksKeep /\ nodes \in [Node -> NodeRecord \cup {NoNode}]
    BY ToldKeeps DEF Inv, TypeOK
  <1>2. OwnsAll(tasks', nodes) /\ KnownAll(nodes, created')
    BY <1>1, OwnsLater DEF OwnedNodes
  <1>3. t <= created /\ created' = created
    <2>1. created \in Nat /\ t \in Nat
      BY ConstantsAssumption DEF Inv, TypeOK, TaskId
    <2>2. ~(t > created)
      BY DEF Told, Inv, AloneInv
    <2>3. QED
      BY <2>1, <2>2 DEF Told
  <1>4. /\ \A m \in Node \ {n} : nodes'[m] = nodes[m]
        /\ nodes'[n] # NoNode => nodes'[n].task = t
    BY ToldNodes DEF Inv
  <1>5. tasks'[t].node = n
    BY DEF Told
  <1> HIDE DEF n
  <1>6. QED
    BY <1>2, <1>3, <1>4, <1>5 DEF OwnedNodes, OwnsAll, KnownAll, Owns

\* A new task is named by its own node.
LEMMA BornOwned ==
    ASSUME Inv, Inv', OwnedNodes, NEW n \in Node, Born(n)
    PROVE  OwnedNodes'
  <1>1. TasksKeep /\ nodes \in [Node -> NodeRecord \cup {NoNode}]
    BY BornKeeps DEF Inv, TypeOK
  <1>2. OwnsAll(tasks', nodes) /\ KnownAll(nodes, created')
    BY <1>1, OwnsLater DEF OwnedNodes
  <1>3. created' \in Nat
    BY ConstantsAssumption DEF Inv, TypeOK
  <1>4. QED
    BY <1>2, <1>3 DEF Born, OwnedNodes, OwnsAll, KnownAll, Owns

\* Each actor's steps are of these kinds: the users',
LEMMA UserOwned ==
    ASSUME Inv, Inv', IdInv, UserNext
    PROVE  OwnedNodes'
  <1>1. OwnedNodes
    BY DEF IdInv, KnownInv, OwnInv, OwnedNodes
  <1>2. ASSUME NEW n \in Node, Edited(n)
        PROVE  OwnedNodes'
    <2>1. PICK node : Put(n, node) /\ ShownOrNew(n, node)
      BY <1>2 DEF Edited
    <2>2. /\ Owns(tasks, node, n)
          /\ node.task # NoTask => node.task <= created
      BY <2>1 DEF ShownOrNew, IdInv, KnownInv, OwnInv, OwnsAll, KnownAll, Owns
    <2>3. QED
      BY <1>1, <2>1, <2>2, PutOwned DEF Inv
  <1>3. ASSUME NEW n \in Node, Registered(n)
        PROVE  OwnedNodes'
    BY <1>1, <1>3, BornOwned DEF Registered
  <1>4. ASSUME NEW n \in Node, DeleteClusterNode(n)
        PROVE  OwnedNodes'
    <2>1. /\ \A u \in TaskId : tasks'[u] \in {tasks[u], NoTask}
          /\ \A m \in Node : nodes'[m] \in {nodes[m], NoNode}
          /\ created' = created
      BY <1>4 DEF DeleteClusterNode, Inv, TypeOK
    <2>2. \A m \in Node : nodes[m] # NoNode /\ nodes[m].task # NoTask => nodes[m].task \in TaskId
      BY DEF Inv, TypeOK, NodeRecord
    <2>3. QED
      BY <1>1, <2>1, <2>2 DEF OwnedNodes, OwnsAll, KnownAll, Owns
  <1>5. ASSUME NEW t \in TaskId, Retried(t) \/ Cancelled(t)
        PROVE  OwnedNodes'
    BY <1>1, <1>5, ToldOwned DEF Retried, Cancelled, TaskStatus
  <1>6. CASE UNCHANGED store
    BY <1>1, <1>6 DEF store, OwnedNodes, OwnsAll, KnownAll, Owns
  <1>7. QED
    BY <1>2, <1>3, <1>4, <1>5, <1>6, UserTells DEF Inv

\* the poll loop's,
LEMMA PollOwned ==
    ASSUME Inv, Inv', IdInv, PollNext
    PROVE  OwnedNodes'
  <1>1. OwnedNodes
    BY DEF IdInv, KnownInv, OwnInv, OwnedNodes
  <1>2. CASE UNCHANGED store
    BY <1>1, <1>2 DEF store, OwnedNodes, OwnsAll, KnownAll, Owns
  <1>3. ASSUME NEW t \in TaskId, PollTold(t)
        PROVE  OwnedNodes'
    BY <1>1, <1>3, ToldOwned DEF PollTold, TaskStatus
  <1>4. ASSUME NEW n \in Node, PollPut(n)
        PROVE  OwnedNodes'
    <2>1. seen[n] # NoNode /\ seen[n] \in NodeRecord
      BY <1>4 DEF PollPut, Inv, TypeOK
    <2>2. PICK node : Put(n, node) /\ node.task = seen[n].task
      <3>1. /\ [seen[n] EXCEPT !.prov = "failed"].task = seen[n].task
            /\ [seen[n] EXCEPT !.status = "unreachable"].task = seen[n].task
        BY <2>1 DEF NodeRecord
      <3>2. QED
        BY <1>4, <3>1 DEF PollPut
    <2>3. /\ Owns(tasks, node, n)
          /\ node.task # NoTask => node.task <= created
      BY <2>1, <2>2 DEF IdInv, KnownInv, OwnInv, OwnsAll, KnownAll, Owns
    <2>4. QED
      BY <1>1, <2>2, <2>3, PutOwned DEF Inv
  <1>5. QED
    BY <1>2, <1>3, <1>4, PollStore

\* and those of a goroutine.
LEMMA RunnerOwned ==
    ASSUME Inv, Inv', IdInv, NEW t \in TaskId, RunnerNext(t)
    PROVE  OwnedNodes'
  <1> DEFINE r == runner[t]
  <1>1. OwnedNodes
    BY DEF IdInv, KnownInv, OwnInv, OwnedNodes
  <1>2. /\ r # Idle /\ r.task \in Task /\ r.task.node \in Node /\ r.task.status \in TaskStatus
    BY RunnerTask, RunnerType DEF Inv, Task
  <1>3. CASE UNCHANGED store
    BY <1>1, <1>3 DEF store, OwnedNodes, OwnsAll, KnownAll, Owns
  <1>4. CASE Told(t, r.task.status, r.task.steps)
    BY <1>1, <1>2, <1>4, ToldOwned
  <1>5. CASE Put(r.task.node, r.node) /\ r.pc \in {"startNode", "okNode", "endNode"}
    <2>1. r.node.task = t
      BY <1>5 DEF IdInv, OwnInv
    <2>2. Owns(tasks, r.node, r.task.node)
      BY <1>2, <2>1 DEF IdInv, OwnInv, SameNode, Owns
    <2>3. t <= created
      BY <1>2, ConstantsAssumption DEF IdInv, KnownInv, Inv, TypeOK, TaskId
    <2>4. QED
      BY <1>1, <1>2, <1>5, <2>1, <2>2, <2>3, PutOwned DEF Inv
  <1>6. QED
    BY <1>3, <1>4, <1>5, RunnerStore

\* Where the copies come from.
LEMMA Origins ==
    ASSUME Inv, IdInv, [Next]_vars
    PROVE  /\ \A n \in Node : seen'[n] \in {seen[n], nodes[n], NoNode}
           /\ \A t \in TaskId : listed'[t] \in {listed[t], tasks[t], NoTask, Aged(listed[t])}
           /\ \A t \in TaskId :
                 \/ runner'[t] \in {runner[t], Idle}
                 \/ /\ listed[t] # NoTask
                    /\ runner'[t].pc = "start"
                    /\ runner'[t].task = listed[t]
                 \/ /\ runner[t] # Idle
                    /\ runner'[t].task.node = runner[t].task.node
                    /\ runner'[t].node.task = t
  <1>1. CASE UserNext \/ UNCHANGED vars
    BY <1>1, UserTells DEF Inv, vars, pollVars
  <1>2. CASE PollNext
    BY <1>2, PollCopies
  <1>3. ASSUME NEW t \in TaskId, RunnerNext(t)
        PROVE  /\ UNCHANGED pollVars
               /\ \A u \in TaskId :
                     \/ runner'[u] \in {runner[u], Idle}
                     \/ /\ runner[u] # Idle
                        /\ runner'[u].task.node = runner[u].task.node
                        /\ runner'[u].node.task = u
    BY <1>3, RunnerStore, RunnerTask, RunnerNames DEF Continues
  <1>4. ASSUME NEW t \in TaskId, TimePasses(t)
        PROVE  /\ UNCHANGED <<seen, runner>>
               /\ \A u \in TaskId : listed'[u] \in {listed[u], Aged(listed[u])}
    BY <1>4 DEF TimePasses, Inv, TypeOK
  <1>5. CASE Crash
    BY <1>5 DEF Crash, NothingListed, NothingSeen
  <1>6. QED
    BY <1>1, <1>2, <1>3, <1>4, <1>5 DEF Next, pollVars

\* The invariant about copies is preserved.
LEMMA IdNext ==
    ASSUME Inv, IdInv, [Next]_vars
    PROVE  IdInv'
  <1>1. Inv' /\ TasksKeep
    BY Inductive, TasksLater
  <1>2. created \in Nat /\ created' \in Nat /\ created <= created'
    BY <1>1, ConstantsAssumption DEF Inv, TypeOK, TasksKeep
  <1>3. \A t \in TaskId : t > created => listed[t] = NoTask /\ tasks[t] = NoTask /\ runner[t] = Idle
    BY DEF Inv, AloneInv, IdInv, KnownInv
  <1>4. ASSUME NEW t \in TaskId
        PROVE  /\ listed[t] \in Task \cup {NoTask}
               /\ Aged(listed[t]) = NoTask <=> listed[t] = NoTask
               /\ listed[t] # NoTask => Aged(listed[t]).node = listed[t].node
    BY AgedType DEF Inv, TypeOK
  <1>5. ASSUME NEW t \in TaskId, NEW task, t <= created, SameNode(tasks, task, t)
        PROVE  SameNode(tasks', task, t)
    BY <1>1, <1>5 DEF SameNode, TasksKeep
  <1>6. ASSUME NEW t \in TaskId
        PROVE  /\ t > created' => listed'[t] = NoTask /\ runner'[t] = Idle
               /\ listed'[t] # NoTask => SameNode(tasks', listed'[t], t)
               /\ runner'[t] # Idle => SameNode(tasks', runner'[t].task, t)
               /\ runner'[t].pc \notin {"idle", "start"} => runner'[t].node.task = t
    <2>1. t > created' => t > created
      BY <1>2 DEF TaskId
    <2>2. CASE t > created
      <3>1. listed'[t] = NoTask
        BY <1>3, <1>4, <2>2, Origins
      <3>2. runner'[t] = Idle
        BY <1>3, <2>2, Origins
      <3>3. QED
        BY <3>1, <3>2 DEF Idle
    <2>3. CASE ~(t > created)
      <3>1. t <= created
        BY <1>2, <2>3 DEF TaskId
      <3>2. /\ listed[t] # NoTask => SameNode(tasks', listed[t], t)
            /\ runner[t] # Idle => SameNode(tasks', runner[t].task, t)
            /\ tasks[t] # NoTask => SameNode(tasks', tasks[t], t)
        BY <1>5, <3>1 DEF IdInv, OwnInv, SameNode
      <3>3. listed'[t] # NoTask => SameNode(tasks', listed'[t], t)
        BY <1>4, <3>2, Origins DEF SameNode
      <3>4. /\ runner'[t] # Idle => SameNode(tasks', runner'[t].task, t)
            /\ runner'[t].pc \notin {"idle", "start"} => runner'[t].node.task = t
        BY <3>2, Origins DEF SameNode, Idle, IdInv, OwnInv
      <3>5. QED
        BY <2>1, <2>3, <3>3, <3>4
    <2>4. QED
      BY <2>2, <2>3
  <1>7. OwnsAll(tasks', seen') /\ KnownAll(seen', created')
    <2>1. /\ nodes \in [Node -> NodeRecord \cup {NoNode}]
          /\ seen \in [Node -> NodeRecord \cup {NoNode}]
      BY DEF Inv, TypeOK
    <2>2. /\ OwnsAll(tasks', nodes) /\ KnownAll(nodes, created')
          /\ OwnsAll(tasks', seen) /\ KnownAll(seen, created')
      BY <1>1, <2>1, OwnsLater DEF IdInv, KnownInv, OwnInv
    <2>3. QED
      BY <2>2, Origins DEF OwnsAll, KnownAll
  <1>8. OwnedNodes'
    <2>1. CASE UNCHANGED nodes
      <3>1. nodes \in [Node -> NodeRecord \cup {NoNode}]
        BY DEF Inv, TypeOK
      <3>2. OwnsAll(tasks', nodes) /\ KnownAll(nodes, created')
        BY <1>1, <3>1, OwnsLater DEF IdInv, KnownInv, OwnInv
      <3>3. QED
        BY <2>1, <3>2 DEF OwnedNodes
    <2>2. ASSUME NEW t \in TaskId, TimePasses(t)
          PROVE  UNCHANGED nodes
      BY <2>2 DEF TimePasses
    <2>3. QED
      BY <1>1, <2>1, <2>2, UserOwned, PollOwned, RunnerOwned DEF Next, Crash, vars, store
  <1>9. ASSUME NEW b \in Browser
        PROVE  OwnsAll(tasks', page'[b]) /\ KnownAll(page'[b], created')
    <2>1. /\ nodes \in [Node -> NodeRecord \cup {NoNode}]
          /\ page[b] \in [Node -> NodeRecord \cup {NoNode}]
      BY DEF Inv, TypeOK
    <2>2. /\ OwnsAll(tasks', nodes) /\ KnownAll(nodes, created')
          /\ OwnsAll(tasks', page[b]) /\ KnownAll(page[b], created')
      BY <1>1, <2>1, OwnsLater DEF IdInv, KnownInv, OwnInv
    <2>3. OwnsAll(tasks', NothingSeen) /\ KnownAll(NothingSeen, created')
      BY DEF OwnsAll, KnownAll, NothingSeen
    <2>4. page'[b] \in {page[b], nodes, NothingSeen}
      BY PagesLoaded, PagesKept DEF Inv, Next, vars, outside
    <2>5. QED
      BY <2>2, <2>3, <2>4
  <1>10. QED
    BY <1>6, <1>7, <1>8, <1>9 DEF IdInv, KnownInv, OwnInv, OwnedNodes

(***************************************************************************)
(* What can have happened to a task since the poll loop listed it.         *)
(***************************************************************************)

\* A listed task may have been deleted with its node.  The tasks the node has
\* now were created since, and wait for the next poll.
GoneInv ==
    \A t, u \in TaskId :
        /\ listed[t] # NoTask /\ tasks[t] = NoTask
        /\ tasks[u] # NoTask /\ tasks[u].node = listed[t].node
        => /\ tasks[u].status \in {"pending", "cancelled"}
           /\ listed[u] = NoTask /\ runner[u] = Idle

\* A task that is being timed out has not succeeded.
TimedInv ==
    \A t \in TaskId : BeingTimedOut(t) /\ tasks[t] # NoTask => tasks[t].status # "succeeded"

\* Both together.
SinceInv == GoneInv /\ TimedInv

\* Users delete a task with all the tasks of its node; those that come later
\* are new.
LEMMA UserGone ==
    ASSUME Inv, IdInv, GoneInv, UserNext
    PROVE  GoneInv'
  <1>1. UNCHANGED <<listed, runner>>
    BY UserTells DEF Inv, pollVars
  <1>2. SUFFICES ASSUME NEW t \in TaskId, NEW u \in TaskId,
                        listed[t] # NoTask, tasks'[t] = NoTask,
                        tasks'[u] # NoTask, tasks'[u].node = listed[t].node
                 PROVE  /\ tasks'[u].status \in {"pending", "cancelled"}
                        /\ listed[u] = NoTask /\ runner[u] = Idle
    BY <1>1 DEF GoneInv
  <1>3. ASSUME NEW n \in Node, Edited(n)
        PROVE  /\ tasks'[u].status \in {"pending", "cancelled"}
               /\ listed[u] = NoTask /\ runner[u] = Idle
    BY <1>2, <1>3 DEF Edited, Put, GoneInv
  <1>4. ASSUME NEW n \in Node, Registered(n)
        PROVE  /\ tasks'[u].status \in {"pending", "cancelled"}
               /\ listed[u] = NoTask /\ runner[u] = Idle
    <2>1. created' > created
      BY <1>4, ConstantsAssumption DEF Registered, Born, Inv, TypeOK
    <2>2. CASE u = created'
      BY <1>4, <2>1, <2>2 DEF Registered, Born, IdInv, KnownInv
    <2>3. CASE u # created'
      BY <1>2, <1>4, <2>3 DEF Registered, Born, GoneInv
    <2>4. QED
      BY <2>2, <2>3
  <1>5. ASSUME NEW n \in Node, DeleteClusterNode(n)
        PROVE  /\ tasks'[u].status \in {"pending", "cancelled"}
               /\ listed[u] = NoTask /\ runner[u] = Idle
    <2>1. /\ \A v \in TaskId : tasks'[v] = IF tasks[v] # NoTask /\ tasks[v].node = n
                                           THEN NoTask ELSE tasks[v]
      BY <1>5 DEF DeleteClusterNode
    <2>2. tasks[u] = tasks'[u] /\ tasks[u].node # n
      BY <1>2, <2>1
    <2>3. tasks[t] = NoTask
      BY <1>2, <2>1, <2>2 DEF IdInv, OwnInv, SameNode
    <2>4. QED
      BY <1>2, <2>2, <2>3 DEF GoneInv
  <1>6. ASSUME NEW t0 \in TaskId, Retried(t0) \/ Cancelled(t0)
        PROVE  /\ tasks'[u].status \in {"pending", "cancelled"}
               /\ listed[u] = NoTask /\ runner[u] = Idle
    <2>1. PICK status \in {"pending", "cancelled"} : \E steps : Told(t0, status, steps)
      BY <1>6 DEF Retried, Cancelled
    <2>2. QED
      BY <1>2, <2>1 DEF Told, GoneInv
  <1>7. CASE UNCHANGED store
    BY <1>2, <1>7 DEF store, GoneInv
  <1>8. QED
    BY <1>3, <1>4, <1>5, <1>6, <1>7, UserTells DEF Inv

\* The poll loop lists tasks that are there, and starts only what it listed.
LEMMA PollGone ==
    ASSUME Inv, IdInv, GoneInv, PollNext
    PROVE  GoneInv'
  <1>1. CASE PollListTasks
    BY <1>1 DEF PollListTasks, store, GoneInv
  <1>2. CASE ~PollListTasks
    <2>1. \A t \in TaskId : listed'[t] \in {listed[t], NoTask}
      BY <1>2 DEF PollNext, PollListNodes, PollScanned, PollMetrics, PollDone, PollPass,
         PollTimeout, PollTimeoutNode, PollMissingNode, PollSpawn, PollSaveMetrics, LookedAt,
         Inv, TypeOK
    <2>2. \A t \in TaskId : listed[t] = NoTask => runner'[t] = runner[t]
      BY PollCopies
    <2>3. \/ UNCHANGED tasks
          \/ \E t \in TaskId : listed[t] # NoTask /\ Told(t, "failed", listed[t].steps)
      BY PollStore DEF PollTold, PollPut, Put, store
    <2>4. \A t \in TaskId : /\ tasks'[t] = NoTask <=> tasks[t] = NoTask
                            /\ tasks[t] # NoTask => tasks'[t].node = tasks[t].node
                            /\ listed[t] = NoTask => tasks'[t] = tasks[t]
      BY <2>3 DEF Told
    <2>5. QED
      BY <2>1, <2>2, <2>4 DEF GoneInv
  <1>3. QED
    BY <1>1, <1>2

\* A goroutine touches its own task only.
LEMMA RunnerGone ==
    ASSUME Inv, IdInv, GoneInv, NEW t0 \in TaskId, RunnerNext(t0)
    PROVE  GoneInv'
  <1>1. UNCHANGED listed /\ runner[t0] # Idle
    BY RunnerStore DEF pollVars
  <1>2. \A t \in TaskId : runner[t] = Idle => runner'[t] = runner[t]
    BY <1>1, RunnerTask
  <1>3. \A t \in TaskId : /\ tasks'[t] = NoTask <=> tasks[t] = NoTask
                          /\ tasks[t] # NoTask => tasks'[t].node = tasks[t].node
                          /\ runner[t] = Idle => tasks'[t] = tasks[t]
    BY <1>1, RunnerStore DEF Told, Put, store
  <1>4. QED
    BY <1>1, <1>2, <1>3 DEF GoneInv

\* The clock leaves alone what the invariants speak of.
LEMMA TimeKeeps ==
    ASSUME Inv, NEW t0 \in TaskId, TimePasses(t0)
    PROVE  /\ SameTasks
           /\ UNCHANGED <<nodes, created, outdated, phase, seen, runner, ran, used>>
           /\ \A t \in TaskId : /\ listed'[t] = NoTask <=> listed[t] = NoTask
                                /\ listed[t] # NoTask =>
                                      /\ listed'[t].node = listed[t].node
                                      /\ listed'[t].status = listed[t].status
                                      /\ listed'[t].steps = listed[t].steps
           /\ \A t \in TaskId : BeingTimedOut(t)' <=> BeingTimedOut(t)
  <1>1. UNCHANGED <<nodes, created, outdated, phase, seen, runner, ran, used>>
    BY DEF TimePasses, outside
  <1>2. \A t \in TaskId : /\ tasks'[t] \in {tasks[t], Aged(tasks[t])}
                          /\ listed'[t] \in {listed[t], Aged(listed[t])}
                          /\ tasks[t] \in Task \cup {NoTask}
                          /\ listed[t] \in Task \cup {NoTask}
    BY DEF TimePasses, Inv, TypeOK
  <1>3. \A t \in TaskId : /\ listed'[t] = NoTask <=> listed[t] = NoTask
                          /\ listed[t] # NoTask =>
                                /\ listed'[t].node = listed[t].node
                                /\ listed'[t].status = listed[t].status
                                /\ listed'[t].steps = listed[t].steps
    BY <1>2, AgedType
  <1>4. SameTasks
    BY <1>1, <1>2, AgedType DEF SameTasks
  <1>5. \A t \in TaskId : BeingTimedOut(t)' <=> BeingTimedOut(t)
    BY <1>1, <1>3 DEF BeingTimedOut, IsNextTask
  <1>6. QED
    BY <1>1, <1>3, <1>4, <1>5

\* The poll loop begins to time out only tasks that have not ended.
LEMMA PollTimed ==
    ASSUME Inv, IdInv, TimedInv, PollNext
    PROVE  TimedInv'
  <1>1. CASE phase' # "timeout"
    BY <1>1 DEF TimedInv, BeingTimedOut
  <1>2. CASE phase' = "timeout"
    <2>1. PICK t0 \in TaskId : PollTimeout(t0)
      BY <1>2 DEF PollNext, PollListTasks, PollListNodes, PollScanned, PollMetrics, PollDone,
         PollPass, PollTimeoutNode, PollMissingNode, PollSpawn, PollSaveMetrics
    <2>2. /\ listed' = listed /\ IsNextTask(t0) /\ phase = "scan"
          /\ listed[t0].status = "running" /\ listed[t0] # NoTask
      BY <1>2, <2>1 DEF PollTimeout, TimedOut, IsNextTask
    <2>3. \A t \in TaskId : BeingTimedOut(t)' => t = t0
      BY <2>2, OneIsNext DEF BeingTimedOut, IsNextTask
    <2>4. tasks[t0] # NoTask => ~Ended(tasks[t0])
      BY <2>2 DEF Inv, AloneInv, BeingTimedOut
    <2>5. UNCHANGED tasks \/ Told(t0, "failed", listed[t0].steps)
      <3>1. /\ FailedCopy(t0) \in Task /\ FailedCopy(t0).status = "failed"
            /\ FailedCopy(t0).steps = listed[t0].steps
            /\ tasks[t0] # NoTask => FailedCopy(t0).node = tasks[t0].node
        BY <2>2, CopyType DEF Inv, IdInv, OwnInv, SameNode
      <3>2. QED
        BY <2>1, <3>1, SaveTaskTells DEF Inv, PollTimeout, store
    <2>6. tasks'[t0] # NoTask => tasks'[t0].status # "succeeded"
      BY <2>4, <2>5 DEF Told, Ended
    <2>7. QED
      BY <2>3, <2>6 DEF TimedInv
  <1>3. QED
    BY <1>1, <1>2

\* This invariant is preserved, too.
LEMMA SinceNext ==
    ASSUME Inv, IdInv, SinceInv, [Next]_vars
    PROVE  SinceInv'
  <1> USE DEF SinceInv
  <1>1. CASE UserNext
    <2>1. UNCHANGED <<phase, listed>>
      BY <1>1, UserTells DEF Inv, pollVars
    <2>2. \A t \in TaskId : BeingTimedOut(t)' <=> BeingTimedOut(t)
      BY <2>1 DEF BeingTimedOut, IsNextTask
    <2>3. \A t \in TaskId : tasks'[t] # NoTask /\ tasks'[t].status = "succeeded" =>
                               tasks'[t] = tasks[t]
      BY <1>1, UserTells DEF Inv, Edited, Put, Registered, Born, DeleteClusterNode, Retried,
         Cancelled, Told, store
    <2>4. TimedInv'
      BY <2>2, <2>3 DEF TimedInv
    <2>5. QED
      BY <1>1, <2>4, UserGone
  <1>2. CASE PollNext
    BY <1>2, PollGone, PollTimed
  <1>3. ASSUME NEW t0 \in TaskId, RunnerNext(t0)
        PROVE  SinceInv'
    <2>1. UNCHANGED <<phase, listed>> /\ listed[t0] = NoTask
      BY <1>3, RunnerStore DEF pollVars, Inv, AloneInv, EndedTasksAreAlone, Active
    <2>2. \A t \in TaskId \ {t0} : tasks'[t] = tasks[t]
      BY <1>3, RunnerStore DEF Told, Put, store
    <2>3. \A t \in TaskId : /\ BeingTimedOut(t)' <=> BeingTimedOut(t)
                            /\ BeingTimedOut(t) => t # t0
      BY <2>1 DEF BeingTimedOut, IsNextTask
    <2>4. TimedInv'
      BY <2>2, <2>3 DEF TimedInv
    <2>5. QED
      BY <1>3, <2>4, RunnerGone
  <1>4. ASSUME NEW t0 \in TaskId, TimePasses(t0)
        PROVE  SinceInv'
    <2>1. GoneInv'
      BY <1>4, TimeKeeps DEF GoneInv, SameTasks
    <2>2. TimedInv'
      BY <1>4, TimeKeeps DEF TimedInv, SameTasks
    <2>3. QED
      BY <2>1, <2>2
  <1>5. CASE Crash
    BY <1>5 DEF Crash, NothingListed, GoneInv, TimedInv, BeingTimedOut
  <1>6. CASE UNCHANGED vars
    BY <1>6 DEF vars, store, pollVars, outside, GoneInv, TimedInv, BeingTimedOut, IsNextTask
  <1>7. QED
    BY <1>1, <1>2, <1>3, <1>4, <1>5, <1>6 DEF Next

(***************************************************************************)
(* A node tells how its task ended.                                        *)
(***************************************************************************)

\* Every task of n but t has succeeded.
OthersSucceeded(records, n, t) ==
    \A u \in TaskId \ {t} :
        records[u] # NoTask /\ records[u].node = n => records[u].status = "succeeded"

\* A record of n tells how its task ended, unless another task of n is
\* unfinished, failed or cancelled.
Tells(records, node, n) ==
    LET t == node.task
    IN  /\ t # NoTask /\ records[t] # NoTask
        /\ Ended(records[t])
        /\ OthersSucceeded(records, n, t)
        => node.prov = records[t].status

TellsAll(records, copies, old) ==
    \A n \in Node \ old : copies[n] # NoNode => Tells(records, copies[n], n)

\* Nothing is said of the nodes that an edit took back.  The copies that may be
\* saved as they are, those of the metrics, tell so too.
TellsInv ==
    /\ TellsAll(tasks, nodes, outdated)
    /\ phase = "metrics" => TellsAll(tasks, seen, outdated)

\* Statuses that stay tell the same.
LEMMA SameTells ==
    ASSUME TypeOK, SameTasks, NEW copies \in [Node -> NodeRecord \cup {NoNode}], NEW old,
           TellsAll(tasks, copies, old)
    PROVE  TellsAll(tasks', copies, old)
  <1>1. SUFFICES ASSUME NEW n \in Node \ old, copies[n] # NoNode
                 PROVE  Tells(tasks', copies[n], n)
    BY DEF TellsAll
  <1>2. Tells(tasks, copies[n], n) /\ copies[n].task \in TaskId \cup {NoTask}
    BY <1>1 DEF TellsAll, NodeRecord
  <1>3. QED
    BY <1>2 DEF Tells, OthersSucceeded, SameTasks, Ended

\* A record put in the place of the node's tells of its task, or is outdated.
LEMMA PutTells ==
    ASSUME TypeOK, TellsAll(tasks, nodes, outdated), NEW n \in Node, NEW node, Put(n, node),
           outdated \subseteq outdated', n \notin outdated' => Tells(tasks, node, n)
    PROVE  TellsAll(tasks', nodes', outdated')
  <1>1. \A m \in Node : nodes'[m] = IF m = n THEN node ELSE nodes[m]
    BY DEF Put, TypeOK
  <1>2. tasks' = tasks
    BY DEF Put
  <1>3. QED
    BY <1>1, <1>2 DEF TellsAll

\* A copy of another node's record is not about a task that is told of; nor is
\* a copy of the same node's, unless the task succeeds.
LEMMA ToldOthers ==
    ASSUME TypeOK, NEW t \in TaskId, NEW status, NEW steps, Told(t, status, steps),
           NEW copies \in [Node -> NodeRecord \cup {NoNode}], OwnsAll(tasks, copies),
           TellsAll(tasks, copies, outdated),
           NEW n \in Node \ outdated', copies[n] # NoNode,
           n # tasks[t].node \/ status \in {"pending", "cancelled"}
    PROVE  Tells(tasks', copies[n], n)
  <1> DEFINE node == copies[n]
  <1>1. node.task \in TaskId \cup {NoTask} /\ Owns(tasks, node, n)
    BY DEF OwnsAll, NodeRecord
  <1>2. SUFFICES ASSUME node.task # NoTask, tasks'[node.task] # NoTask,
                        Ended(tasks'[node.task]), OthersSucceeded(tasks', n, node.task)
                 PROVE  node.prov = tasks'[node.task].status
    BY DEF Tells
  <1>3. node.task # t
    BY <1>1, <1>2 DEF Told, Owns, Ended
  <1>4. tasks'[node.task] = tasks[node.task] /\ node.task \in TaskId
    BY <1>1, <1>2, <1>3 DEF Told
  <1>5. tasks[t].node # n
    BY <1>2, <1>3 DEF OthersSucceeded, Told
  <1>6. OthersSucceeded(tasks, n, node.task)
    BY <1>2, <1>5 DEF OthersSucceeded, Told
  <1>7. Tells(tasks, node, n)
    BY <1>5 DEF Told, TellsAll
  <1>8. QED
    BY <1>2, <1>4, <1>6, <1>7 DEF Tells

\* Telling of a task makes its node's record tell of it, outdated or not.
LEMMA ToldTells ==
    ASSUME TypeOK, NEW t \in TaskId, NEW status \in TaskStatus, NEW steps,
           Told(t, status, steps), OwnsAll(tasks, nodes), TellsAll(tasks, nodes, outdated)
    PROVE  TellsAll(tasks', nodes', outdated')
  <1> DEFINE n == tasks[t].node
  <1>1. /\ n \in Node
        /\ \A m \in Node \ {n} : nodes'[m] = nodes[m]
        /\ nodes'[n] # NoNode => nodes'[n].task = t /\ nodes'[n].prov = status
    BY ToldNodes
  <1>2. nodes \in [Node -> NodeRecord \cup {NoNode}]
    BY DEF TypeOK
  <1>3. \A m \in Node \ outdated' : m # n /\ nodes[m] # NoNode => Tells(tasks', nodes[m], m)
    BY <1>2, ToldOthers
  <1>4. nodes'[n] # NoNode => Tells(tasks', nodes'[n], n)
    BY <1>1 DEF Tells, Told
  <1> HIDE DEF n
  <1>5. QED
    BY <1>1, <1>3, <1>4 DEF TellsAll

\* A new task leaves alone what the copies tell of the tasks before it.
LEMMA BornTells ==
    ASSUME Inv, NEW n \in Node, Born(n),
           NEW copies \in [Node -> NodeRecord \cup {NoNode}], KnownAll(copies, created),
           TellsAll(tasks, copies, outdated), NEW m \in Node \ outdated', copies[m] # NoNode
    PROVE  Tells(tasks', copies[m], m)
  <1> DEFINE node == copies[m]
  <1>1. /\ node.task \in TaskId \cup {NoTask}
        /\ node.task # NoTask => node.task <= created
    BY DEF KnownAll, NodeRecord
  <1>2. created \in Nat /\ created' > created
    BY ConstantsAssumption DEF Inv, TypeOK, Born
  <1>3. SUFFICES ASSUME node.task # NoTask, tasks'[node.task] # NoTask,
                        Ended(tasks'[node.task]), OthersSucceeded(tasks', m, node.task)
                 PROVE  node.prov = tasks'[node.task].status
    BY DEF Tells
  <1>4. node.task \in TaskId /\ node.task # created'
    BY <1>1, <1>2, <1>3 DEF TaskId
  <1>5. tasks'[node.task] = tasks[node.task]
    BY <1>4 DEF Born
  <1>6. m # n
    BY <1>3, <1>4 DEF OthersSucceeded, Born
  <1>7. OthersSucceeded(tasks, m, node.task)
    <2>1. tasks[created'] = NoTask
      BY <1>2 DEF Born, Inv, AloneInv
    <2>2. QED
      BY <1>3, <1>6, <2>1 DEF OthersSucceeded, Born
  <1>8. Tells(tasks, node, m)
    BY <1>6 DEF Born, TellsAll
  <1>9. QED
    BY <1>3, <1>5, <1>7, <1>8 DEF Tells

\* What copies tell of their tasks stays true when users change the tasks.
LEMMA UserCopiesTell ==
    ASSUME Inv, UserNext, NEW copies \in [Node -> NodeRecord \cup {NoNode}],
           OwnsAll(tasks, copies), KnownAll(copies, created), TellsAll(tasks, copies, outdated)
    PROVE  TellsAll(tasks', copies, outdated')
  <1>1. ASSUME NEW n \in Node, Edited(n)
        PROVE  TellsAll(tasks', copies, outdated')
    BY <1>1 DEF Edited, Put, TellsAll
  <1>2. ASSUME NEW n \in Node, Registered(n)
        PROVE  TellsAll(tasks', copies, outdated')
    BY <1>2, BornTells DEF Registered, TellsAll
  <1>3. ASSUME NEW n \in Node, DeleteClusterNode(n)
        PROVE  TellsAll(tasks', copies, outdated')
    <2>1. outdated' = outdated
      BY <1>3 DEF DeleteClusterNode
    <2>2. SUFFICES ASSUME NEW m \in Node \ outdated, copies[m] # NoNode
                   PROVE  Tells(tasks', copies[m], m)
      BY <2>1 DEF TellsAll
    <2> DEFINE t == copies[m].task
    <2>3. /\ t \in TaskId \cup {NoTask}
          /\ Tells(tasks, copies[m], m) /\ Owns(tasks, copies[m], m)
      BY <2>2 DEF TellsAll, OwnsAll, NodeRecord
    <2>4. SUFFICES ASSUME t # NoTask, tasks'[t] # NoTask, Ended(tasks'[t]),
                          OthersSucceeded(tasks', m, t)
                   PROVE  copies[m].prov = tasks'[t].status
      BY DEF Tells
    <2>5. \A u \in TaskId : tasks'[u] = IF tasks[u] # NoTask /\ tasks[u].node = n
                                        THEN NoTask ELSE tasks[u]
      BY <1>3 DEF DeleteClusterNode
    <2>6. tasks'[t] = tasks[t] /\ m # n
      BY <2>3, <2>4, <2>5 DEF Owns
    <2>7. OthersSucceeded(tasks, m, t)
      BY <2>4, <2>5, <2>6 DEF OthersSucceeded
    <2>8. QED
      BY <2>3, <2>4, <2>6, <2>7 DEF Tells
  <1>4. ASSUME NEW t \in TaskId, Retried(t) \/ Cancelled(t)
        PROVE  TellsAll(tasks', copies, outdated')
    <2>1. PICK status \in {"pending", "cancelled"} : \E steps : Told(t, status, steps)
      BY <1>4 DEF Retried, Cancelled
    <2>2. QED
      BY <2>1, ToldOthers DEF Inv, TellsAll
  <1>5. CASE UNCHANGED store
    BY <1>5 DEF store
  <1>6. QED
    BY <1>1, <1>2, <1>3, <1>4, <1>5, UserTells DEF Inv

\* The users' steps keep every record that is not outdated telling of its task.
LEMMA UserTellsNext ==
    ASSUME Inv, IdInv, TellsInv, UserNext
    PROVE  TellsInv'
  <1>1. /\ nodes \in [Node -> NodeRecord \cup {NoNode}]
        /\ seen \in [Node -> NodeRecord \cup {NoNode}]
        /\ UNCHANGED <<phase, seen>>
    BY UserTells DEF Inv, TypeOK, pollVars
  <1>2. /\ TellsAll(tasks', nodes, outdated')
        /\ phase = "metrics" => TellsAll(tasks', seen, outdated')
    BY <1>1, UserCopiesTell DEF IdInv, KnownInv, OwnInv, TellsInv
  <1>3. ASSUME NEW n \in Node, Edited(n)
        PROVE  TellsAll(tasks', nodes', outdated')
    <2>1. PICK node : /\ Put(n, node)
                      /\ outdated' = IF TakesBack(n, node) THEN outdated \cup {n} ELSE outdated
      BY <1>3 DEF Edited
    <2>2. ASSUME n \notin outdated'
          PROVE  Tells(tasks, node, n)
      <3>1. n \notin outdated /\ ~TakesBack(n, node)
        BY <2>1, <2>2
      <3>2. CASE node.task = NoTask
        BY <3>2 DEF Tells
      <3>3. CASE nodes[n] # NoNode /\ node.task = nodes[n].task /\ node.prov = nodes[n].prov
        <4>1. Tells(tasks, nodes[n], n)
          BY <3>1, <3>3 DEF TellsInv, TellsAll
        <4>2. QED
          BY <3>3, <4>1 DEF Tells
      <3>4. QED
        BY <3>1, <3>2, <3>3 DEF TakesBack
    <2>3. outdated \subseteq outdated'
      BY <2>1
    <2>4. QED
      BY <2>1, <2>2, <2>3, PutTells DEF Inv, TellsInv
  <1>4. ASSUME NEW n \in Node, Registered(n)
        PROVE  TellsAll(tasks', nodes', outdated')
    <2>1. Tells(tasks', nodes'[n], n)
      BY <1>4 DEF Registered, Born, Tells, Ended
    <2>2. QED
      BY <1>2, <1>4, <2>1 DEF Registered, Born, TellsAll
  <1>5. ASSUME NEW n \in Node, DeleteClusterNode(n)
        PROVE  TellsAll(tasks', nodes', outdated')
    <2>1. \A m \in Node : nodes'[m] \in {nodes[m], NoNode}
      BY <1>1, <1>5 DEF DeleteClusterNode
    <2>2. QED
      BY <1>2, <2>1 DEF TellsAll
  <1>6. ASSUME NEW t \in TaskId, Retried(t) \/ Cancelled(t)
        PROVE  TellsAll(tasks', nodes', outdated')
    <2>1. PICK status \in {"pending", "cancelled"} : \E steps : Told(t, status, steps)
      BY <1>6 DEF Retried, Cancelled
    <2>2. QED
      BY <2>1, ToldTells DEF Inv, IdInv, OwnInv, TellsInv, TaskStatus
  <1>7. ASSUME UNCHANGED store
        PROVE  TellsAll(tasks', nodes', outdated')
    BY <1>2, <1>7 DEF store
  <1>8. TellsAll(tasks', nodes', outdated')
    BY <1>3, <1>4, <1>5, <1>6, <1>7, UserTells DEF Inv
  <1>9. QED
    BY <1>1, <1>2, <1>8 DEF TellsInv

\* The timeout of a task, saved to the copy of its node's record made before,
\* tells nothing wrong: the task has not succeeded, and if it is gone then so
\* is every task that ended.
LEMMA TimeoutTells ==
    ASSUME Inv, IdInv, SinceInv, NEW t \in TaskId, BeingTimedOut(t),
           NEW n \in Node, n = listed[t].node, seen[n] # NoNode
    PROVE  Tells(tasks, [seen[n] EXCEPT !.prov = "failed"], n)
  <1> DEFINE node == [seen[n] EXCEPT !.prov = "failed"]
             u == seen[n].task
  <1>1. /\ seen[n] \in NodeRecord /\ node.task = u /\ node.prov = "failed"
        /\ u \in TaskId \cup {NoTask}
    BY DEF Inv, TypeOK, NodeRecord
  <1>2. SUFFICES ASSUME u # NoTask, tasks[u] # NoTask, Ended(tasks[u]),
                        OthersSucceeded(tasks, n, u)
                 PROVE  tasks[u].status = "failed"
    BY <1>1 DEF Tells
  <1>3. tasks[u].node = n /\ listed[t] # NoTask /\ u \in TaskId
    BY <1>1, <1>2 DEF IdInv, OwnInv, OwnsAll, Owns, BeingTimedOut, IsNextTask
  <1>4. tasks[t] # NoTask => tasks[t].node = n /\ tasks[t].status # "succeeded"
    BY <1>3 DEF IdInv, OwnInv, SameNode, SinceInv, TimedInv
  <1>5. CASE tasks[t] = NoTask
    BY <1>2, <1>3, <1>5 DEF SinceInv, GoneInv, Ended
  <1>6. CASE tasks[t] # NoTask
    BY <1>2, <1>4, <1>6 DEF OthersSucceeded, Ended
  <1>7. QED
    BY <1>5, <1>6

\* The poll loop's steps keep every record telling of its task.
LEMMA PollTellsNext ==
    ASSUME Inv, IdInv, SinceInv, TellsInv, PollNext
    PROVE  TellsInv'
  <1>1. TellsAll(tasks', nodes', outdated')
    <2>1. CASE UNCHANGED store
      BY <2>1 DEF TellsInv, store
    <2>2. ASSUME NEW t \in TaskId, PollTold(t)
          PROVE  TellsAll(tasks', nodes', outdated')
      BY <2>2, ToldTells DEF PollTold, Inv, IdInv, OwnInv, TellsInv, TaskStatus
    <2>3. ASSUME NEW n \in Node, NEW t \in TaskId, seen[n] # NoNode,
                 PollTimeoutNode(t), listed[t].node = n,
                 Put(n, [seen[n] EXCEPT !.prov = "failed"]), outdated' = outdated
          PROVE  TellsAll(tasks', nodes', outdated')
      <3> DEFINE node == [seen[n] EXCEPT !.prov = "failed"]
      <3>1. BeingTimedOut(t)
        BY <2>3 DEF PollTimeoutNode, BeingTimedOut
      <3>2. Tells(tasks, node, n) /\ Put(n, node)
        BY <2>3, <3>1, TimeoutTells
      <3> HIDE DEF node
      <3>3. QED
        BY <2>3, <3>2, PutTells DEF Inv, TellsInv
    <2>4. ASSUME NEW n \in Node, seen[n] # NoNode, PollSaveMetrics(n),
                 NEW node \in {seen[n], [seen[n] EXCEPT !.status = "unreachable"]},
                 Put(n, node), outdated' = outdated
          PROVE  TellsAll(tasks', nodes', outdated')
      <3>1. n \notin outdated => Tells(tasks, seen[n], n)
        BY <2>4 DEF PollSaveMetrics, TellsInv, TellsAll
      <3>2. node.task = seen[n].task /\ node.prov = seen[n].prov
        BY <2>4 DEF Inv, TypeOK, NodeRecord
      <3>3. n \notin outdated => Tells(tasks, node, n)
        BY <3>1, <3>2 DEF Tells
      <3>4. QED
        BY <2>4, <3>3, PutTells DEF Inv, TellsInv
    <2>5. QED
      BY <2>1, <2>2, <2>3, <2>4, PollStore DEF PollPut
  <1>2. phase' = "metrics" =>
           /\ tasks' = tasks /\ outdated' = outdated
           /\ \/ seen' = nodes
              \/ phase = "metrics" /\ \A n \in Node : seen'[n] \in {seen[n], NoNode}
    BY DEF PollNext, PollListTasks, PollListNodes, PollScanned, PollMetrics, PollDone, PollPass,
       PollTimeout, PollTimeoutNode, PollMissingNode, PollSpawn, PollSaveMetrics,
       SaveClusterNodeStatus, StoreFails, store, Inv, TypeOK
  <1>3. QED
    BY <1>1, <1>2 DEF TellsInv, TellsAll

\* So do a goroutine's: while it works, its task has not ended, and what it
\* saves of the node names its task.
LEMMA RunnerTellsNext ==
    ASSUME Inv, IdInv, TellsInv, NEW t \in TaskId, RunnerNext(t)
    PROVE  TellsInv'
  <1> DEFINE r == runner[t]
  <1>1. /\ UNCHANGED pollVars /\ r # Idle
        /\ r.task.status \in TaskStatus /\ r.task.node \in Node
        /\ phase # "metrics"
        /\ tasks[t] # NoTask => ~Ended(tasks[t])
    BY RunnerStore, RunnerTask, RunnerType
       DEF Inv, AloneInv, EndedTasksAreAlone, Active, Ended, Task
  <1>2. CASE UNCHANGED store
    BY <1>1, <1>2 DEF TellsInv, store, pollVars
  <1>3. CASE /\ Put(r.task.node, r.node) /\ UNCHANGED outdated
             /\ r.pc \in {"startNode", "okNode", "endNode"}
    <2>1. r.node.task = t
      BY <1>3 DEF IdInv, OwnInv
    <2>2. Tells(tasks, r.node, r.task.node)
      BY <1>1, <2>1 DEF Tells
    <2>3. TellsAll(tasks', nodes', outdated')
      BY <1>1, <1>3, <2>2, PutTells DEF Inv, TellsInv
    <2>4. QED
      BY <1>1, <2>3 DEF TellsInv, pollVars
  <1>4. CASE Told(t, r.task.status, r.task.steps)
    <2>1. TellsAll(tasks', nodes', outdated')
      BY <1>1, <1>4, ToldTells DEF Inv, IdInv, OwnInv, TellsInv
    <2>2. QED
      BY <1>1, <2>1 DEF TellsInv, pollVars
  <1>5. QED
    BY <1>2, <1>3, <1>4, RunnerStore

\* The invariant about what nodes tell is preserved.
LEMMA TellsNext ==
    ASSUME Inv, IdInv, SinceInv, TellsInv, [Next]_vars
    PROVE  TellsInv'
  <1>1. ASSUME NEW t \in TaskId, TimePasses(t)
        PROVE  TellsInv'
    <2>1. /\ SameTasks /\ UNCHANGED <<nodes, outdated, phase, seen>>
          /\ nodes \in [Node -> NodeRecord \cup {NoNode}]
          /\ seen \in [Node -> NodeRecord \cup {NoNode}]
      BY <1>1, TimeKeeps DEF Inv, TypeOK
    <2>2. QED
      BY <2>1, SameTells DEF Inv, TellsInv
  <1>2. CASE Crash
    BY <1>2 DEF Crash, store, TellsInv
  <1>3. CASE UNCHANGED vars
    BY <1>3 DEF vars, store, pollVars, outside, TellsInv
  <1>4. QED
    BY <1>1, <1>2, <1>3, UserTellsNext, PollTellsNext, RunnerTellsNext DEF Next

\* The invariant about nodes.
NodesInv == IdInv /\ SinceInv /\ TellsInv

\* At every moment of every execution the copies of the poll loop, of the
\* goroutines and of the browsers are about the node of their task, and the
\* records of the nodes that no edit from an outdated page took back tell how
\* their tasks ended (pollOnce, runProvisioningTask, SaveClusterNodeStatus,
\* SaveClusterNode).
THEOREM NodesInvariance == Spec => [](Inv /\ NodesInv)
  <1>1. Init => NodesInv
    BY DEF Init, NothingListed, NothingSeen, Idle, NodesInv, IdInv, KnownInv, OwnInv, KnownAll,
       OwnsAll, SinceInv, GoneInv, TimedInv, BeingTimedOut, TellsInv, TellsAll, NothingLoaded
  <1>2. Inv /\ NodesInv /\ [Next]_vars => (Inv /\ NodesInv)'
    BY Inductive, IdNext, SinceNext, TellsNext DEF NodesInv
  <1>3. QED
    BY <1>1, <1>2, InitInv, PTL DEF Spec

\* A node tells how its task ended, whatever else its other tasks did before,
\* unless an edit from an outdated page took it back since a task of the node was
\* last saved (SaveProvisioningTaskStatus with updateNodeProvisioningStatus,
\* against the saves of older copies in pollOnce and in SaveClusterNode).
THEOREM NodesTellTheTruth == Spec => []NodeTellsOfItsTask
  <1>1. Inv /\ NodesInv => NodeTellsOfItsTask
    BY DEF NodesInv, TellsInv, TellsAll, Tells, Ended, OthersSucceeded, NodeTellsOfItsTask
  <1>2. QED
    BY <1>1, NodesInvariance, PTL

(***************************************************************************)
(* A failed SGX step leaves K3s: what an uncancelled history knows of the  *)
(* tasks.                                                                  *)
(***************************************************************************)

\* A step is marked as failed only in a task that failed.
Uncancelled(task) ==
    /\ task.status # "cancelled"
    /\ task.status # "failed" => NoFailedStep(task)

\* So are the copies of tasks, and no step of a task that is being timed out is
\* marked as failed.
UncancelledInv ==
    /\ \A t \in TaskId : tasks[t] # NoTask => Uncancelled(tasks[t])
    /\ \A t \in TaskId : listed[t] # NoTask => Uncancelled(listed[t])
    /\ \A t \in TaskId : runner[t] # Idle => Uncancelled(runner[t].task)
    /\ \A t \in TaskId : BeingTimedOut(t) /\ tasks[t] # NoTask => NoFailedStep(tasks[t])

\* The copy of the node a goroutine is about to save after its SGX step failed.
EndKept(r) == r.pc \in {"endNode", "endTask"} /\ SgxFailed(r.task) => K3sKept(r.node)

\* So for every goroutine.
RunnersKept == \A t \in TaskId : EndKept(runner[t])

\* A retry leaves no step marked as failed.
LEMMA RestartedSteps ==
    ASSUME NEW steps \in [Step -> StepStatus]
    PROVE  \A s \in Step : Restarted(steps)[s] # "failed"
  BY DEF Restarted, Step, Preflight

\* A goroutine marks no step as failed but the one that failed its task, and
\* when that one is the SGX step the copy of the node says that K3s is there.
LEMMA RunnerUncancelled ==
    ASSUME Inv, NEW t \in TaskId, RunnerNext(t), Uncancelled(runner[t].task), EndKept(runner[t])
    PROVE  /\ runner'[t] # Idle => Uncancelled(runner'[t].task)
           /\ EndKept(runner'[t])
  <1> DEFINE r == runner[t]
  <1>1. /\ r # Idle /\ r.pc # "idle" /\ r.pc \in PcSet
        /\ r.task \in Task /\ r.step \in Step /\ r.node \in NodeRecord
        /\ r.task.steps \in [Step -> StepStatus]
    BY RunnerTask, RunnerType DEF Inv, PcSet
  <1>2. /\ r.pc = "start" => r.task.status = "pending"
        /\ r.pc \notin {"start", "endNode", "endTask"} => r.task.status = "running"
    BY <1>1, RunnerFacts DEF GoodRunner
  <1>3. r.pc \notin {"endNode", "endTask"} => NoFailedStep(r.task)
    BY <1>2 DEF Uncancelled
  <1>4. ASSUME NEW pc, NEW task, NEW node, NEW s, GoOn(t, pc, task, node, s)
        PROVE  runner'[t].pc = pc /\ runner'[t].task = task /\ runner'[t].node = node
    BY <1>4 DEF GoOn, Inv, TypeOK
  <1>5. CASE RunnerQuits(t) \/ RunnerEnds(t)
    BY <1>5 DEF RunnerQuits, RunnerEnds, Leave, Inv, TypeOK, EndKept, Idle
  <1>6. CASE RunnerStarts(t)
    BY <1>1, <1>3, <1>4, <1>6 DEF RunnerStarts, At, Task, Uncancelled, NoFailedStep, EndKept
  <1>7. CASE RunnerSavesNode(t)
    BY <1>1, <1>4, <1>7 DEF RunnerSavesNode, AfterNodeSave, EndKept
  <1>8. CASE RunnerSavesTask(t) \/ RunnerKeepsResult(t)
    BY <1>1, <1>4, <1>8 DEF RunnerSavesTask, RunnerKeepsResult, AfterTaskSave, EndKept
  <1>9. CASE RunnerBeginsStep(t)
    <2>1. PICK s \in Step :
             GoOn(t, "stepTask", [r.task EXCEPT !.steps[s] = "running", !.status = "running",
                                                !.aged = FALSE], r.node, s)
      BY <1>9 DEF RunnerBeginsStep
    <2>2. r.pc = "loop"
      BY <1>9 DEF RunnerBeginsStep, At
    <2>3. /\ runner'[t].task = [r.task EXCEPT !.steps[s] = "running", !.status = "running",
                                               !.aged = FALSE]
          /\ runner'[t].pc = "stepTask"
      BY <1>4, <2>1
    <2>4. /\ runner'[t].task.status = "running"
          /\ runner'[t].task.steps = [r.task.steps EXCEPT ![s] = "running"]
      BY <1>1, <2>3 DEF Task
    <2>5. NoFailedStep(runner'[t].task)
      BY <1>1, <1>3, <2>2, <2>4 DEF NoFailedStep
    <2>6. QED
      BY <2>3, <2>4, <2>5 DEF Uncancelled, EndKept
  <1>10. CASE RunnerCompletes(t)
    <2>1. /\ r.pc = "loop"
          /\ runner'[t].task = [r.task EXCEPT !.status = "succeeded", !.aged = FALSE]
      BY <1>4, <1>10 DEF RunnerCompletes, At
    <2>2. /\ runner'[t].task.status = "succeeded"
          /\ runner'[t].task.steps = r.task.steps
      BY <1>1, <2>1 DEF Task
    <2>3. QED
      BY <1>3, <2>1, <2>2 DEF Uncancelled, NoFailedStep, EndKept, SgxFailed
  <1>11. CASE StepSucceeds(t)
    <2>1. CASE Leave(t)
      BY <2>1 DEF Leave, Inv, TypeOK, EndKept, Idle
    <2>2. CASE ~Leave(t)
      <3>1. /\ r.pc = "exec"
            /\ runner'[t].pc = "okTask"
            /\ runner'[t].task = [r.task EXCEPT !.steps[r.step] = "succeeded", !.aged = FALSE]
        BY <1>4, <1>11, <2>2 DEF StepSucceeds, At
      <3>2. QED
        BY <1>1, <1>2, <1>3, <3>1 DEF Task, Uncancelled, NoFailedStep, EndKept
    <2>3. QED
      BY <2>1, <2>2
  <1>12. CASE StepFails(t)
    <2>1. /\ r.pc = "exec"
          /\ runner'[t].task = [r.task EXCEPT !.steps[r.step] = "failed", !.status = "failed",
                                              !.aged = FALSE]
          /\ runner'[t].node = FailedNode(r.node, r.step)
      BY <1>4, <1>12 DEF StepFails, At
    <2>2. runner'[t].task.status = "failed" /\ NoFailedStep(r.task)
      BY <1>1, <1>3, <2>1 DEF Task
    <2>3. CASE r.step = SgxInstall
      BY <1>1, <2>1, <2>2, <2>3 DEF FailedNode, NodeRecord, K3sKept, EndKept, Uncancelled
    <2>4. CASE r.step # SgxInstall
      <3>1. SgxInstall \in Step
        BY DEF SgxInstall, Step
      <3>2. runner'[t].task.steps[SgxInstall] # "failed"
        BY <1>1, <2>1, <2>2, <2>4, <3>1 DEF NoFailedStep, Task
      <3>3. QED
        BY <2>2, <3>2 DEF EndKept, SgxFailed, Uncancelled
    <2>5. QED
      BY <2>3, <2>4
  <1>13. CASE StepPanics(t)
    <2>1. /\ r.pc = "exec"
          /\ runner'[t].task = [r.task EXCEPT !.status = "failed", !.aged = FALSE]
      BY <1>4, <1>13 DEF StepPanics, At
    <2>2. /\ runner'[t].task.status = "failed"
          /\ runner'[t].task.steps[SgxInstall] # "failed"
      BY <1>1, <1>3, <2>1 DEF Task, NoFailedStep, SgxInstall, Step
    <2>3. QED
      BY <2>2 DEF EndKept, SgxFailed, Uncancelled
  <1>14. QED
    BY <1>5, <1>6, <1>7, <1>8, <1>9, <1>10, <1>11, <1>12, <1>13 DEF RunnerNext

\* Users leave a task as it is or, unless they cancel it, make it begin anew.
LEMMA UserUncancelled ==
    ASSUME Inv, UserNext, \A t \in TaskId : ~CancelProvisioningTask(t)
    PROVE  \A u \in TaskId : tasks'[u] # NoTask =>
              \/ tasks[u] # NoTask /\ tasks'[u] = tasks[u]
              \/ tasks'[u].status = "pending" /\ NoFailedStep(tasks'[u])
  <1>1. SUFFICES ASSUME NEW u \in TaskId, tasks'[u] # NoTask
                 PROVE  \/ tasks[u] # NoTask /\ tasks'[u] = tasks[u]
                        \/ tasks'[u].status = "pending" /\ NoFailedStep(tasks'[u])
    OBVIOUS
  <1>2. ASSUME NEW n \in Node, Edited(n) \/ DeleteClusterNode(n)
        PROVE  tasks'[u] = tasks[u]
    BY <1>1, <1>2 DEF Edited, Put, DeleteClusterNode
  <1>3. ASSUME NEW n \in Node, Registered(n), u # created'
        PROVE  tasks'[u] = tasks[u]
    BY <1>3 DEF Registered, Born
  <1>4. ASSUME NEW n \in Node, Registered(n), u = created'
        PROVE  tasks'[u].status = "pending" /\ NoFailedStep(tasks'[u])
    BY <1>4 DEF Registered, Born
  <1>5. ASSUME NEW t \in TaskId, Retried(t)
        PROVE  \/ tasks'[u] = tasks[u]
               \/ tasks'[u].status = "pending" /\ NoFailedStep(tasks'[u])
    <2>1. tasks[t].steps \in [Step -> StepStatus]
      BY <1>5 DEF Retried, Told, Inv, TypeOK, Task
    <2>2. QED
      BY <1>5, <2>1, RestartedSteps DEF Retried, Told, NoFailedStep
  <1>6. ASSUME NEW t \in TaskId, Cancelled(t)
        PROVE  FALSE
    BY <1>6 DEF Cancelled
  <1>7. CASE UNCHANGED store
    BY <1>1, <1>7 DEF store
  <1>8. QED
    BY <1>1, <1>2, <1>3, <1>4, <1>5, <1>6, <1>7, UserTells DEF Inv

\* The poll loop fails tasks in which no step had failed, and it only begins to
\* time out such a task.
LEMMA PollUncancelled ==
    ASSUME Inv, IdInv, UncancelledInv, PollNext
    PROVE  /\ \A t \in TaskId : tasks'[t] # NoTask => Uncancelled(tasks'[t])
           /\ \A t \in TaskId : BeingTimedOut(t)' /\ tasks'[t] # NoTask =>
                                   NoFailedStep(tasks'[t])
  <1>1. \A t \in TaskId : tasks'[t] # NoTask => Uncancelled(tasks'[t])
    <2>1. ASSUME NEW t \in TaskId, PollTold(t)
          PROVE  \A u \in TaskId : tasks'[u] # NoTask => Uncancelled(tasks'[u])
      BY <2>1 DEF PollTold, Told, UncancelledInv, Uncancelled
    <2>2. QED
      BY <2>1, PollStore DEF PollPut, Put, store, UncancelledInv
  <1>2. ASSUME NEW t \in TaskId, BeingTimedOut(t)', tasks'[t] # NoTask
        PROVE  NoFailedStep(tasks'[t])
    <2>1. PICK t0 \in TaskId : PollTimeout(t0)
      BY <1>2 DEF BeingTimedOut, PollNext, PollListTasks, PollListNodes, PollScanned,
         PollMetrics, PollDone, PollPass, PollTimeoutNode, PollMissingNode, PollSpawn,
         PollSaveMetrics
    <2>2. /\ listed' = listed /\ IsNextTask(t0) /\ phase = "scan"
          /\ listed[t0].status = "running" /\ listed[t0] # NoTask
      BY <1>2, <2>1 DEF PollTimeout, TimedOut, IsNextTask, BeingTimedOut
    <2>3. t = t0
      BY <1>2, <2>2, OneIsNext DEF BeingTimedOut, IsNextTask
    <2>4. NoFailedStep(listed[t0])
      BY <2>2 DEF UncancelledInv, Uncancelled
    <2>5. tasks[t0] # NoTask => NoFailedStep(tasks[t0])
      BY <2>2 DEF Inv, AloneInv, BeingTimedOut, UncancelledInv, Uncancelled, Ended
    <2>6. UNCHANGED tasks \/ Told(t0, "failed", listed[t0].steps)
      <3>1. /\ FailedCopy(t0) \in Task /\ FailedCopy(t0).status = "failed"
            /\ FailedCopy(t0).steps = listed[t0].steps
            /\ tasks[t0] # NoTask => FailedCopy(t0).node = tasks[t0].node
        BY <2>2, CopyType DEF Inv, IdInv, OwnInv, SameNode
      <3>2. QED
        BY <2>1, <3>1, SaveTaskTells DEF Inv, PollTimeout, store
    <2>7. QED
      BY <1>2, <2>3, <2>4, <2>5, <2>6 DEF Told, NoFailedStep
  <1>3. QED
    BY <1>1, <1>2

\* While nothing is cancelled all of that stays so.
LEMMA UncancelledNext ==
    ASSUME Inv, IdInv, UncancelledInv, RunnersKept, Next, NeverCancelled'
    PROVE  UncancelledInv' /\ RunnersKept'
  <1>1. \A t \in TaskId : ~CancelProvisioningTask(t)
    BY NeverCancelledBefore DEF Inv
  <1>2. /\ \A t \in TaskId : tasks'[t] # NoTask => Uncancelled(tasks'[t])
        /\ \A t \in TaskId : BeingTimedOut(t)' /\ tasks'[t] # NoTask => NoFailedStep(tasks'[t])
    <2>1. CASE UserNext
      <3>1. \A t \in TaskId : BeingTimedOut(t)' <=> BeingTimedOut(t)
        BY <2>1, UserTells DEF Inv, pollVars, BeingTimedOut, IsNextTask
      <3>2. QED
        BY <1>1, <2>1, <3>1, UserUncancelled DEF UncancelledInv, Uncancelled
    <2>2. ASSUME NEW t0 \in TaskId, RunnerNext(t0)
          PROVE  /\ \A t \in TaskId : tasks'[t] # NoTask => Uncancelled(tasks'[t])
                 /\ \A t \in TaskId : BeingTimedOut(t)' /\ tasks'[t] # NoTask =>
                                         NoFailedStep(tasks'[t])
      <3>1. UNCHANGED <<phase, listed>> /\ listed[t0] = NoTask /\ runner[t0] # Idle
        BY <2>2, RunnerStore DEF pollVars, Inv, AloneInv, EndedTasksAreAlone, Active
      <3>2. \A t \in TaskId \ {t0} : tasks'[t] = tasks[t]
        BY <2>2, RunnerStore DEF Told, Put, store
      <3>3. tasks'[t0] # NoTask => Uncancelled(tasks'[t0])
        BY <2>2, <3>1, RunnerStore
           DEF Told, Put, store, UncancelledInv, Uncancelled, NoFailedStep
      <3>4. \A t \in TaskId : /\ BeingTimedOut(t)' <=> BeingTimedOut(t)
                              /\ BeingTimedOut(t) => t # t0
        BY <3>1 DEF BeingTimedOut, IsNextTask
      <3>5. QED
        BY <3>2, <3>3, <3>4 DEF UncancelledInv
    <2>3. ASSUME NEW t0 \in TaskId, TimePasses(t0)
          PROVE  /\ \A t \in TaskId : tasks'[t] # NoTask => Uncancelled(tasks'[t])
                 /\ \A t \in TaskId : BeingTimedOut(t)' /\ tasks'[t] # NoTask =>
                                         NoFailedStep(tasks'[t])
      BY <2>3, TimeKeeps DEF SameTasks, UncancelledInv, Uncancelled, NoFailedStep
    <2>4. CASE Crash
      BY <2>4 DEF Crash, store, BeingTimedOut, UncancelledInv
    <2>5. QED
      BY <2>1, <2>2, <2>3, <2>4, PollUncancelled DEF Next
  <1>3. \A t \in TaskId : listed'[t] # NoTask => Uncancelled(listed'[t])
    <2>1. \A t \in TaskId : listed[t] # NoTask =>
             /\ Aged(listed[t]).status = listed[t].status
             /\ Aged(listed[t]).steps = listed[t].steps
      BY AgedType DEF Inv, TypeOK
    <2>2. \A t \in TaskId : Aged(listed[t]) = NoTask <=> listed[t] = NoTask
      BY AgedType DEF Inv, TypeOK
    <2>3. QED
      BY <2>1, <2>2, Origins DEF UncancelledInv, Uncancelled, NoFailedStep
  <1>4. ASSUME NEW t \in TaskId
        PROVE  (runner'[t] # Idle => Uncancelled(runner'[t].task)) /\ EndKept(runner'[t])
    <2>1. CASE runner'[t] \in {runner[t], Idle}
      BY <2>1 DEF UncancelledInv, RunnersKept, EndKept, Idle
    <2>2. CASE RunnerNext(t)
      BY <2>2, RunnerUncancelled, RunnerTask DEF UncancelledInv, RunnersKept
    <2>3. CASE PollNext
      BY <2>1, <2>3, PollCopies DEF UncancelledInv, EndKept
    <2>4. CASE UserNext
      BY <2>1, <2>4, UserTells DEF Inv
    <2>5. ASSUME NEW u \in TaskId, RunnerNext(u), u # t
          PROVE  runner'[t] = runner[t]
      BY <2>5, RunnerTask
    <2>6. QED
      BY <2>1, <2>2, <2>3, <2>4, <2>5 DEF Next, TimePasses, Crash
  <1>5. QED
    BY <1>2, <1>3, <1>4 DEF UncancelledInv, RunnersKept

(***************************************************************************)
(* An undisturbed history: every task there ever was is in the store, and  *)
(* every save of a node created one.                                       *)
(***************************************************************************)

\* Each task took a save of a node, and only a deletion removes tasks.
PresentInv ==
    /\ created <= used["save"]
    /\ used["delete"] = 0 => \A t \in TaskId : t <= created => tasks[t] # NoTask

\* Nothing that happened is forgotten.
LEMMA UsedGrows ==
    ASSUME TypeOK, [Next]_vars
    PROVE  /\ \A op \in Budgeted : used[op] \in Nat /\ used'[op] \in {used[op], used[op] + 1}
           /\ UserNext \/ (created' = created /\ used'["save"] = used["save"])
  <1>1. ASSUME NEW spent \in Budgeted, Spend(spent)
        PROVE  \A op \in Budgeted : used'[op] = IF op = spent THEN used[op] + 1 ELSE used[op]
    BY <1>1 DEF Spend, TypeOK
  <1>2. /\ used \in [Budgeted -> Nat]
        /\ Budgeted = {"save", "delete", "retry", "cancel", "crash", "storeError"}
    BY DEF TypeOK, Budgeted
  <1>3. CASE UserNext
    <2>1. used' = used \/ \E op \in Budgeted : Spend(op)
      BY <1>3 DEF UserNext, LoadPage, EditNode, SaveClusterNode, DeleteClusterNode,
         RetryProvisioningTask, CancelProvisioningTask, Budgeted
    <2>2. QED
      BY <1>1, <1>2, <1>3, <2>1
  <1>4. CASE PollNext \/ \E t \in TaskId : RunnerNext(t) \/ TimePasses(t)
    <2>1. used' = used \/ Spend("storeError")
      BY <1>4, ExecutorSpends
    <2>2. created' = created
      BY <1>4 DEF PollNext, PollListTasks, PollListNodes, PollScanned, PollMetrics, PollDone,
         PollPass, PollTimeout, PollTimeoutNode, PollMissingNode, PollSpawn, PollSaveMetrics,
         RunnerNext, RunnerQuits, RunnerStarts, RunnerBeginsStep, RunnerCompletes, StepSucceeds,
         StepFails, StepPanics, RunnerKeepsResult, RunnerSavesNode, RunnerSavesTask, RunnerEnds,
         TimePasses, SaveProvisioningTaskStatus, SaveClusterNodeStatus, StoreFails, store
    <2>3. QED
      BY <1>1, <1>2, <2>1, <2>2
  <1>5. CASE Crash
    BY <1>1, <1>2, <1>5 DEF Crash, store
  <1>6. CASE UNCHANGED vars
    BY <1>2, <1>6 DEF vars, store
  <1>7. QED
    BY <1>3, <1>4, <1>5, <1>6 DEF Next

\* A history that is undisturbed after a step was so before, and in it users
\* only register nodes and retry tasks.
LEMMA UndisturbedBefore ==
    ASSUME Inv, PresentInv, [Next]_vars, Undisturbed'
    PROVE  /\ Undisturbed
           /\ UserNext => \/ \E n \in Node : Registered(n)
                          \/ \E t \in TaskId : Retried(t)
                          \/ UNCHANGED store
  <1>1. /\ created \in Nat /\ used["save"] \in Nat /\ created <= used["save"]
        /\ \A op \in Budgeted : used[op] \in Nat /\ used'[op] \in {used[op], used[op] + 1}
    BY UsedGrows, ConstantsAssumption DEF Inv, TypeOK, Budgeted, PresentInv
  <1>2. /\ used["cancel"] = 0 /\ used["storeError"] = 0 /\ used["delete"] = 0
        /\ used'["cancel"] = 0 /\ used'["delete"] = 0 /\ used'["save"] = created'
    BY <1>1 DEF Undisturbed, NeverCancelled, Budgeted
  <1>3. ASSUME UserNext
        PROVE  /\ used["save"] = created
               /\ \/ \E n \in Node : Registered(n)
                  \/ \E t \in TaskId : Retried(t)
                  \/ UNCHANGED store
    <2>1. ASSUME NEW n \in Node, Edited(n)
          PROVE  FALSE
      BY <1>1, <1>2, <2>1 DEF Edited, Put
    <2>2. ASSUME NEW n \in Node, Registered(n)
          PROVE  used["save"] = created
      BY <1>1, <1>2, <2>2 DEF Registered, Born
    <2>3. ASSUME NEW n \in Node, DeleteClusterNode(n)
          PROVE  FALSE
      BY <1>1, <1>2, <2>3 DEF DeleteClusterNode, Spend, Inv, TypeOK, Budgeted
    <2>4. ASSUME NEW t \in TaskId, Retried(t)
          PROVE  used["save"] = created
      BY <1>2, <2>4 DEF Retried, Told
    <2>5. ASSUME NEW t \in TaskId, Cancelled(t)
          PROVE  FALSE
      BY <1>1, <1>2, <2>5 DEF Cancelled, CancelProvisioningTask, Spend, Inv, TypeOK, Budgeted
    <2>6. CASE UNCHANGED <<store, used>>
      BY <1>2, <2>6 DEF store
    <2>7. QED
      BY <1>3, <2>1, <2>2, <2>3, <2>4, <2>5, <2>6, UserTells DEF Inv
  <1>4. used["save"] = created
    BY <1>2, <1>3, UsedGrows DEF Inv
  <1>5. QED
    BY <1>2, <1>3, <1>4 DEF Undisturbed, NeverCancelled

\* No task is removed but by deleting its node.
LEMMA PresentNext ==
    ASSUME Inv, IdInv, PresentInv, [Next]_vars
    PROVE  PresentInv'
  <1>1. /\ created \in Nat /\ used["save"] \in Nat /\ created <= used["save"]
        /\ \A op \in Budgeted : used[op] \in Nat /\ used'[op] \in {used[op], used[op] + 1}
    BY UsedGrows, ConstantsAssumption DEF Inv, TypeOK, Budgeted, PresentInv
  <1>2. created' <= used'["save"]
    <2>1. CASE UserNext
      BY <1>1, <2>1, UserTells DEF Inv, Edited, Put, Registered, Born, DeleteClusterNode,
         Retried, Cancelled, Told, Budgeted, store
    <2>2. CASE ~UserNext
      BY <1>1, <2>2, UsedGrows DEF Inv
    <2>3. QED
      BY <2>1, <2>2
  <1>3. ASSUME used'["delete"] = 0
        PROVE  \A t \in TaskId : t <= created' => tasks'[t] # NoTask
    <2>1. \A t \in TaskId : t <= created => tasks[t] # NoTask
      BY <1>1, <1>3 DEF PresentInv, Budgeted
    <2>2. ASSUME NEW n \in Node, Registered(n)
          PROVE  \A t \in TaskId : t <= created' => tasks'[t] # NoTask
      BY <1>1, <2>1, <2>2 DEF Registered, Born, TaskId
    <2>3. ASSUME NEW n \in Node, DeleteClusterNode(n)
          PROVE  FALSE
      BY <1>1, <1>3, <2>3 DEF DeleteClusterNode, Spend, Inv, TypeOK, Budgeted
    <2>4. ASSUME created' = created, \A t \in TaskId : tasks[t] # NoTask => tasks'[t] # NoTask
          PROVE  \A t \in TaskId : t <= created' => tasks'[t] # NoTask
      BY <2>1, <2>4
    <2>5. CASE UserNext
      BY <2>2, <2>3, <2>4, <2>5, UserTells DEF Inv, Edited, Put, Retried, Cancelled, Told,
         store
    <2>6. CASE PollNext
      BY <2>4, <2>6, PollStore DEF PollTold, PollPut, Put, store, Told
    <2>7. ASSUME NEW t \in TaskId, RunnerNext(t)
          PROVE  \A u \in TaskId : u <= created' => tasks'[u] # NoTask
      BY <2>4, <2>7, RunnerStore DEF Put, store, Told
    <2>8. ASSUME NEW t \in TaskId, TimePasses(t)
          PROVE  \A u \in TaskId : u <= created' => tasks'[u] # NoTask
      BY <2>4, <2>8, TimeKeeps DEF SameTasks
    <2>9. CASE Crash \/ UNCHANGED vars
      BY <2>4, <2>9 DEF Crash, vars, store
    <2>10. QED
      BY <2>5, <2>6, <2>7, <2>8, <2>9 DEF Next
  <1>4. QED
    BY <1>2, <1>3 DEF PresentInv

(***************************************************************************)
(* In an undisturbed history the store keeps K3s.                          *)
(***************************************************************************)

\* The copy of n's record, if there is one, keeps K3s.
KeptAt(copies, n) == copies[n] # NoNode => K3sKept(copies[n])

\* The node of a task that failed in its SGX step, and the copy of it that the
\* metrics may still be saved to, keep K3s; so does the node when the failure
\* of the task is the next thing its goroutine saves.
KeptTask(t) ==
    tasks[t] # NoTask /\ OnlyTask(t) =>
        /\ runner[t].pc = "endTask" /\ SgxFailed(runner[t].task) => KeptAt(nodes, tasks[t].node)
        /\ SgxFailed(tasks[t]) =>
              /\ KeptAt(nodes, tasks[t].node)
              /\ phase = "metrics" => KeptAt(seen, tasks[t].node)

\* So for every task.
StoreKept == \A t \in TaskId : KeptTask(t)

\* Every task stays there and stays with its node.
SameOwners ==
    \A u \in TaskId : /\ tasks'[u] = NoTask <=> tasks[u] = NoTask
                      /\ tasks[u] # NoTask => tasks'[u].node = tasks[u].node

\* A task that is its node's only one was so before.
LEMMA SameOnly ==
    ASSUME SameOwners, NEW t \in TaskId, tasks'[t] # NoTask, OnlyTask(t)'
    PROVE  OnlyTask(t)
  BY DEF SameOwners, OnlyTask

\* A step that leaves a task, its node and its goroutine alone.
LEMMA Untouched ==
    ASSUME NEW t \in TaskId, KeptTask(t), OnlyTask(t), tasks[t] # NoTask,
           tasks'[t] = tasks[t], nodes'[tasks[t].node] = nodes[tasks[t].node],
           runner'[t] = runner[t] \/ runner'[t].pc # "endTask",
           phase' = "metrics" =>
              \/ phase = "metrics" /\ seen'[tasks[t].node] \in {seen[tasks[t].node], NoNode}
              \/ seen' = nodes
    PROVE  KeptTask(t)'
  BY DEF KeptTask, KeptAt, SgxFailed

\* A new task is the only one of a node that just got its first.
LEMMA RegisteredKept ==
    ASSUME Inv, IdInv, StoreKept, NEW n \in Node, Registered(n), UNCHANGED <<pollVars, runner>>
    PROVE  StoreKept'
  <1>1. PICK new \in TaskId : new = created' /\ new > created /\ tasks[new] = NoTask
    BY ConstantsAssumption DEF Registered, Born, Inv, TypeOK, AloneInv
  <1>2. KeptTask(new)'
    <2>1. runner'[new].pc # "endTask"
      BY <1>1 DEF IdInv, KnownInv, Idle
    <2>2. ~SgxFailed(tasks'[new])
      BY <1>1 DEF Registered, Born, SgxFailed
    <2>3. QED
      BY <2>1, <2>2 DEF KeptTask
  <1>3. ASSUME NEW t \in TaskId \ {new}, tasks'[t] # NoTask, OnlyTask(t)'
        PROVE  KeptTask(t)'
    <2>1. tasks'[t] = tasks[t] /\ tasks[t] # NoTask /\ tasks[t].node \in Node
      <3>1. tasks'[t] = tasks[t]
        BY <1>1, <1>3 DEF Registered, Born
      <3>2. tasks[t] # NoTask
        BY <1>3, <3>1
      <3>3. QED
        BY <3>1, <3>2 DEF Inv, TypeOK, Task
    <2>2. tasks[t].node # n
      BY <1>1, <1>3, <2>1 DEF Registered, Born, OnlyTask
    <2>3. OnlyTask(t)
      BY <1>1, <1>3, <2>1 DEF Registered, Born, OnlyTask
    <2>4. nodes'[tasks[t].node] = nodes[tasks[t].node]
      BY <2>1, <2>2 DEF Registered, Born
    <2>5. QED
      BY <2>1, <2>3, <2>4, Untouched DEF StoreKept, pollVars
  <1>4. \A t \in TaskId \ {new} : KeptTask(t)'
    BY <1>3 DEF KeptTask
  <1>5. QED
    BY <1>2, <1>4 DEF StoreKept

\* A step that tells of a task disturbs only that task.
LEMMA ToldKept ==
    ASSUME Inv, StoreKept, NEW t0 \in TaskId, NEW status \in TaskStatus, NEW steps,
           Told(t0, status, steps), KeptTask(t0)', phase' # "metrics" \/ UNCHANGED pollVars,
           \A t \in TaskId \ {t0} : runner'[t] = runner[t]
    PROVE  StoreKept'
  <1>1. SameOwners
    BY DEF Told, SameOwners
  <1>2. ASSUME NEW t \in TaskId \ {t0}, tasks'[t] # NoTask, OnlyTask(t)'
        PROVE  KeptTask(t)'
    <2>1. tasks'[t] = tasks[t] /\ tasks[t] # NoTask /\ tasks[t].node \in Node
      BY <1>2 DEF Told, Inv, TypeOK, Task
    <2>2. OnlyTask(t)
      BY <1>1, <1>2, SameOnly
    <2>3. tasks[t].node # tasks[t0].node
      BY <2>1, <2>2 DEF OnlyTask, Told
    <2>4. nodes'[tasks[t].node] = nodes[tasks[t].node]
      BY <2>1, <2>3, ToldNodes DEF Inv
    <2>5. QED
      BY <2>1, <2>2, <2>4, Untouched DEF StoreKept, pollVars
  <1>3. \A t \in TaskId \ {t0} : KeptTask(t)'
    BY <1>2 DEF KeptTask
  <1>4. QED
    BY <1>3 DEF StoreKept

\* In an undisturbed history a listed task and the task of a goroutine are there.
LEMMA StillThere ==
    ASSUME Inv, IdInv, PresentInv, Undisturbed, NEW t \in TaskId,
           listed[t] # NoTask \/ runner[t] # Idle
    PROVE  /\ tasks[t] # NoTask
           /\ listed[t] # NoTask => tasks[t].node = listed[t].node
           /\ runner[t] # Idle => tasks[t].node = runner[t].task.node
  <1>1. created \in Nat /\ t \in Nat /\ ~(t > created)
    BY ConstantsAssumption DEF Inv, TypeOK, TaskId, IdInv, KnownInv
  <1>2. tasks[t] # NoTask
    BY <1>1 DEF PresentInv, Undisturbed
  <1>3. QED
    BY <1>2 DEF IdInv, OwnInv, SameNode

\* A step that replaces a node's record disturbs only the task of the node.
LEMMA PutKept ==
    ASSUME Inv, StoreKept, NEW n \in Node, NEW node, Put(n, node),
           \A t \in TaskId : runner'[t] = runner[t] \/ runner'[t].pc # "endTask"
                                \/ tasks[t].node = n,
           phase' = "metrics" =>
              phase = "metrics" /\ \A m \in Node : seen'[m] \in {seen[m], NoNode},
           \A t \in TaskId : tasks[t] # NoTask /\ tasks[t].node = n /\ OnlyTask(t) => KeptTask(t)'
    PROVE  StoreKept'
  <1>1. /\ tasks' = tasks
        /\ \A m \in Node \ {n} : nodes'[m] = nodes[m]
    BY DEF Put, Inv, TypeOK
  <1>2. ASSUME NEW t \in TaskId, tasks[t] # NoTask, OnlyTask(t), tasks[t].node # n
        PROVE  KeptTask(t)'
    <2>1. tasks[t].node \in Node
      BY <1>2 DEF Inv, TypeOK, Task
    <2>2. QED
      BY <1>1, <1>2, <2>1, Untouched DEF StoreKept
  <1>3. ASSUME NEW t \in TaskId, tasks'[t] # NoTask, OnlyTask(t)'
        PROVE  KeptTask(t)'
    <2>1. tasks[t] # NoTask /\ OnlyTask(t)
      BY <1>1, <1>3 DEF OnlyTask
    <2>2. QED
      BY <1>2, <2>1
  <1>4. \A t \in TaskId : KeptTask(t)'
    BY <1>3 DEF KeptTask
  <1>5. QED
    BY <1>4 DEF StoreKept

\* A step that leaves the store alone.
LEMMA SameStoreKept ==
    ASSUME Inv, StoreKept, UNCHANGED store,
           \A t \in TaskId : runner'[t] = runner[t] \/ runner'[t].pc # "endTask",
           phase' = "metrics" =>
              \/ phase = "metrics" /\ \A m \in Node : seen'[m] \in {seen[m], NoNode}
              \/ seen' = nodes
    PROVE  StoreKept'
  <1>1. ASSUME NEW t \in TaskId, tasks'[t] # NoTask, OnlyTask(t)'
        PROVE  KeptTask(t)'
    <2>1. tasks[t] # NoTask /\ OnlyTask(t) /\ tasks[t].node \in Node
      BY <1>1 DEF store, OnlyTask, Inv, TypeOK, Task
    <2>2. QED
      BY <2>1, Untouched DEF StoreKept, store
  <1>2. \A t \in TaskId : KeptTask(t)'
    BY <1>1 DEF KeptTask
  <1>3. QED
    BY <1>2 DEF StoreKept

\* The users' steps keep K3s: in such a history they only register and retry.
LEMMA UserKept ==
    ASSUME Inv, IdInv, PresentInv, UncancelledInv, StoreKept, UserNext, Undisturbed'
    PROVE  StoreKept'
  <1>1. /\ UNCHANGED <<pollVars, runner>>
        /\ \/ \E n \in Node : Registered(n)
           \/ \E t \in TaskId : Retried(t)
           \/ UNCHANGED store
    BY UndisturbedBefore, UserTells DEF Inv, Next
  <1>2. ASSUME NEW t \in TaskId, Retried(t)
        PROVE  StoreKept'
    <2>1. tasks[t].status = "failed" /\ tasks'[t].status = "pending"
      BY <1>2 DEF Retried, Told, UncancelledInv, Uncancelled
    <2>2. tasks[t] # NoTask /\ runner[t] = Idle
      BY <1>2, <2>1 DEF Retried, Told, Inv, AloneInv, EndedTasksAreAlone, Active
    <2>3. KeptTask(t)'
      BY <1>1, <2>1, <2>2 DEF KeptTask, SgxFailed, Idle
    <2>4. QED
      BY <1>1, <1>2, <2>3, ToldKept DEF Retried, TaskStatus
  <1>3. CASE UNCHANGED store
    BY <1>1, <1>3, SameStoreKept DEF pollVars
  <1>4. QED
    BY <1>1, <1>2, <1>3, RegisteredKept

\* The poll loop's steps keep K3s: it fails no task in its SGX step, and saves
\* the metrics to copies that keep it.
LEMMA PollKept ==
    ASSUME Inv, IdInv, PresentInv, UncancelledInv, StoreKept, PollNext, Undisturbed
    PROVE  StoreKept'
  <1>1. \A t \in TaskId : runner'[t] = runner[t] \/ runner'[t].pc # "endTask"
    BY PollCopies
  <1>2. phase' = "metrics" =>
           \/ phase = "metrics" /\ \A n \in Node : seen'[n] \in {seen[n], NoNode}
           \/ UNCHANGED store /\ seen' = nodes
    BY DEF PollNext, PollListTasks, PollListNodes, PollScanned, PollMetrics, PollDone, PollPass,
       PollTimeout, PollTimeoutNode, PollMissingNode, PollSpawn, PollSaveMetrics, Inv, TypeOK
  <1>3. CASE UNCHANGED store
    BY <1>1, <1>2, <1>3, SameStoreKept
  <1>4. ASSUME NEW t \in TaskId, PollTold(t)
        PROVE  StoreKept'
    <2>1. /\ listed[t] # NoTask /\ listed[t].status \in {"pending", "running"}
          /\ phase' # "metrics" /\ UNCHANGED runner
          /\ Told(t, "failed", listed[t].steps)
      BY <1>4 DEF PollTold, PollTimeout, PollMissingNode, TimedOut
    <2>2. runner[t] = Idle /\ NoFailedStep(listed[t])
      BY <2>1, ListedGood DEF Active, UncancelledInv, Uncancelled
    <2>3. ~SgxFailed(tasks'[t]) /\ runner'[t].pc # "endTask"
      BY <2>1, <2>2 DEF Told, SgxFailed, NoFailedStep, SgxInstall, Step, Idle
    <2>4. KeptTask(t)'
      BY <2>3 DEF KeptTask
    <2>5. QED
      BY <2>1, <2>4, ToldKept DEF TaskStatus
  <1>5. ASSUME NEW n \in Node, NEW t \in TaskId, PollTimeoutNode(t), listed[t].node = n,
               NEW node, Put(n, node)
        PROVE  StoreKept'
    <2>1. BeingTimedOut(t) /\ listed[t] # NoTask /\ phase' # "metrics" /\ UNCHANGED runner
      BY <1>5 DEF PollTimeoutNode, BeingTimedOut, IsNextTask
    <2>2. /\ runner[t] = Idle /\ tasks[t] # NoTask /\ tasks[t].node = n
          /\ NoFailedStep(tasks[t])
      BY <1>5, <2>1, ListedGood, StillThere DEF Active, UncancelledInv
    <2>3. ASSUME NEW u \in TaskId, tasks[u] # NoTask, tasks[u].node = n, OnlyTask(u)
          PROVE  KeptTask(u)'
      <3>1. u = t
        BY <2>2, <2>3 DEF OnlyTask
      <3>2. ~SgxFailed(tasks'[u]) /\ runner'[u].pc # "endTask"
        BY <1>5, <2>1, <2>2, <3>1 DEF Put, SgxFailed, NoFailedStep, SgxInstall, Step, Idle
      <3>3. QED
        BY <3>2 DEF KeptTask
    <2>4. QED
      BY <1>5, <2>1, <2>3, PutKept
  <1>6. ASSUME NEW n \in Node, seen[n] # NoNode, PollSaveMetrics(n),
               NEW node \in {seen[n], [seen[n] EXCEPT !.status = "unreachable"]},
               Put(n, node)
        PROVE  StoreKept'
    <2>1. phase = "metrics" /\ phase' = "metrics" /\ UNCHANGED runner
      BY <1>6 DEF PollSaveMetrics
    <2>2. \A m \in Node : seen'[m] \in {seen[m], NoNode}
      BY <1>6 DEF PollSaveMetrics, Inv, TypeOK
    <2>3. K3sKept(seen[n]) => K3sKept(node)
      BY <1>6 DEF Inv, TypeOK, NodeRecord, K3sKept
    <2>4. ASSUME NEW u \in TaskId, tasks[u] # NoTask, tasks[u].node = n, OnlyTask(u)
          PROVE  KeptTask(u)'
      <3>1. runner'[u].pc # "endTask"
        BY <2>1 DEF Inv, AloneInv, EndedTasksAreAlone, Active, Idle
      <3>2. tasks' = tasks /\ nodes'[n] = node
        BY <1>6 DEF Put, Inv, TypeOK
      <3>3. SgxFailed(tasks[u]) => KeptAt(seen, n)
        BY <2>1, <2>4 DEF StoreKept, KeptTask
      <3>4. SgxFailed(tasks[u]) => KeptAt(nodes', n) /\ KeptAt(seen', n)
        BY <1>6, <2>2, <2>3, <3>2, <3>3 DEF KeptAt
      <3>5. QED
        BY <2>4, <3>1, <3>2, <3>4 DEF KeptTask, KeptAt
    <2>5. QED
      BY <1>6, <2>1, <2>2, <2>4, PutKept
  <1>7. QED
    BY <1>3, <1>4, <1>5, <1>6, PollStore DEF PollPut

\* So do a goroutine's: it saves its copy of the node before it saves that the
\* task failed.
LEMMA RunnerKept ==
    ASSUME Inv, IdInv, PresentInv, RunnersKept, StoreKept, Undisturbed, Undisturbed',
           NEW t \in TaskId, RunnerNext(t)
    PROVE  StoreKept'
  <1> DEFINE r == runner[t]
             n == r.task.node
  <1>1. /\ UNCHANGED pollVars /\ r # Idle /\ n \in Node /\ phase # "metrics"
        /\ r.task.status \in TaskStatus
        /\ \A u \in TaskId \ {t} : runner'[u] = runner[u]
        /\ tasks[t] # NoTask /\ ~SgxFailed(tasks[t]) /\ tasks[t].node = n
    BY RunnerStore, RunnerTask, RunnerType, StillThere
       DEF Inv, AloneInv, EndedTasksAreAlone, Active, SgxFailed, Task
  <1>2. r.pc \notin {"start", "endNode", "endTask", "idle"} => r.task.status = "running"
    BY <1>1, RunnerFacts DEF GoodRunner
  <1>3. runner'[t].pc = "endTask" =>
           /\ r.pc = "endNode" /\ runner'[t].task = r.task
           /\ SaveClusterNodeStatus(n, r.node)
    <2>1. ASSUME NEW pc, NEW task, NEW node, NEW s, GoOn(t, pc, task, node, s)
          PROVE  runner'[t].pc = pc /\ runner'[t].task = task
      BY <2>1 DEF GoOn, Inv, TypeOK
    <2>2. Leave(t) => runner'[t].pc # "endTask"
      BY DEF Leave, Inv, TypeOK, Idle
    <2>3. CASE RunnerSavesNode(t)
      BY <2>1, <2>3 DEF RunnerSavesNode, AfterNodeSave
    <2>4. CASE RunnerSavesTask(t)
      BY <2>1, <2>4 DEF RunnerSavesTask, AfterTaskSave
    <2>5. CASE RunnerBeginsStep(t)
      BY <2>1, <2>5 DEF RunnerBeginsStep
    <2>6. CASE StepSucceeds(t) \/ StepFails(t) \/ StepPanics(t)
      BY <2>1, <2>2, <2>6 DEF StepSucceeds, StepFails, StepPanics
    <2>7. CASE RunnerStarts(t) \/ RunnerCompletes(t) \/ RunnerKeepsResult(t)
      BY <2>1, <2>7 DEF RunnerStarts, RunnerCompletes, RunnerKeepsResult
    <2>8. CASE RunnerQuits(t) \/ RunnerEnds(t)
      BY <2>2, <2>8 DEF RunnerQuits, RunnerEnds
    <2>9. QED
      BY <2>3, <2>4, <2>5, <2>6, <2>7, <2>8 DEF RunnerNext
  <1>4. \A u \in TaskId : tasks[u] # NoTask /\ tasks[u].node = n /\ OnlyTask(u) => u = t
    BY <1>1 DEF OnlyTask
  <1>5. CASE UNCHANGED store
    <2>1. runner'[t].pc = "endTask" => KeptAt(nodes, n) \/ Put(n, r.node)
      BY <1>1, <1>3, SaveNodePuts DEF Inv, Undisturbed, KeptAt
    <2>2. CASE runner'[t].pc # "endTask"
      BY <1>1, <1>5, <2>2, SameStoreKept DEF pollVars
    <2>3. CASE runner'[t].pc = "endTask" /\ KeptAt(nodes, n)
      <3>1. KeptTask(t)'
        BY <1>1, <1>5, <2>3 DEF KeptTask, KeptAt, store
      <3>2. nodes' = [nodes EXCEPT ![n] = nodes[n]]
        BY <1>1, <1>5 DEF store, Inv, TypeOK
      <3>3. Put(n, nodes[n])
        BY <1>5, <3>2 DEF Put, store
      <3>4. QED
        BY <1>1, <1>4, <3>1, <3>3, PutKept DEF pollVars
    <2>4. CASE runner'[t].pc = "endTask" /\ Put(n, r.node)
      <3>1. SgxFailed(r.task) => K3sKept(r.node)
        BY <1>3, <2>4 DEF RunnersKept, EndKept
      <3>2. KeptTask(t)'
        BY <1>1, <1>3, <2>4, <3>1 DEF KeptTask, KeptAt, Put, Inv, TypeOK
      <3>3. QED
        BY <1>1, <1>4, <2>4, <3>2, PutKept DEF pollVars
    <2>5. QED
      BY <2>1, <2>2, <2>3, <2>4
  <1>6. CASE Put(n, r.node)
    <2>1. SgxFailed(r.task) /\ runner'[t].pc = "endTask" => K3sKept(r.node)
      BY <1>3 DEF RunnersKept, EndKept
    <2>2. KeptTask(t)'
      BY <1>1, <1>3, <1>6, <2>1 DEF KeptTask, KeptAt, Put, Inv, TypeOK
    <2>3. QED
      BY <1>1, <1>4, <1>6, <2>2, PutKept DEF pollVars
  <1>7. CASE /\ Told(t, r.task.status, r.task.steps)
             /\ r.pc \in {"startTask", "stepTask", "okTask", "endTask"}
    <2>1. runner'[t].pc # "endTask"
      BY <1>3, <1>7
    <2>2. SgxFailed(tasks'[t]) => r.pc = "endTask" /\ SgxFailed(r.task)
      BY <1>2, <1>7 DEF Told, SgxFailed
    <2>3. OnlyTask(t)' => OnlyTask(t)
      BY <1>7, SameOnly DEF Told, SameOwners
    <2>4. ASSUME SgxFailed(tasks'[t]), OnlyTask(t)'
          PROVE  KeptAt(nodes', n)
      <3>1. KeptAt(nodes, n) /\ r.task.status = "failed"
        BY <1>1, <2>2, <2>3, <2>4 DEF StoreKept, KeptTask, SgxFailed
      <3>2. /\ nodes'[n] = NoNode <=> nodes[n] = NoNode
            /\ nodes[n] # NoNode => /\ nodes'[n].status = nodes[n].status
                                    /\ nodes'[n].runtime = nodes[n].runtime
        BY <1>1, <1>7, <3>1, ToldNodes DEF Inv
      <3>3. QED
        BY <3>1, <3>2 DEF KeptAt, K3sKept
    <2>5. KeptTask(t)'
      BY <1>1, <1>7, <2>1, <2>4 DEF KeptTask, KeptAt, Told, pollVars
    <2>6. QED
      BY <1>1, <1>7, <2>5, ToldKept
  <1>8. QED
    BY <1>5, <1>6, <1>7, RunnerStore

\* The invariant: what an uncancelled history knows of the tasks, and what an
\* undisturbed one knows of the nodes.
SgxInv ==
    /\ PresentInv
    /\ NeverCancelled => UncancelledInv /\ RunnersKept
    /\ Undisturbed => StoreKept

\* This invariant is preserved.
LEMMA SgxNext ==
    ASSUME Inv, IdInv, SgxInv, [Next]_vars
    PROVE  SgxInv'
  <1>1. PresentInv'
    BY PresentNext DEF SgxInv
  <1>2. CASE UNCHANGED vars
    BY <1>2 DEF vars, store, pollVars, outside, SgxInv, PresentInv, NeverCancelled, UncancelledInv,
       BeingTimedOut, IsNextTask, RunnersKept, Undisturbed, StoreKept, KeptTask, OnlyTask
  <1>3. ASSUME Next, NeverCancelled'
        PROVE  UncancelledInv' /\ RunnersKept'
    BY <1>3, NeverCancelledBefore, UncancelledNext DEF Inv, SgxInv
  <1>4. ASSUME Next, Undisturbed'
        PROVE  StoreKept'
    <2>1. Undisturbed /\ UncancelledInv /\ RunnersKept /\ StoreKept /\ PresentInv
      BY <1>4, UndisturbedBefore DEF SgxInv, Undisturbed
    <2>2. ASSUME NEW t \in TaskId, TimePasses(t)
          PROVE  StoreKept'
      <3>1. SameTasks /\ UNCHANGED <<nodes, phase, seen, runner>>
        BY <2>2, TimeKeeps
      <3>2. \A u \in TaskId : OnlyTask(u)' /\ tasks'[u] # NoTask => OnlyTask(u)
        BY <3>1 DEF SameTasks, OnlyTask
      <3>3. \A u \in TaskId : tasks'[u] # NoTask => (SgxFailed(tasks'[u]) <=> SgxFailed(tasks[u]))
        BY <3>1 DEF SameTasks, SgxFailed
      <3>4. QED
        BY <2>1, <3>1, <3>2, <3>3 DEF SameTasks, StoreKept, KeptTask, KeptAt
    <2>3. CASE Crash
      <3>1. UNCHANGED store /\ phase' = "idle" /\ \A t \in TaskId : runner'[t].pc # "endTask"
        BY <2>3 DEF Crash, Idle
      <3>2. QED
        BY <2>1, <3>1, SameStoreKept
    <2>4. QED
      BY <1>4, <2>1, <2>2, <2>3, UserKept, PollKept, RunnerKept DEF Next
  <1>5. QED
    BY <1>1, <1>2, <1>3, <1>4 DEF SgxInv

\* At every moment of every execution the invariants hold together: copies and
\* nodes agree with their tasks, and what a history without cancellations, edits,
\* deletions and lost writes guarantees of a failed SGX step (runProvisioningTask).
THEOREM SgxInvariance == Spec => [](Inv /\ NodesInv /\ SgxInv)
  <1>1. Init => SgxInv
    BY ConstantsAssumption DEF Init, NothingListed, NothingSeen, Idle, Budgeted, SgxInv,
       PresentInv, UncancelledInv, BeingTimedOut, RunnersKept, EndKept, StoreKept, KeptTask,
       TaskId
  <1>2. Inv /\ NodesInv /\ SgxInv /\ [Next]_vars => SgxInv'
    BY SgxNext DEF NodesInv
  <1>3. QED
    BY <1>1, <1>2, NodesInvariance, PTL DEF Spec

\* When a task failed in its SGX step, its node keeps K3s (runProvisioningTask,
\* which saves the node before the task, and updateNodeProvisioningStatus).
THEOREM SgxFailureLeavesK3s == Spec => []SGXFailureKeepsK3s
  <1>1. SgxInv => SGXFailureKeepsK3s
    BY DEF SgxInv, StoreKept, KeptTask, KeptAt, SGXFailureKeepsK3s
  <1>2. QED
    BY <1>1, SgxInvariance, PTL

(***************************************************************************)
(* One task at a time, as long as nothing is retried.                      *)
(***************************************************************************)

\* No user asked for a task to be done again.
NeverRetried == used["retry"] = 0

\* Pending and running tasks count as unfinished.
OneUnfinished == \A n \in Node : \A t, u \in Unfinished(n) : t = u

\* A step that begins no task anew leaves no more of them unfinished.
LEMMA FewerUnfinished ==
    ASSUME OneUnfinished,
           \A t \in TaskId : InFlight(t)' => InFlight(t) /\ tasks'[t].node = tasks[t].node
    PROVE  OneUnfinished'
  BY DEF OneUnfinished, Unfinished, InFlight

\* Only the creation of a task begins one, for a node that has none unfinished.
LEMMA UnfinishedNext ==
    ASSUME Inv, IdInv, NeverRetried => OneUnfinished, [Next]_vars, NeverRetried'
    PROVE  OneUnfinished'
  <1>1. used["retry"] = 0 /\ used'["retry"] = 0
    BY UsedGrows DEF Inv, Budgeted, NeverRetried
  <1>2. OneUnfinished
    BY <1>1 DEF NeverRetried
  <1>3. ASSUME NEW n \in Node, Registered(n)
        PROVE  OneUnfinished'
    <2>1. \A t \in TaskId \ {created'} : tasks'[t] = tasks[t]
      BY <1>3 DEF Registered, Born
    <2>2. Unfinished(n) = {} /\ tasks'[created'].node = n
      BY <1>3 DEF Registered, Born
    <2>3. QED
      BY <1>2, <2>1, <2>2 DEF OneUnfinished, Unfinished
  <1>4. ASSUME NEW t \in TaskId, NEW status, NEW steps, Told(t, status, steps),
               InFlight(t) \/ status \notin {"pending", "running"}
        PROVE  OneUnfinished'
    BY <1>2, <1>4, FewerUnfinished DEF Told, InFlight
  <1>5. CASE UserNext
    <2>1. ASSUME NEW n \in Node, Edited(n) \/ DeleteClusterNode(n)
          PROVE  OneUnfinished'
      BY <1>2, <2>1, FewerUnfinished DEF Edited, Put, DeleteClusterNode, InFlight
    <2>2. ASSUME NEW t \in TaskId, Cancelled(t)
          PROVE  OneUnfinished'
      BY <1>4, <2>2 DEF Cancelled
    <2>3. ASSUME NEW t \in TaskId, Retried(t)
          PROVE  FALSE
      BY <1>1, <2>3 DEF Retried
    <2>4. CASE UNCHANGED store
      BY <1>2, <2>4 DEF store, OneUnfinished, Unfinished
    <2>5. QED
      BY <1>3, <1>5, <2>1, <2>2, <2>3, <2>4, UserTells DEF Inv
  <1>6. CASE PollNext
    <2>1. ASSUME NEW t \in TaskId, PollTold(t)
          PROVE  OneUnfinished'
      BY <1>4, <2>1 DEF PollTold
    <2>2. CASE UNCHANGED tasks
      BY <1>2, <2>2 DEF OneUnfinished, Unfinished
    <2>3. QED
      BY <1>6, <2>1, <2>2, PollStore DEF PollPut, Put, store
  <1>7. ASSUME NEW t \in TaskId, RunnerNext(t)
        PROVE  OneUnfinished'
    <2>1. CASE UNCHANGED tasks
      BY <1>2, <2>1 DEF OneUnfinished, Unfinished
    <2>2. CASE /\ Told(t, runner[t].task.status, runner[t].task.steps)
               /\ runner[t].pc \in {"startTask", "stepTask", "okTask", "endTask"}
      <3>1. /\ runner[t].task.status \in {"running", "succeeded", "failed"}
            /\ tasks[t] # NoTask => ~Ended(tasks[t])
        BY <2>2, RunnerFacts DEF GoodRunner
      <3>2. tasks[t] # NoTask /\ tasks[t].status \in TaskStatus /\ tasks[t].status # "cancelled"
        BY <2>2, <3>1 DEF Told, Inv, TypeOK, Task
      <3>3. InFlight(t)
        BY <3>1, <3>2 DEF InFlight, Ended, TaskStatus
      <3>4. QED
        BY <1>4, <2>2, <3>3
    <2>3. QED
      BY <1>7, <2>1, <2>2, RunnerStore DEF Put, store
  <1>8. ASSUME NEW t \in TaskId, TimePasses(t)
        PROVE  OneUnfinished'
    BY <1>2, <1>8, TimeKeeps, FewerUnfinished DEF SameTasks, InFlight
  <1>9. CASE Crash \/ UNCHANGED vars
    BY <1>2, <1>9 DEF Crash, vars, store, OneUnfinished, Unfinished
  <1>10. QED
    BY <1>5, <1>6, <1>7, <1>8, <1>9 DEF Next

\* As long as no task is retried a node has at most one task that is pending or
\* running, so at most one that is running (design.md, correctness property 3;
\* createProvisioningTaskInSnapshot looks for unfinished tasks of the node, while
\* RetryProvisioningTask does not).
THEOREM OneTaskAtATime == Spec => [](NeverRetried => OneUnfinished /\ OneRunningTaskPerNode)
  <1>1. Init => OneUnfinished
    BY DEF Init, NothingListed, OneUnfinished, Unfinished
  <1>2. /\ Inv /\ NodesInv /\ (NeverRetried => OneUnfinished) /\ [Next]_vars
        => (NeverRetried => OneUnfinished)'
    BY UnfinishedNext DEF NodesInv
  <1>3. Inv /\ OneUnfinished => OneRunningTaskPerNode
    BY DEF Inv, TypeOK, Task, OneUnfinished, Unfinished, OneRunningTaskPerNode
  <1>4. QED
    BY <1>1, <1>2, <1>3, NodesInvariance, PTL DEF Spec
===============================================================================
