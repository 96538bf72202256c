------------------------- MODULE ProvisioningResults -------------------------
(***************************************************************************)
(* What an uncancelled history guarantees: a task that succeeded did all   *)
(* of its steps, and a node that is ready has K3s.  Both rest on every     *)
(* copy of a task and of a node, not on the store's alone.                 *)
(***************************************************************************)
EXTENDS ProvisioningProofs

(***************************************************************************)
(* The invariant.                                                          *)
(***************************************************************************)

\* No step was skipped, and installing K3s is one of the steps.
Unskipped(task) ==
    /\ \A s \in Step : task.steps[s] # "skipped"
    /\ task.steps[K3sInstall] # "absent"

\* A copy of n's record calls it ready only if K3s was installed there.
Honest(node, n, done) == node.status = "ready" => K3sInstall \in done[n]

UnskippedInv ==
    /\ \A t \in TaskId : tasks[t] # NoTask => Unskipped(tasks[t])
    /\ \A t \in TaskId : listed[t] # NoTask => Unskipped(listed[t])
    /\ \A t \in TaskId : runner[t] # Idle => Unskipped(runner[t].task)

HonestNodes(records, done) == \A n \in Node : records[n] # NoNode => Honest(records[n], n, done)

HonestInv ==
    /\ HonestNodes(nodes, ran)
    /\ HonestNodes(seen, ran)
    /\ \A b \in Browser : HonestNodes(page[b], ran)
    /\ \A t \in TaskId :
          runner[t] # Idle => Honest(runner[t].node, runner[t].task.node, ran)

Clean == UnskippedInv /\ HonestInv

(***************************************************************************)
(* Nothing was cancelled before, either.                                   *)
(***************************************************************************)

\* The executor's saves use up store errors at most.
LEMMA SavesSpend ==
    ASSUME NEW t, NEW task, NEW n, NEW node,
           SaveProvisioningTaskStatus(t, task) \/ SaveClusterNodeStatus(n, node)
    PROVE  used' = used \/ Spend("storeError")
  BY DEF SaveProvisioningTaskStatus, SaveClusterNodeStatus, StoreFails

\* A step of the poll loop or of a goroutine uses up store errors at most.
LEMMA ExecutorSpends ==
    ASSUME PollNext \/ \E t \in TaskId : RunnerNext(t) \/ TimePasses(t)
    PROVE  used' = used \/ Spend("storeError")
  <1>1. CASE PollNext
    <2>1. CASE PollListTasks \/ PollListNodes \/ PollScanned \/ PollMetrics \/ PollDone
      BY <2>1 DEF PollListTasks, PollListNodes, PollScanned, PollMetrics, PollDone
    <2>2. ASSUME NEW t \in TaskId, PollPass(t) \/ PollSpawn(t)
          PROVE  used' = used
      BY <2>2 DEF PollPass, PollSpawn
    <2>3. ASSUME NEW t \in TaskId, PollTimeout(t) \/ PollTimeoutNode(t) \/ PollMissingNode(t)
          PROVE  used' = used \/ Spend("storeError")
      BY <2>3, SavesSpend DEF PollTimeout, PollTimeoutNode, PollMissingNode
    <2>4. ASSUME NEW n \in Node, PollSaveMetrics(n)
          PROVE  used' = used \/ Spend("storeError")
      BY <2>4, SavesSpend DEF PollSaveMetrics
    <2>5. QED
      BY <1>1, <2>1, <2>2, <2>3, <2>4 DEF PollNext
  <1>2. ASSUME NEW t \in TaskId, RunnerNext(t)
        PROVE  used' = used \/ Spend("storeError")
    <2>1. CASE RunnerSavesNode(t) \/ RunnerSavesTask(t) \/ RunnerEnds(t)
      BY <2>1, SavesSpend DEF RunnerSavesNode, RunnerSavesTask, RunnerEnds
    <2>2. CASE ~(RunnerSavesNode(t) \/ RunnerSavesTask(t) \/ RunnerEnds(t))
      BY <1>2, <2>2 DEF RunnerNext, RunnerQuits, RunnerStarts, RunnerBeginsStep,
         RunnerCompletes, StepSucceeds, StepFails, StepPanics, RunnerKeepsResult
    <2>3. QED
      BY <2>1, <2>2
  <1>3. ASSUME NEW t \in TaskId, TimePasses(t)
        PROVE  used' = used
    BY <1>3 DEF TimePasses
  <1>4. QED
    BY <1>1, <1>2, <1>3

\* After a step without a cancellation there was none before.
LEMMA NeverCancelledBefore ==
    ASSUME TypeOK, Next, NeverCancelled'
    PROVE  /\ NeverCancelled
           /\ \A t \in TaskId : ~CancelProvisioningTask(t)
  <1>1. \A op \in Budgeted : Spend(op) => op # "cancel" /\ NeverCancelled
    <2>1. SUFFICES ASSUME NEW op \in Budgeted, Spend(op)
                   PROVE  op # "cancel" /\ NeverCancelled
      OBVIOUS
    <2>2. used["cancel"] \in Nat /\ "cancel" \in Budgeted
      BY DEF TypeOK, Budgeted
    <2>3. used' = [used EXCEPT ![op] = @ + 1]
      BY <2>1 DEF Spend
    <2>4. CASE op = "cancel"
      BY <2>2, <2>3, <2>4 DEF NeverCancelled, TypeOK
    <2>5. CASE op # "cancel"
      BY <2>2, <2>3, <2>5 DEF NeverCancelled, TypeOK
    <2>6. QED
      BY <2>4, <2>5
  <1>2. \A t \in TaskId : ~CancelProvisioningTask(t)
    BY <1>1 DEF CancelProvisioningTask, Budgeted
  <1>3. used' = used => NeverCancelled
    BY DEF NeverCancelled
  <1>4. CASE UserNext
    <2>1. CASE \E b \in Browser : LoadPage(b)
      BY <1>2, <1>3, <2>1 DEF LoadPage
    <2>2. CASE ~\E b \in Browser : LoadPage(b)
      BY <1>1, <1>2, <1>4, <2>2 DEF UserNext, EditNode, SaveClusterNode, DeleteClusterNode,
         RetryProvisioningTask, CancelProvisioningTask, Budgeted
    <2>3. QED
      BY <2>1, <2>2
  <1>5. CASE PollNext \/ \E t \in TaskId : RunnerNext(t) \/ TimePasses(t)
    BY <1>1, <1>2, <1>3, <1>5, ExecutorSpends DEF Budgeted
  <1>6. CASE Crash
    BY <1>1, <1>2, <1>6 DEF Crash, Budgeted
  <1>7. QED
    BY <1>2, <1>4, <1>5, <1>6 DEF Next

(***************************************************************************)
(* What the browsers show changes by what they load, and by nothing else.  *)
(***************************************************************************)
LEMMA PagesLoaded ==
    ASSUME TypeOK, UserNext
    PROVE  \A b \in Browser : page'[b] \in {page[b], nodes, NothingSeen}
  <1>1. ASSUME NEW b \in Browser, LoadPage(b)
        PROVE  \A c \in Browser : page'[c] \in {page[c], nodes}
    BY <1>1 DEF LoadPage, TypeOK
  <1>2. ASSUME NEW n, NEW payload, NEW sgx, NEW auto, SaveClusterNode(n, payload, sgx, auto)
        PROVE  page' = page \/ page' = NothingLoaded
    BY <1>2 DEF SaveClusterNode, PagesNeeded
  <1>3. CASE \E n \in Node : DeleteClusterNode(n)
    BY <1>3 DEF DeleteClusterNode, outside
  <1>4. CASE \E t \in TaskId : RetryProvisioningTask(t) \/ CancelProvisioningTask(t)
    BY <1>4 DEF RetryProvisioningTask, CancelProvisioningTask, outside
  <1>5. QED
    BY <1>1, <1>2, <1>3, <1>4 DEF UserNext, EditNode, NothingLoaded

LEMMA PagesKept ==
    ASSUME \/ PollNext
           \/ \E t \in TaskId : RunnerNext(t) \/ TimePasses(t)
           \/ Crash
    PROVE  page' = page
  BY DEF PollNext, PollListTasks, PollListNodes, PollScanned, PollMetrics, PollDone, PollPass,
     PollTimeout, PollTimeoutNode, PollMissingNode, PollSpawn, PollSaveMetrics, RunnerNext,
     RunnerQuits, RunnerStarts, RunnerBeginsStep, RunnerCompletes, StepSucceeds, StepFails,
     StepPanics, RunnerKeepsResult, RunnerSavesNode, RunnerSavesTask, RunnerEnds, TimePasses,
     Crash, outside

(***************************************************************************)
(* No step is skipped.                                                     *)
(***************************************************************************)

\* What a task gets: nothing that was skipped comes in, the K3s step stays.
LEMMA UnskippedChanges ==
    ASSUME NEW task \in Task, Unskipped(task)
    PROVE  /\ \A other \in Task : other.steps = task.steps => Unskipped(other)
           /\ \A other \in Task : other.steps = Restarted(task.steps) => Unskipped(other)
           /\ \A other \in Task, s \in Step, st \in {"running", "succeeded", "failed"} :
                 other.steps = [task.steps EXCEPT ![s] = st] => Unskipped(other)
  <1>1. task.steps \in [Step -> StepStatus] /\ K3sInstall \in Step
    BY DEF Task, K3sInstall, Step
  <1>2. ASSUME NEW other \in Task, other.steps = Restarted(task.steps)
        PROVE  Unskipped(other)
    <2>1. \A s \in Step : other.steps[s] \in {task.steps[s], "pending"}
      BY <1>1, <1>2 DEF Restarted
    <2>2. QED
      BY <1>1, <2>1 DEF Unskipped
  <1>3. QED
    BY <1>1, <1>2 DEF Unskipped

\* A new task has all of its steps before it.
LEMMA UnskippedNew ==
    ASSUME NEW sgx \in BOOLEAN, NEW task, task.steps = buildProvisioningSteps(sgx)
    PROVE  Unskipped(task)
  BY DEF Unskipped, buildProvisioningSteps, K3sInstall, SgxInstall, Step

\* The executor's save of an unskipped copy leaves the store unskipped.
LEMMA SaveUnskipped ==
    ASSUME TypeOK, \A u \in TaskId : tasks[u] # NoTask => Unskipped(tasks[u]),
           NEW t \in TaskId, NEW task \in Task, Unskipped(task),
           SaveProvisioningTaskStatus(t, task)
    PROVE  \A u \in TaskId : tasks'[u] # NoTask => Unskipped(tasks'[u])
  <1>1. CASE tasks' = tasks
    BY <1>1
  <1>2. CASE tasks' # tasks
    <2> DEFINE saved == [task EXCEPT !.sgx = @ \/ tasks[t].sgx]
    <2>1. tasks' = [tasks EXCEPT ![t] = saved]
      BY <1>2 DEF SaveProvisioningTaskStatus, StoreFails, store
    <2>2. saved.steps = task.steps
      BY DEF Task
    <2> HIDE DEF saved
    <2>3. Unskipped(saved)
      BY <2>2 DEF Unskipped
    <2>4. QED
      BY <2>1, <2>3 DEF TypeOK
  <1>3. QED
    BY <1>1, <1>2

\* Users who do not cancel skip nothing.
LEMMA UserUnskipped ==
    ASSUME Inv, UnskippedInv, UserNext, \A t \in TaskId : ~CancelProvisioningTask(t)
    PROVE  UnskippedInv'
  <1> USE DEF Inv
  <1>1. UNCHANGED <<listed, runner>>
    BY UserEffect DEF pollVars
  <1>2. ASSUME NEW n \in Node, NEW payload, NEW sgx \in BOOLEAN, NEW auto \in BOOLEAN,
               SaveClusterNode(n, payload, sgx, auto)
        PROVE  \A u \in TaskId : tasks'[u] # NoTask => Unskipped(tasks'[u])
    <2>1. CASE UNCHANGED tasks
      BY <2>1 DEF UnskippedInv
    <2>2. CASE createProvisioningTaskInSnapshot(n, sgx)
      <3> DEFINE new == [node |-> n, sgx |-> sgx, status |-> "pending",
                         steps |-> buildProvisioningSteps(sgx), aged |-> FALSE]
      <3>1. Unskipped(new)
        BY UnskippedNew
      <3>2. tasks' = [tasks EXCEPT ![created + 1] = new]
        BY <2>2 DEF createProvisioningTaskInSnapshot
      <3> HIDE DEF new
      <3>3. QED
        BY <3>1, <3>2 DEF UnskippedInv, TypeOK
    <2>3. QED
      BY <1>2, <2>1, <2>2 DEF SaveClusterNode
  <1>3. ASSUME NEW n \in Node, DeleteClusterNode(n)
        PROVE  \A u \in TaskId : tasks'[u] # NoTask => Unskipped(tasks'[u])
    BY <1>3 DEF DeleteClusterNode, UnskippedInv
  <1>4. ASSUME NEW t \in TaskId, RetryProvisioningTask(t)
        PROVE  \A u \in TaskId : tasks'[u] # NoTask => Unskipped(tasks'[u])
    <2>1. tasks[t] \in Task /\ tasks[t] # NoTask
      BY <1>4 DEF RetryProvisioningTask, TypeOK
    <2> DEFINE again == [[[tasks[t] EXCEPT !.steps = Restarted(@)]
                             EXCEPT !.status = "pending"] EXCEPT !.aged = FALSE]
    <2>2. tasks' = [tasks EXCEPT ![t] = again]
      BY <1>4 DEF RetryProvisioningTask, TypeOK
    <2>3. again \in Task /\ again.steps = Restarted(tasks[t].steps)
      BY <2>1, RestartedType DEF Task, TaskStatus
    <2> HIDE DEF again
    <2>4. Unskipped(again)
      BY <2>1, <2>3, UnskippedChanges DEF UnskippedInv
    <2>5. QED
      BY <2>2, <2>4 DEF UnskippedInv, TypeOK
  <1>5. SgxChoice \subseteq BOOLEAN
    BY ConstantsAssumption
  <1>6. \A u \in TaskId : tasks'[u] # NoTask => Unskipped(tasks'[u])
    <2>1. CASE \E b \in Browser : LoadPage(b)
      BY <2>1 DEF LoadPage, store, UnskippedInv
    <2>2. CASE ~\E b \in Browser : LoadPage(b)
      BY <1>2, <1>3, <1>4, <1>5, <2>2 DEF UserNext, EditNode
    <2>3. QED
      BY <2>1, <2>2
  <1>7. QED
    BY <1>1, <1>6 DEF UnskippedInv

\* The poll loop copies and fails tasks, and skips none of their steps.
LEMMA PollUnskipped ==
    ASSUME Inv, UnskippedInv, PollNext
    PROVE  UnskippedInv'
  <1> USE DEF Inv
  <1>1. CASE \/ PollListTasks \/ PollListNodes \/ PollScanned \/ PollMetrics \/ PollDone
             \/ \E t \in TaskId : PollPass(t) \/ PollTimeoutNode(t)
             \/ \E n \in Node : PollSaveMetrics(n)
    <2>1. UNCHANGED <<tasks, runner>>
      BY <1>1 DEF PollListTasks, PollListNodes, PollScanned, PollMetrics, PollDone, PollPass,
         PollTimeoutNode, PollSaveMetrics, SaveClusterNodeStatus, StoreFails, store
    <2>2. \A u \in TaskId : listed'[u] \in {listed[u], tasks[u], NoTask}
      BY <1>1 DEF PollListTasks, PollListNodes, PollScanned, PollMetrics, PollDone, PollPass,
         PollTimeoutNode, PollSaveMetrics, LookedAt, TypeOK
    <2>3. QED
      BY <2>1, <2>2 DEF UnskippedInv
  <1>2. ASSUME NEW t \in TaskId, PollTimeout(t) \/ PollMissingNode(t)
        PROVE  UnskippedInv'
    <2>1. /\ listed[t] # NoTask
          /\ SaveProvisioningTaskStatus(t, FailedCopy(t))
          /\ runner' = runner
      BY <1>2 DEF PollTimeout, PollMissingNode, IsNextTask
    <2>2. FailedCopy(t) \in Task /\ Unskipped(FailedCopy(t))
      BY <2>1, CopyType DEF UnskippedInv, Unskipped
    <2>3. \A u \in TaskId : listed'[u] \in {listed[u], NoTask}
      BY <1>2 DEF PollTimeout, PollMissingNode, LookedAt, TypeOK
    <2>4. QED
      BY <2>1, <2>2, <2>3, SaveUnskipped DEF UnskippedInv
  <1>3. ASSUME NEW t \in TaskId, PollSpawn(t)
        PROVE  UnskippedInv'
    <2>1. /\ listed[t] # NoTask
          /\ runner' = [runner EXCEPT ![t] = [pc |-> "start", task |-> listed[t],
                                        node |-> seen[listed[t].node], step |-> Preflight]]
          /\ tasks' = tasks
      BY <1>3 DEF PollSpawn, IsNextTask, store
    <2>2. runner'[t].task = listed[t] /\ \A u \in TaskId \ {t} : runner'[u] = runner[u]
      BY <2>1 DEF TypeOK
    <2>3. \A u \in TaskId : listed'[u] \in {listed[u], NoTask}
      BY <1>3 DEF PollSpawn, LookedAt, TypeOK
    <2>4. QED
      BY <2>1, <2>2, <2>3 DEF UnskippedInv
  <1>4. QED
    BY <1>1, <1>2, <1>3 DEF PollNext

\* The same steps, or one of them marked otherwise
Continues(old, new) ==
    /\ new.node = old.node
    /\ \/ new.steps = old.steps
       \/ \E s \in Step, st \in {"running", "succeeded", "failed"} :
             new.steps = [old.steps EXCEPT ![s] = st]

\* The changes a goroutine makes to its task are of that kind.
LEMMA GoingOn ==
    ASSUME NEW task \in Task, NEW s \in Step
    PROVE  /\ Continues(task, task)
           /\ Continues(task, [task EXCEPT !.status = "running"])
           /\ \A status \in {"succeeded", "failed"} :
                 Continues(task, [task EXCEPT !.status = status, !.aged = FALSE])
           /\ Continues(task, [task EXCEPT !.steps[s] = "running", !.status = "running",
                                           !.aged = FALSE])
           /\ Continues(task, [task EXCEPT !.steps[s] = "succeeded", !.aged = FALSE])
           /\ Continues(task, [task EXCEPT !.steps[s] = "failed", !.status = "failed",
                                           !.aged = FALSE])
  <1>1. ASSUME NEW new \in Task, NEW st \in {"running", "succeeded", "failed"},
               new.node = task.node, new.steps = [task.steps EXCEPT ![s] = st]
        PROVE  Continues(task, new)
    BY <1>1 DEF Continues
  <1>2. /\ Continues(task, task)
        /\ Continues(task, [task EXCEPT !.status = "running"])
        /\ \A status \in {"succeeded", "failed"} :
              Continues(task, [task EXCEPT !.status = status, !.aged = FALSE])
    BY DEF Continues, Task
  <1>3. Continues(task, [task EXCEPT !.steps[s] = "running", !.status = "running",
                                     !.aged = FALSE])
    <2> DEFINE new == [task EXCEPT !.steps[s] = "running", !.status = "running",
                                   !.aged = FALSE]
    <2>1. "running" \in StepStatus /\ "running" \in TaskStatus /\ FALSE \in BOOLEAN
      BY DEF StepStatus, TaskStatus
    <2>2. new \in Task
      BY <2>1, StepTaskType
    <2>3. new.node = task.node /\ new.steps = [task.steps EXCEPT ![s] = "running"]
      BY DEF Task
    <2>4. new \in Task /\ new.node = task.node
          /\ new.steps = [task.steps EXCEPT ![s] = "running"]
      BY <2>2, <2>3
    <2> HIDE DEF new
    <2>5. Continues(task, new)
      BY <1>1, <2>4
    <2>6. QED
      BY <2>5 DEF new
  <1>4. Continues(task, [task EXCEPT !.steps[s] = "succeeded", !.aged = FALSE])
    <2> DEFINE new == [task EXCEPT !.steps[s] = "succeeded", !.aged = FALSE]
    <2>1. new \in Task /\ new.node = task.node
          /\ new.steps = [task.steps EXCEPT ![s] = "succeeded"]
      BY DEF Task, StepStatus
    <2> HIDE DEF new
    <2>2. Continues(task, new)
      BY <1>1, <2>1
    <2>3. QED
      BY <2>2 DEF new
  <1>5. Continues(task, [task EXCEPT !.steps[s] = "failed", !.status = "failed",
                                     !.aged = FALSE])
    <2> DEFINE new == [task EXCEPT !.steps[s] = "failed", !.status = "failed",
                                   !.aged = FALSE]
    <2>1. "failed" \in StepStatus /\ "failed" \in TaskStatus /\ FALSE \in BOOLEAN
      BY DEF StepStatus, TaskStatus
    <2>2. new \in Task
      BY <2>1, StepTaskType
    <2>3. new.node = task.node /\ new.steps = [task.steps EXCEPT ![s] = "failed"]
      BY DEF Task
    <2>4. new \in Task /\ new.node = task.node
          /\ new.steps = [task.steps EXCEPT ![s] = "failed"]
      BY <2>2, <2>3
    <2> HIDE DEF new
    <2>5. Continues(task, new)
      BY <1>1, <2>4
    <2>6. QED
      BY <2>5 DEF new
  <1>6. QED
    BY <1>2, <1>3, <1>4, <1>5

\* A goroutine leaves, or goes on with a task that continues its own.
LEMMA RunnerTask ==
    ASSUME Inv, NEW t \in TaskId, RunnerNext(t)
    PROVE  /\ runner[t] # Idle
           /\ \A u \in TaskId \ {t} : runner'[u] = runner[u]
           /\ \/ runner'[t] = Idle
              \/ runner'[t].task \in Task /\ Continues(runner[t].task, runner'[t].task)
  <1> DEFINE r == runner[t]
  <1>1. r.pc # "idle"
    BY DEF RunnerNext, RunnerQuits, RunnerStarts, RunnerBeginsStep, RunnerCompletes,
       StepSucceeds, StepFails, StepPanics, RunnerKeepsResult, RunnerSavesNode,
       RunnerSavesTask, RunnerEnds, At, AfterNodeSave, AfterTaskSave
  <1>2. r # Idle /\ r.task \in Task /\ r.step \in Step
    BY <1>1, RunnerFacts DEF Active
  <1>3. TypeOK /\ TypeOK'
    BY RunnerInv DEF Inv
  <1>4. ASSUME NEW pc, NEW task, NEW node, NEW s, GoOn(t, pc, task, node, s)
        PROVE  /\ \A u \in TaskId \ {t} : runner'[u] = runner[u]
               /\ runner'[t].task = task
               /\ runner'[t].task \in Task
    <2>1. /\ runner'[t] = [pc |-> pc, task |-> task, node |-> node, step |-> s]
          /\ \A u \in TaskId \ {t} : runner'[u] = runner[u]
      BY <1>3, <1>4 DEF GoOn, TypeOK
    <2>2. runner'[t] # Idle
      BY <2>1 DEF Idle
    <2>3. QED
      BY <1>3, <2>1, <2>2 DEF TypeOK, Running
  <1>5. \/ Leave(t)
        \/ \E pc, task, node, s : GoOn(t, pc, task, node, s) /\ Continues(r.task, task)
    <2>1. CASE RunnerSavesNode(t) \/ RunnerSavesTask(t) \/ RunnerKeepsResult(t)
      BY <1>2, <2>1, GoingOn DEF RunnerSavesNode, RunnerSavesTask, RunnerKeepsResult
    <2>2. CASE RunnerStarts(t)
      BY <1>2, <2>2, GoingOn DEF RunnerStarts
    <2>3. CASE RunnerCompletes(t)
      BY <1>2, <2>3, GoingOn DEF RunnerCompletes
    <2>4. CASE StepPanics(t)
      BY <1>2, <2>4, GoingOn DEF StepPanics
    <2>5. CASE RunnerBeginsStep(t)
      BY <1>2, <2>5, GoingOn DEF RunnerBeginsStep
    <2>6. CASE StepFails(t)
      BY <1>2, <2>6, GoingOn DEF StepFails
    <2>7. CASE StepSucceeds(t)
      BY <1>2, <2>7, GoingOn DEF StepSucceeds
    <2>8. CASE RunnerQuits(t) \/ RunnerEnds(t)
      BY <2>8 DEF RunnerQuits, RunnerEnds
    <2>9. QED
      BY <2>1, <2>2, <2>3, <2>4, <2>5, <2>6, <2>7, <2>8 DEF RunnerNext
  <1>6. CASE Leave(t)
    BY <1>2, <1>3, <1>6 DEF Leave, TypeOK
  <1>7. QED
    BY <1>2, <1>4, <1>5, <1>6

\* A goroutine skips nothing.
LEMMA RunnerUnskipped ==
    ASSUME Inv, UnskippedInv, NEW t \in TaskId, RunnerNext(t)
    PROVE  UnskippedInv'
  <1> USE DEF Inv
  <1>1. runner[t] # Idle /\ runner[t].task \in Task /\ Unskipped(runner[t].task)
    BY RunnerTask, RunnerType DEF UnskippedInv
  <1>2. \A u \in TaskId : runner'[u] # Idle => Unskipped(runner'[u].task)
    <2>1. ASSUME NEW new \in Task, Continues(runner[t].task, new)
          PROVE  Unskipped(new)
      BY <1>1, <2>1, UnskippedChanges DEF Continues
    <2>2. runner'[t] # Idle => Unskipped(runner'[t].task)
      BY <2>1, RunnerTask
    <2>3. QED
      BY <2>2, RunnerTask DEF UnskippedInv
  <1>3. \/ tasks' = tasks
        \/ SaveProvisioningTaskStatus(t, runner[t].task)
    BY DEF RunnerNext, RunnerQuits, RunnerStarts, RunnerBeginsStep, RunnerCompletes,
       StepSucceeds, StepFails, StepPanics, RunnerKeepsResult, RunnerSavesNode,
       RunnerSavesTask, RunnerEnds, SaveClusterNodeStatus, StoreFails, store
  <1>4. listed' = listed
    BY DEF RunnerNext, RunnerQuits, RunnerStarts, RunnerBeginsStep, RunnerCompletes,
       StepSucceeds, StepFails, StepPanics, RunnerKeepsResult, RunnerSavesNode,
       RunnerSavesTask, RunnerEnds, pollVars
  <1>5. \A u \in TaskId : tasks'[u] # NoTask => Unskipped(tasks'[u])
    BY <1>1, <1>3, SaveUnskipped DEF UnskippedInv
  <1>6. QED
    BY <1>2, <1>4, <1>5 DEF UnskippedInv

(***************************************************************************)
(* No node is called ready without K3s.                                    *)
(***************************************************************************)

\* An unskipped task with no step left has done every step, K3s among them.
LEMMA NothingLeft ==
    ASSUME NEW task \in Task, NEW done, GoodRecord(task, done), Unskipped(task),
           \A s \in Step : task.steps[s] \notin Open
    PROVE  /\ \A s \in Step : task.steps[s] \in {"succeeded", "absent"}
           /\ K3sInstall \in done[task.node]
  <1>1. task.steps \in [Step -> StepStatus] /\ K3sInstall \in Step
    BY DEF Task, K3sInstall, Step
  <1>2. \A s \in Step : task.steps[s] \in {"succeeded", "absent"}
    BY <1>1 DEF Unskipped, Open, StepStatus
  <1>3. task.steps[K3sInstall] = "succeeded"
    BY <1>1, <1>2 DEF Unskipped
  <1>4. QED
    BY <1>1, <1>2, <1>3 DEF GoodRecord, RecordIsTruthful

\* The same of a later step that is being done: K3s was installed before it.
LEMMA DoneBefore ==
    ASSUME NEW task \in Task, NEW done, GoodRecord(task, done), Unskipped(task),
           NEW s \in Step, K3sInstall < s, task.steps[s] = "running"
    PROVE  K3sInstall \in done[task.node]
  <1>1. K3sInstall \in Step
    BY DEF K3sInstall, Step
  <1>2. task.steps[K3sInstall] \in {"succeeded", "absent"}
    BY <1>1 DEF GoodRecord, StepsInOrder
  <1>3. QED
    BY <1>1, <1>2 DEF GoodRecord, RecordIsTruthful, Unskipped

\* A task's status makes its node ready only when the task succeeded.
LEMMA NodesAfterHonest ==
    ASSUME TypeOK, HonestNodes(nodes, ran), NEW n \in Node, NEW t \in TaskId,
           NEW status \in TaskStatus, NEW sgx \in BOOLEAN,
           status = "succeeded" => K3sInstall \in ran[n]
    PROVE  HonestNodes(NodesAfter(n, t, status, sgx), ran)
  <1>1. CASE nodes[n] = NoNode
    BY <1>1 DEF NodesAfter
  <1>2. CASE nodes[n] # NoNode
    <2> DEFINE node == updateNodeProvisioningStatus(nodes[n], t, status, sgx)
    <2>1. nodes[n] \in NodeRecord
      BY <1>2 DEF TypeOK
    <2>2. node.status = IF status = "succeeded" THEN "ready" ELSE nodes[n].status
      BY <2>1 DEF updateNodeProvisioningStatus, NodeRecord
    <2>3. Honest(node, n, ran)
      BY <1>2, <2>2 DEF Honest, HonestNodes
    <2>4. NodesAfter(n, t, status, sgx) = [nodes EXCEPT ![n] = node]
      BY <1>2 DEF NodesAfter, TypeOK
    <2> HIDE DEF node
    <2>5. QED
      BY <2>3, <2>4 DEF HonestNodes, TypeOK
  <1>3. QED
    BY <1>1, <1>2

\* The executor's save of a task keeps the nodes honest.
LEMMA SaveTaskHonest ==
    ASSUME TypeOK, HonestNodes(nodes, ran), NEW t \in TaskId, NEW task \in Task,
           task.status = "succeeded" => K3sInstall \in ran[task.node],
           SaveProvisioningTaskStatus(t, task)
    PROVE  HonestNodes(nodes', ran)
  <1>1. CASE nodes' = nodes
    BY <1>1
  <1>2. CASE nodes' # nodes
    <2> DEFINE sgx == task.sgx \/ tasks[t].sgx
    <2>1. /\ tasks[t] # NoTask
          /\ nodes' = NodesAfter(task.node, t, task.status,
                                 [task EXCEPT !.sgx = @ \/ tasks[t].sgx].sgx)
      BY <1>2 DEF SaveProvisioningTaskStatus, StoreFails, store, CanSave
    <2>2. [task EXCEPT !.sgx = @ \/ tasks[t].sgx].sgx = sgx
      BY DEF Task
    <2>3. tasks[t] \in Task
      BY <2>1 DEF TypeOK
    <2>4. sgx \in BOOLEAN /\ task.node \in Node /\ task.status \in TaskStatus
      BY <2>3 DEF Task
    <2>5. QED
      BY <2>1, <2>2, <2>4, NodesAfterHonest
  <1>3. QED
    BY <1>1, <1>2

\* So does its save of an honest copy of a node.
LEMMA SaveNodeHonest ==
    ASSUME TypeOK, HonestNodes(nodes, ran), NEW n \in Node, NEW node, Honest(node, n, ran),
           SaveClusterNodeStatus(n, node)
    PROVE  HonestNodes(nodes', ran)
  BY DEF SaveClusterNodeStatus, StoreFails, store, HonestNodes, TypeOK

\* Users save what their browser has shown them at some time, or a node that is
\* not ready: what was said with reason then is said with reason now.
LEMMA UserHonest ==
    ASSUME Inv, HonestInv, UserNext
    PROVE  HonestInv'
  <1> USE DEF Inv
  <1>1. UNCHANGED <<seen, runner, ran>>
    BY UserEffect DEF pollVars
  <1>2. ASSUME NEW n \in Node, NEW payload \in NodeRecord, NEW sgx \in BOOLEAN,
               NEW auto \in BOOLEAN, Honest(payload, n, ran),
               SaveClusterNode(n, payload, sgx, auto)
        PROVE  HonestNodes(nodes', ran)
    <2>1. PICK node : nodes' = [nodes EXCEPT ![n] = node] /\ node.status = payload.status
      <3>1. CASE auto
        <4> DEFINE node == [payload EXCEPT !.task = created + 1, !.prov = "pending",
                                           !.runtime = "pending",
                                           !.sgx = IF sgx THEN "pending" ELSE @]
        <4>1. nodes' = [nodes EXCEPT ![n] = node]
          BY <1>2, <3>1 DEF SaveClusterNode
        <4>2. node.status = payload.status
          BY DEF NodeRecord
        <4> HIDE DEF node
        <4>3. QED
          BY <4>1, <4>2
      <3>2. CASE ~auto
        BY <1>2, <3>2 DEF SaveClusterNode
      <3>3. QED
        BY <3>1, <3>2
    <2>2. Honest(node, n, ran)
      BY <1>2, <2>1 DEF Honest
    <2>3. QED
      BY <2>1, <2>2 DEF HonestInv, HonestNodes, TypeOK
  <1>3. ASSUME NEW n \in Node, NEW sgx \in BOOLEAN, NEW auto \in BOOLEAN,
               \/ SaveClusterNode(n, NewNode(sgx, auto), sgx, auto)
               \/ \E b \in Browser : EditNode(b, n, sgx, auto)
        PROVE  HonestNodes(nodes', ran)
    <2>1. NewNode(sgx, auto) \in NodeRecord /\ Honest(NewNode(sgx, auto), n, ran)
      BY DEF NewNode, NodeRecord, TaskStatus, Honest
    <2>2. \A b \in Browser : page[b][n] # NoNode =>
             page[b][n] \in NodeRecord /\ Honest(page[b][n], n, ran)
      BY DEF TypeOK, HonestInv, HonestNodes
    <2>3. QED
      BY <1>2, <1>3, <2>1, <2>2 DEF EditNode
  <1>4. ASSUME NEW n \in Node, DeleteClusterNode(n)
        PROVE  HonestNodes(nodes', ran)
    BY <1>4 DEF DeleteClusterNode, HonestInv, HonestNodes, TypeOK
  <1>5. ASSUME NEW t \in TaskId, RetryProvisioningTask(t) \/ CancelProvisioningTask(t)
        PROVE  HonestNodes(nodes', ran)
    <2>1. tasks[t] \in Task
      BY <1>5 DEF RetryProvisioningTask, CancelProvisioningTask, TypeOK
    <2>2. PICK status \in {"pending", "cancelled"} :
              nodes' = NodesAfter(tasks[t].node, t, status, tasks[t].sgx)
      BY <1>5 DEF RetryProvisioningTask, CancelProvisioningTask
    <2>3. tasks[t].node \in Node /\ tasks[t].sgx \in BOOLEAN /\ status \in TaskStatus
      BY <2>1 DEF Task, TaskStatus
    <2>4. QED
      BY <2>2, <2>3, NodesAfterHonest DEF HonestInv
  <1>6. ASSUME NEW b \in Browser, LoadPage(b)
        PROVE  HonestNodes(nodes', ran)
    BY <1>6 DEF LoadPage, store, HonestInv
  <1>7. HonestNodes(nodes', ran)
    BY <1>3, <1>4, <1>5, <1>6, ConstantsAssumption DEF UserNext
  <1>8. \A b \in Browser : HonestNodes(page'[b], ran)
    BY PagesLoaded DEF HonestInv, HonestNodes, NothingSeen
  <1>9. QED
    BY <1>1, <1>7, <1>8 DEF HonestInv, HonestNodes

\* The poll loop saves copies of nodes, never as ready when they were not.
LEMMA PollHonest ==
    ASSUME Inv, HonestInv, PollNext
    PROVE  HonestInv'
  <1> USE DEF Inv
  <1>1. UNCHANGED outside
    BY DEF PollNext, PollListTasks, PollListNodes, PollScanned, PollMetrics, PollDone, PollPass,
       PollTimeout, PollTimeoutNode, PollMissingNode, PollSpawn, PollSaveMetrics
  <1>2. HonestNodes(nodes, ran) /\ HonestNodes(seen, ran)
    BY DEF HonestInv
  <1>3. CASE \/ PollListTasks \/ PollListNodes \/ PollScanned \/ PollMetrics \/ PollDone
             \/ \E t \in TaskId : PollPass(t)
    <2>1. UNCHANGED <<nodes, runner>> /\ seen' \in {seen, nodes, NothingSeen}
      BY <1>3 DEF PollListTasks, PollListNodes, PollScanned, PollMetrics, PollDone, PollPass,
         store
    <2>2. HonestNodes(NothingSeen, ran)
      BY DEF HonestNodes, NothingSeen
    <2>3. QED
      BY <1>1, <1>2, <2>1, <2>2 DEF HonestInv, HonestNodes, outside
  <1>4. ASSUME NEW t \in TaskId, PollTimeout(t) \/ PollMissingNode(t)
        PROVE  HonestInv'
    <2>1. /\ listed[t] # NoTask
          /\ SaveProvisioningTaskStatus(t, FailedCopy(t))
          /\ UNCHANGED <<seen, runner>>
      BY <1>4 DEF PollTimeout, PollMissingNode, IsNextTask
    <2>2. FailedCopy(t) \in Task /\ FailedCopy(t).status # "succeeded"
      BY <2>1, CopyType
    <2>3. HonestNodes(nodes', ran)
      BY <1>2, <2>1, <2>2, SaveTaskHonest
    <2>4. QED
      BY <1>1, <2>1, <2>3 DEF HonestInv, HonestNodes, outside
  <1>5. ASSUME NEW t \in TaskId, PollTimeoutNode(t)
        PROVE  HonestInv'
    <2> DEFINE n == listed[t].node
               node == [seen[n] EXCEPT !.prov = "failed"]
    <2>1. /\ n \in Node /\ seen[n] # NoNode
          /\ SaveClusterNodeStatus(n, node)
          /\ UNCHANGED <<seen, runner>>
      BY <1>5, CopyType DEF PollTimeoutNode, IsNextTask, AloneInv, BeingTimedOut
    <2>2. node.status = seen[n].status
      BY <2>1 DEF TypeOK, NodeRecord
    <2>3. Honest(node, n, ran)
      BY <1>2, <2>1, <2>2 DEF Honest, HonestNodes
    <2> HIDE DEF n, node
    <2>4. HonestNodes(nodes', ran)
      BY <1>2, <2>1, <2>3, SaveNodeHonest
    <2>5. QED
      BY <1>1, <2>1, <2>4 DEF HonestInv, HonestNodes, outside
  <1>6. ASSUME NEW n \in Node, PollSaveMetrics(n)
        PROVE  HonestInv'
    <2>1. /\ seen[n] # NoNode /\ runner' = runner
          /\ seen' = [seen EXCEPT ![n] = NoNode]
      BY <1>6 DEF PollSaveMetrics
    <2>2. Honest(seen[n], n, ran)
      BY <1>2, <2>1 DEF HonestNodes
    <2>3. Honest([seen[n] EXCEPT !.status = "unreachable"], n, ran)
      BY <2>1 DEF Honest, TypeOK, NodeRecord
    <2>4. HonestNodes(nodes', ran)
      BY <1>2, <1>6, <2>2, <2>3, SaveNodeHonest DEF PollSaveMetrics, store
    <2>5. HonestNodes(seen', ran)
      BY <1>2, <2>1 DEF HonestNodes, TypeOK
    <2>6. QED
      BY <1>1, <2>1, <2>4, <2>5 DEF HonestInv, HonestNodes, outside
  <1>7. ASSUME NEW t \in TaskId, PollSpawn(t)
        PROVE  HonestInv'
    <2> DEFINE n == listed[t].node
               started == [pc |-> "start", task |-> listed[t], node |-> seen[n],
                           step |-> Preflight]
    <2>1. /\ n \in Node /\ seen[n] # NoNode
          /\ runner' = [runner EXCEPT ![t] = started]
          /\ UNCHANGED <<nodes, seen>>
      BY <1>7, CopyType DEF PollSpawn, IsNextTask, store
    <2>2. started.node = seen[n] /\ started.task.node = n
      OBVIOUS
    <2>3. Honest(started.node, started.task.node, ran)
      BY <1>2, <2>1, <2>2 DEF HonestNodes
    <2> HIDE DEF n, started
    <2>4. runner'[t] = started /\ \A u \in TaskId \ {t} : runner'[u] = runner[u]
      BY <2>1 DEF TypeOK
    <2>5. \A u \in TaskId : runner'[u] # Idle => Honest(runner'[u].node, runner'[u].task.node, ran)
      BY <2>3, <2>4 DEF HonestInv
    <2>6. QED
      BY <1>1, <2>1, <2>5 DEF HonestInv, HonestNodes, outside
  <1>8. QED
    BY <1>3, <1>4, <1>5, <1>6, <1>7 DEF PollNext

\* What succeeded on a machine stays there.
LEMMA RanGrows ==
    ASSUME Inv, NEW t \in TaskId, RunnerNext(t)
    PROVE  \A n \in Node : ran[n] \subseteq ran'[n]
  <1>1. CASE StepSucceeds(t)
    BY <1>1 DEF StepSucceeds, Inv, TypeOK
  <1>2. CASE ~StepSucceeds(t)
    <2>1. ran' = ran
      BY <1>2 DEF RunnerNext, RunnerQuits, RunnerStarts, RunnerBeginsStep, RunnerCompletes,
         StepFails, StepPanics, RunnerKeepsResult, RunnerSavesNode, RunnerSavesTask, RunnerEnds,
         outside
    <2>2. QED
      BY <2>1
  <1>3. QED
    BY <1>1, <1>2

\* The status a goroutine gives its copy of the node: it calls the node ready
\* only after the K3s step.
LEMMA RunnerNode ==
    ASSUME Inv, Clean, NEW t \in TaskId, RunnerNext(t)
    PROVE  runner'[t] # Idle => Honest(runner'[t].node, runner[t].task.node, ran')
  <1> DEFINE r == runner[t]
             n == r.task.node
  <1>1. r.pc # "idle" /\ r # Idle
    BY RunnerTask, RunnerFacts DEF RunnerNext, RunnerQuits, RunnerStarts, RunnerBeginsStep,
       RunnerCompletes, StepSucceeds, StepFails, StepPanics, RunnerKeepsResult,
       RunnerSavesNode, RunnerSavesTask, RunnerEnds, At, AfterNodeSave, AfterTaskSave
  <1>2. /\ GoodRunner(r, ran) /\ r.task \in Task /\ r.step \in Step /\ n \in Node
        /\ r.node \in NodeRecord /\ Unskipped(r.task) /\ Honest(r.node, n, ran)
    BY <1>1, RunnerFacts, RunnerType DEF Inv, Clean, UnskippedInv, HonestInv
  <1>3. ran[n] \subseteq ran'[n]
    BY <1>2, RanGrows
  <1>4. ASSUME NEW pc, NEW task, NEW node, NEW s, GoOn(t, pc, task, node, s)
        PROVE  runner'[t].node = node
    BY <1>4 DEF GoOn, Inv, TypeOK
  <1>5. ASSUME NEW node, node.status = r.node.status
        PROVE  Honest(node, n, ran')
    BY <1>2, <1>3, <1>5 DEF Honest
  <1>6. CASE \/ RunnerSavesNode(t) \/ RunnerSavesTask(t) \/ RunnerKeepsResult(t)
             \/ RunnerBeginsStep(t)
    BY <1>4, <1>5, <1>6 DEF RunnerSavesNode, RunnerSavesTask, RunnerKeepsResult,
       RunnerBeginsStep
  <1>7. CASE RunnerStarts(t)
    <2>1. runner'[t].node = [r.node EXCEPT !.prov = "running", !.task = t]
      BY <1>4, <1>7 DEF RunnerStarts
    <2>2. runner'[t].node.status = r.node.status
      BY <1>2, <2>1 DEF NodeRecord
    <2>3. QED
      BY <1>5, <2>2
  <1>8. CASE StepPanics(t)
    <2>1. runner'[t].node = [r.node EXCEPT !.prov = "failed"]
      BY <1>4, <1>8 DEF StepPanics
    <2>2. runner'[t].node.status = r.node.status
      BY <1>2, <2>1 DEF NodeRecord
    <2>3. QED
      BY <1>5, <2>2
  <1>9. CASE RunnerCompletes(t)
    <2>1. \A s \in Step : r.task.steps[s] \notin Open
      BY <1>9 DEF RunnerCompletes, IsNextStep, Step
    <2>2. K3sInstall \in ran[n]
      BY <1>2, <2>1, NothingLeft DEF GoodRunner
    <2>3. QED
      BY <1>3, <2>2 DEF Honest
  <1>10. CASE StepFails(t)
    <2>1. runner'[t].node = FailedNode(r.node, r.step)
      BY <1>4, <1>10 DEF StepFails
    <2>2. r.task.steps[r.step] = "running"
      BY <1>2, <1>10 DEF StepFails, At, GoodRunner
    <2>3. CASE r.step = SgxInstall
      BY <1>2, <1>3, <2>2, <2>3, DoneBefore DEF GoodRunner, Honest, K3sInstall, SgxInstall
    <2>4. CASE r.step # SgxInstall
      <3>1. runner'[t].node.status = r.node.status
        BY <1>2, <2>1, <2>4 DEF FailedNode, NodeRecord
      <3>2. QED
        BY <1>5, <3>1
    <2>5. QED
      BY <2>3, <2>4
  <1>11. CASE StepSucceeds(t) /\ ~Leave(t)
    <2>1. /\ runner'[t].node = applyProvisioningStepNodeState(r.node, r.step, r.task.sgx)
          /\ r.step \in ran'[n]
      BY <1>2, <1>4, <1>11 DEF StepSucceeds, Inv, TypeOK
    <2>2. r.task.steps[r.step] = "running"
      BY <1>2, <1>11 DEF StepSucceeds, At, GoodRunner
    <2>3. CASE r.step = K3sInstall
      BY <2>1, <2>3 DEF Honest
    <2>4. CASE r.step = FinalVerify
      BY <1>2, <1>3, <2>2, <2>4, DoneBefore DEF GoodRunner, Honest, K3sInstall, FinalVerify
    <2>5. CASE r.step \in Step \ {K3sInstall, FinalVerify}
      <3>1. r.step \in {Preflight, RuntimeVerify, SgxInstall}
        BY <2>5 DEF Step, Preflight, K3sInstall, RuntimeVerify, SgxInstall, FinalVerify
      <3>2. applyProvisioningStepNodeState(r.node, r.step, r.task.sgx).status = r.node.status
        BY <1>2, <3>1 DEF applyProvisioningStepNodeState, NodeRecord, Preflight, K3sInstall,
           RuntimeVerify, SgxInstall, FinalVerify
      <3>3. QED
        BY <1>5, <2>1, <3>2
    <2>6. QED
      BY <1>2, <2>3, <2>4, <2>5
  <1>12. CASE Leave(t) \/ RunnerQuits(t) \/ RunnerEnds(t)
    BY <1>12 DEF Leave, RunnerQuits, RunnerEnds, Inv, TypeOK
  <1>13. QED
    BY <1>6, <1>7, <1>8, <1>9, <1>10, <1>11, <1>12 DEF RunnerNext

\* A goroutine keeps the store and its own copies honest.
LEMMA RunnerHonest ==
    ASSUME Inv, Clean, NEW t \in TaskId, RunnerNext(t)
    PROVE  HonestInv'
  <1> USE DEF Inv
  <1> DEFINE r == runner[t]
             n == r.task.node
  <1>1. /\ r # Idle /\ r.pc \in PcSet
        /\ r.task \in Task /\ n \in Node /\ r.node \in NodeRecord
    BY RunnerTask, RunnerType
  <1>2. GoodRecord(r.task, ran) /\ Unskipped(r.task) /\ Honest(r.node, n, ran)
    BY <1>1, RunnerFacts DEF Clean, UnskippedInv, HonestInv, GoodRunner, PcSet
  <1>3. r.task.status = "succeeded" => K3sInstall \in ran[n]
    BY <1>1, <1>2, NothingLeft DEF GoodRecord, RecordIsTruthful
  <1>4. \/ nodes' = nodes
        \/ SaveClusterNodeStatus(n, r.node)
        \/ SaveProvisioningTaskStatus(t, r.task)
    BY DEF RunnerNext, RunnerQuits, RunnerStarts, RunnerBeginsStep, RunnerCompletes,
       StepSucceeds, StepFails, StepPanics, RunnerKeepsResult, RunnerSavesNode,
       RunnerSavesTask, RunnerEnds, store
  <1>5. HonestNodes(nodes, ran) /\ HonestNodes(seen, ran)
    BY DEF Clean, HonestInv
  <1> HIDE DEF r, n
  <1>6. HonestNodes(nodes', ran)
    BY <1>1, <1>2, <1>3, <1>4, <1>5, SaveTaskHonest, SaveNodeHonest DEF r, n
  <1>7. \A m \in Node : ran[m] \subseteq ran'[m]
    BY RanGrows
  <1>8. seen' = seen
    BY DEF RunnerNext, RunnerQuits, RunnerStarts, RunnerBeginsStep, RunnerCompletes,
       StepSucceeds, StepFails, StepPanics, RunnerKeepsResult, RunnerSavesNode,
       RunnerSavesTask, RunnerEnds, pollVars
  <1>9. HonestNodes(nodes', ran') /\ HonestNodes(seen', ran')
    BY <1>5, <1>6, <1>7, <1>8 DEF HonestNodes, Honest
  <1>10. runner'[t] # Idle => Honest(runner'[t].node, runner'[t].task.node, ran')
    BY RunnerNode, RunnerTask DEF Continues
  <1>11. ASSUME NEW u \in TaskId \ {t}, runner'[u] # Idle
         PROVE  Honest(runner'[u].node, runner'[u].task.node, ran')
    <2>1. runner'[u] = runner[u]
      BY RunnerTask
    <2>2. runner[u].task.node \in Node
      BY <1>11, <2>1, RunnerType
    <2>3. QED
      BY <1>7, <1>11, <2>1, <2>2 DEF Clean, HonestInv, Honest
  <1>12. \A b \in Browser : HonestNodes(page'[b], ran')
    BY <1>7, PagesKept DEF Clean, HonestInv, HonestNodes, Honest
  <1>13. QED
    BY <1>9, <1>10, <1>11, <1>12 DEF HonestInv

(***************************************************************************)
(* The invariant holds of every behaviour.                                 *)
(***************************************************************************)

\* The clock changes neither steps nor nodes.
LEMMA TimeClean ==
    ASSUME Inv, Clean, NEW t \in TaskId, TimePasses(t)
    PROVE  Clean'
  <1> USE DEF Inv
  <1>1. ASSUME NEW task \in Task \cup {NoTask}, task # NoTask => Unskipped(task)
        PROVE  Aged(task) # NoTask => Unskipped(Aged(task))
    BY <1>1, AgedType DEF Unskipped
  <1>2. /\ \A u \in TaskId : tasks'[u] \in {tasks[u], Aged(tasks[u])}
        /\ \A u \in TaskId : listed'[u] \in {listed[u], Aged(listed[u])}
    BY DEF TimePasses, TypeOK
  <1>3. /\ \A u \in TaskId : tasks[u] \in Task \cup {NoTask}
        /\ \A u \in TaskId : listed[u] \in Task \cup {NoTask}
    BY DEF TypeOK
  <1>4. UNCHANGED <<nodes, seen, runner, page, ran>>
    BY DEF TimePasses, outside
  <1>5. UnskippedInv'
    BY <1>1, <1>2, <1>3, <1>4 DEF Clean, UnskippedInv
  <1>6. HonestInv'
    BY <1>4 DEF Clean, HonestInv, HonestNodes
  <1>7. QED
    BY <1>5, <1>6 DEF Clean

\* A crash forgets copies and makes none.
LEMMA CrashClean ==
    ASSUME Clean, Crash
    PROVE  Clean'
  <1>1. UNCHANGED <<tasks, nodes, page, ran>>
    BY DEF Crash, store, outside
  <1>2. /\ \A t \in TaskId : listed'[t] = NoTask /\ runner'[t] = Idle
        /\ \A n \in Node : seen'[n] = NoNode
    BY DEF Crash, NothingListed, NothingSeen
  <1>3. UnskippedInv'
    BY <1>1, <1>2 DEF Clean, UnskippedInv
  <1>4. HonestInv'
    BY <1>1, <1>2 DEF Clean, HonestInv, HonestNodes
  <1>5. QED
    BY <1>3, <1>4 DEF Clean

\* As long as nothing was cancelled, nothing is skipped and every copy of a
\* node that calls it ready says so with reason.
THEOREM CleanHistory == Spec => [](NeverCancelled => Clean)
  <1>1. Init => Clean
    BY DEF Init, Clean, UnskippedInv, HonestInv, HonestNodes, NothingListed, NothingSeen,
       NothingLoaded
  <1>2. ASSUME Inv, NeverCancelled => Clean, [Next]_vars
        PROVE  (NeverCancelled => Clean)'
    <2> SUFFICES ASSUME NeverCancelled'
                 PROVE  Clean'
      OBVIOUS
    <2>1. CASE UNCHANGED vars
      BY <1>2, <2>1 DEF vars, store, pollVars, outside, NeverCancelled, Clean, UnskippedInv,
         HonestInv, HonestNodes
    <2>2. CASE Next
      <3>1. Clean /\ \A t \in TaskId : ~CancelProvisioningTask(t)
        BY <1>2, <2>2, NeverCancelledBefore DEF Inv
      <3>2. CASE UserNext
        BY <1>2, <3>1, <3>2, UserUnskipped, UserHonest DEF Clean
      <3>3. CASE PollNext
        BY <1>2, <3>1, <3>3, PollUnskipped, PollHonest DEF Clean
      <3>4. ASSUME NEW t \in TaskId, RunnerNext(t)
            PROVE  Clean'
        BY <1>2, <3>1, <3>4, RunnerUnskipped, RunnerHonest DEF Clean
      <3>5. QED
        BY <1>2, <2>2, <3>1, <3>2, <3>3, <3>4, TimeClean, CrashClean DEF Next
    <2>3. QED
      BY <1>2, <2>1, <2>2
  <1>3. QED
    BY <1>1, <1>2, Invariance, PTL DEF Spec

\* Without a cancellation a task that succeeded did every one of its steps,
\* however often it was retried, timed out, crashed or written back stale.
THEOREM SuccessIsComplete == Spec => []SucceededDidEverything
  <1>1. ASSUME Inv, NeverCancelled => Clean
        PROVE  SucceededDidEverything
    <2>1. SUFFICES ASSUME NEW t \in TaskId, tasks[t] # NoTask, NeverCancelled,
                          tasks[t].status = "succeeded"
                   PROVE  \A s \in Step : tasks[t].steps[s] \in {"succeeded", "absent"}
      BY DEF SucceededDidEverything, NoFalseSuccess
    <2>2. tasks[t] \in Task /\ GoodRecord(tasks[t], ran) /\ Unskipped(tasks[t])
      BY <1>1, <2>1 DEF Inv, TypeOK, RecordsInv, Clean, UnskippedInv
    <2>3. QED
      BY <2>1, <2>2, NothingLeft DEF GoodRecord, RecordIsTruthful
  <1>2. QED
    BY <1>1, Invariance, CleanHistory, PTL

\* Without a cancellation no node is called ready on which K3s was never
\* installed, whatever copies of it the executor and the users saved.
THEOREM ReadyNodesHaveK3s == Spec => []ReadyMeansInstalled
  <1>1. ASSUME NeverCancelled => Clean
        PROVE  ReadyMeansInstalled
    BY <1>1 DEF ReadyMeansInstalled, Clean, HonestInv, HonestNodes, Honest
  <1>2. QED
    BY <1>1, CleanHistory, PTL

===============================================================================
