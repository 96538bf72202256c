# Verification of SGX OneBox

TLA+ models of the management platform in `src/` (a Go backend with a React
front end that manages a small K3s cluster with SGX nodes), TLC runs on small
instances, and TLAPS proofs. The models follow the Go code under
`src/internal/`; line numbers of every definition are in `PROJECT.json` under
`map`.

## The system

One Go process serves the HTTP API, keeps all of its state in one snapshot and
runs a few goroutines of its own.

| Component | State | Operations | Interacts with |
|---|---|---|---|
| Snapshot store (`store/sqlite.go`) | the snapshot in memory, one row in SQLite | `Snapshot` (deep copy), `Replace` (write the row, then the memory), `CleanupAudit`, `load` | everything |
| Platform service (`service/platform.go`) | none of record but the session map; `writeMu` serialises writers | every handler: read a snapshot, change it, `Replace` it | store, executor |
| Provisioning service (part of it) | tasks and nodes in the snapshot | register/edit node, delete node, create, retry, cancel task, the executor's save calls | store, executor |
| Provisioning executor (`executor/provisioning.go`) | copies of tasks and nodes in one goroutine per task | poll, recover timed out tasks, run the steps over SSH | service's store adapter, machines |
| Node polling (`executor/executor.go`, `metrics.go`, `join.go`) | failure counters, next attempt | collect metrics, back off, join, mark unreachable | store adapter, machines |
| Sessions and login | session map, stored sessions, failure counters, locks | login, logout, current user, cleanup, change password, restart | store, user administration |
| User administration | users | save, delete, role check in the API | sessions |
| Cluster upgrade | upgrade status | start, download, reset, reconcile | store |
| Image builds | image records | build with timeout | store, container tool |
| Components, networks, packages, enclaves, attestation | records | save, delete, deploy, attest | each other by reference |
| Plugins | plugin records | save, enable, disable; `DispatchPluginHook` has no caller | – |
| Compliance and audit | the last six reports; audit events of a year | put in front, score, prune by age | every write |
| HTTP API (`api/server.go`) | captchas, rate limiter | routing, role check, upload | service |
| Web UI (`apps/web`) | the snapshot each browser loaded last | load (every 30 seconds, after a save), forms | API |
| Deployment scripts, runtime bundles | – | – | – |

What makes the system hard to test is that most state is written twice: by
users through the API, from what their browser loaded last, and by the executor
from copies it read seconds or minutes before. The executor's goroutines, its poll loop, the session cleanup
and the API handlers interleave at every store call; the process may die
anywhere, and a write may fail with the code only logging it. The hazards are
listed, each at its line, in `PROJECT.json`.

What each component has to get right:

* provisioning: stored tasks tell the truth about the machine, steps happen in
  order, an ended task stays ended unless retried, a cancelled one stays
  cancelled, the node agrees with its task, one task per node runs, every task
  and every goroutine ends, an SGX failure keeps K3s;
* store: readers and crashes see only whole snapshots that were written;
* sessions: memory and store agree, a removed session stays removed, locks come
  and go with their counters;
* users: an active administrator remains; a decision on a role uses that role;
* image builds: no image stays in the making with nobody to report, and a late
  result does not bring a deleted image back;
* entities: no dangling references, and no secrets released without a proof;
* node polling: a dead node is reported, a live one is visited again, and a
  round does not undo what users did meanwhile;
* API: auditors change nothing; captcha and rate limiter: once, bounded.

| Part | Module | Proofs | Runs |
|---|---|---|---|
| provisioning | `TaskLifecycle`, `Provisioning`, `MCProvisioning` | `ProvisioningProofs`, `ProvisioningResults`, `ProvisioningNodes` | `prov_*` (6) |
| sessions | `Sessions` | `SessionsProofs` | `sessions*` (2) |
| store, upgrade | `Register`, `SnapshotStore` | `SnapshotStoreProofs` | `store` |
| node polling | `NodePoll` | `NodePollProofs` | `node_poll` |
| builds, components, networks, enclaves | `Entities`, `MCEntities` | `EntitiesProofs` | `entities` |
| API roles, users | `Access` | `AccessProofs` | `access` |

## Provisioning

### Modules

* `TaskLifecycle` is the promise: the status of one task and the moves it may
  make (create, start, finish, cancel, retry, remove), whoever writes it.
* `Provisioning` is the code: users, poll loop, goroutines, clock, crashes.
* `MCProvisioning` gives the bounds their values for TLC.
* `ProvisioningProofs` holds the inductive invariant and the theorems;
  `ProvisioningResults` those about a history without cancellations;
  `ProvisioningNodes` those about the nodes' records and their tasks.

### State and code

| Variable | Code |
|---|---|
| `tasks`, `nodes` | `Snapshot.ProvisioningTasks`, `Snapshot.ClusterNodes`: the store, which survives a crash |
| `created` | the last identifier given out (`uniqueEntityID`; identifiers never recur in the model) |
| `phase`, `listed`, `seen` | the poll goroutine inside `pollOnce` / `pollProvisioningTasks`: where it is and what `ListProvisioningTasks` and `ListClusterNodes` returned |
| `runner[t]` | the goroutine `runProvisioningTask` of task `t`: program counter and its own `task` and `node` |
| `page[b]` | the nodes of the snapshot browser `b` loaded last (`loadData`, App.tsx) |
| `ran[n]` | history: the steps whose command has succeeded on the machine of `n` (the machine itself; survives everything) |
| `used` | how often each bounded event has happened |
| `outdated` | history: the nodes an edit from an outdated page took back to an earlier task or provisioning status, until a task of theirs is saved |

A user operation is one action because the service holds `writeMu` from the
snapshot to the `Replace`. In the executor each call of the store is one
action (`PollListTasks`, `RunnerSavesNode`, …); between two of them anything
else may happen. `SaveProvisioningTaskStatus` and `SaveClusterNodeStatus` are
the store adapter's functions: they save over what is there, except that a
cancelled task can only be saved as cancelled, and a deleted record is not
brought back. `StoreFails` is a `Replace` that returned an error.

An edit of a node is two steps of a browser. `LoadPage` copies the nodes, at any
moment. `EditNode` submits the node form: it sends the whole record of the page
with the form's fields over it (`toClusterNodeUpdatePayload`,
DeploymentTab.tsx:49), the API passes it on, and `SaveClusterNode` replaces the
stored node with it (platform.go:1893), provisioning status and task included;
what the code keeps of the old record (time of joining, usage, SSH password) is not
in the model. The page may be as old as it likes, and the node deleted meanwhile: then
the edit registers it again. A page serves only such edits, so the model drops
them once no save is left (`PagesNeeded`).

A node is reduced to the fields these functions write and the properties tell
apart, a task to its status, its steps and whether it has aged 30 minutes. SSH commands are reduced to their outcome. `TimePasses`
ages a running task only while no goroutine runs it: the poll loop, the only
reader of the age, waits for its goroutines before it lists again, and a listed
task that is running has no goroutine (theorem `EndedAlone`), so ageing at
other moments would change nothing it can see.

Steps 1 to 5 are preflight, K3s installation (server or agent), runtime
verification, SGX/DCAP and final verification. Without SGX the code has no
fourth entry; the model marks it `absent`.

### Runs

| Run | Bounds | Shows |
|---|---|---|
| `prov_requests` | 1 node, 1 browser, 2 tasks, a semaphore of 2, 2 registrations or edits, 1 delete, retry and cancel, no SGX | `TypeOK`, `StepsAreTruthful`, `StepOrder`, `EndedTasksAreAlone`, `NodeTellsOfItsTask`, and that `Provisioning` implements `TaskLifecycle` |
| `prov_faults` | 1 node, 1 task, with and without SGX, 1 retry, cancel, crash and store error | `NodeTellsOfItsTask`, `SucceededDidEverything`, `ReadyMeansInstalled`, `SGXFailureKeepsK3s`, and under fairness `TasksEnd`, `RunnersEnd` |
| `prov_slots` | 1 node, 2 tasks, a semaphore of 1, 2 registrations, 1 retry and crash, no SGX | under fairness `TasksEnd`, with the poll loop blocked at the semaphore |
| `prov_two_running` | violation | design.md's "one running task per node" fails after a retry |
| `prov_false_success` | violation | design.md's "no false success" fails after cancel and retry |
| `prov_cancel_race` | violation | a cancellation inside the check-then-save window leaves the node running |

Two tasks of one node are the least at which stale copies of different tasks
meet; in `prov_requests` a semaphore of two lets both run, in `prov_slots` one slot
makes the second wait until the first goroutine has left, the only place where
the poll loop blocks in the middle of its list. The mutant of `prov_slots` keeps the
slot of an ended task. `prov_slots` has no browser: edits do not touch tasks other
than by creating them, which registrations do as well. One browser is enough
elsewhere, since it may load at any moment and a second one would only hold
another earlier copy. Tasks of different nodes share nothing but
the semaphore and the poll loop's order. The theorems below remove the
bounds for every safety property of the passing runs, so also the single task of
`prov_faults`; for the liveness properties the bounds stay. One crash and one failing write
each are allowed at every point of a task's life; `prov_faults` therefore does
not cover two faults in a row, which differ from one only in that the second
may hit the recovery from the first (also a write of the same kind).

Two properties name their conditions, each of which a
behaviour of the code requires:

* `NodeTellsOfItsTask` holds at every moment, not only when the executor
  rests, because `SaveProvisioningTaskStatus` writes the task and its node's
  provisioning status together, and through cancellations and retries. It speaks
  of tasks that succeeded or failed: after a cancellation the executor's save of
  its copy may leave the node `running` (the finding of `prov_cancel_race`). And
  it asks that the node's other tasks succeeded: while one of them
  is unfinished, or after one failed, the poll loop may have saved that one's
  timeout to a copy of the node from before the node's task ended, and the node then
  says failed of a task that succeeded. Last, it leaves out the nodes in `outdated`:
  a form whose page was loaded while the task ran and that is sent after it ended makes
  the node `running` again, of a task that succeeded or failed, and nothing corrects it
  until a task of the node is saved. What the property says of edits is that
  this is all: an edit from a page that still tells what the store tells does
  no harm, and an outdated record is not handed on by the copies of the poll loop and the
  goroutines once a task was saved. `prov_requests` has the stale edits among
  deletions, retries and two tasks, `prov_faults` the faults.
* `SGXFailureKeepsK3s` speaks of an `Undisturbed` history and of the only task of a
  node. Saving the node and then the failed task are two calls. A cancellation
  and a retry between them, an edit of the node, or an error of the first call loses
  the K3s state. Crashes, panics, timeouts and retries after the failure do not.

### Fairness

`FairSpec` assumes weak fairness of `PollNext` (the ticker of `Start`,
executor.go:69-98, runs `pollOnce` again and again), of `RunnerNext(t)` (a
goroutine is scheduled, and every SSH command is bounded by a timeout, so a
step succeeds, fails or panics), and of `TimePasses(t)` (thirty minutes pass).
Nothing is assumed of users, crashes or store errors; those are bounded, so
eventually the system is left to itself. `TasksEnd` relies on the bound: a
crash in every half hour could keep a task from ending.

### Findings

1. *Two running tasks.* `RetryProvisioningTask` (platform.go:1943) does not look
   for another unfinished task of the node.
2. *False success.* Retrying a cancelled task resets its first step only
   (platform.go:1958); the skipped ones stay skipped and the task succeeds.
3. *Cancelled node overwritten.* The executor's check of the task
   (provisioning.go:155) and its save of the node (164) are two calls; a
   cancellation between them leaves the node `running`.

Met while modelling, without a run of their own: a cancel and a retry between
the two saves of an SGX failure undo the K3s state the node had kept; two
tasks of one node break the agreement of node and task; one more command is
executed after a cancellation that is noticed at the save only; metrics of a
listed node are saved over an edit made meanwhile; an edit sent from a page loaded
before a task ended takes its node back to `running`. No document or test
of the repository says otherwise of the last, so there is no violation run for it.

### Proofs

`ProvisioningProofs` proves, for every set of nodes, number of tasks,
semaphore size and bounds (`ConstantsAssumption` says only what these are):

* `TypeCorrect`: `Spec => []TypeOK`
* `TruthfulRecords`: `Spec => []StepsAreTruthful`
* `OrderedSteps`: `Spec => []StepOrder`
* `EndedAlone`: `Spec => []EndedTasksAreAlone`
* `ImplementsLifecycle`: `Spec => FollowsLifecycle`

All come from one inductive invariant, `Inv == TypeOK /\ RecordsInv /\
AloneInv`. None of the properties is inductive alone, because the executor
writes copies back: `RecordsInv` says that the record in the store, the listed
copy and the goroutine's copy of each task are all truthful and ordered (and,
of a goroutine's copy, how its current step is marked at each program
counter); `AloneInv` says in which phases of the poll a goroutine may exist, that its
task is no longer in the list, and that the store cannot hold the task as
succeeded or failed meanwhile. The latter is what makes the timeout recovery
safe: a listed running task has no goroutine. Lemmas about
`buildProvisioningSteps`, `Restarted`, `Skipped` and the save functions are
stated once; each action then has one step. For the refinement every action is
mapped to a move of `TaskLifecycle` or a stutter; `AloneInv` rules out the move
it forbids (a save of a stale `running` over an ended task).

`ProvisioningResults` builds on it:

* `CleanHistory`: `Spec => [](NeverCancelled => Clean)`
* `SuccessIsComplete`: `Spec => []SucceededDidEverything`
* `ReadyNodesHaveK3s`: `Spec => []ReadyMeansInstalled`

`Clean` says of every copy, not of the store alone, what the two properties say
of the store: no step of any stored, listed or running copy of a task was
skipped (`UnskippedInv`), and no stored, listed or running copy of a node calls
it ready unless K3s succeeded on its machine (`HonestInv`). Cancelling is the
only action that skips steps, and `NeverCancelledBefore` carries its absence
back through every step. A goroutine calls its node ready after the K3s step,
at a later step, or when no step is left; in each case the order and the
truth of its record (`Inv`) and the absence of skipped steps give that K3s
was installed (`DoneBefore`, `NothingLeft`).

`ProvisioningNodes` relates nodes and tasks:

* `NodesInvariance`: `Spec => [](Inv /\ NodesInv)`
* `NodesTellTheTruth`: `Spec => []NodeTellsOfItsTask`
* `SgxInvariance`: `Spec => [](Inv /\ NodesInv /\ SgxInv)`
* `SgxFailureLeavesK3s`: `Spec => []SGXFailureKeepsK3s`
* `OneTaskAtATime`: `Spec => [](NeverRetried => OneUnfinished /\ OneRunningTaskPerNode)`

Every action is first reduced to what it does to the store (`Told`: a task gets
a status and its node is told; `Put`: a node's record is replaced; `Born`: a
new task), who holds which copy afterwards is stated apart, and then each part of the
invariant is shown for these few effects. The parts, in the order in which they
rest on each other:

* `IdInv`: a copy of a task, listed or of a goroutine, is about the same node
  as the stored task; a copy of a node names a task of that node; no copy is
  of a task still to be created. Without it a save of a stale copy could tell a
  node of another node's task.
* `SinceInv`: when a listed task was deleted meanwhile, what its node has now is
  pending or cancelled and unknown to the executor; a task that is being timed
  out has not succeeded. The timeout saves the task first and then the listed
  copy of its node as failed, so this is what makes the second save right.
* `TellsInv`: `NodeTellsOfItsTask` of the store and, while metrics are
  collected, of the copies of the nodes, which are saved whole. The other copies
  need not satisfy it: they are saved with a status of their own. The
  browsers' pages need not either, which is why `outdated` is part of the invariant: a
  record from a page either tells of its task what the stored node told,
  or puts the node into `outdated`, and every save of a task takes it out as it tells
  the node anew (`TellsAll`, `UserKept`). The other parts hold of the pages too: `IdInv`
  says that they name no task still to be created, `HonestInv` that they call no
  node ready that never had K3s.
* `SgxInv`: without cancellations a step is marked failed only in a task that
  failed (`UncancelledInv`), so a failed SGX step was marked by the goroutine
  whose copy of the node has K3s (`RunnersKept`); and without
  deletions, edits and lost writes the stored node has it from the
  moment the goroutine is about to save the task, and so do the copies for the metrics
  once the task is saved (`StoreKept`). That an edit is impossible follows by
  counting: every task took a save of a node (`PresentInv`), so with as many saves as tasks
  none was a mere edit.

`OneTaskAtATime` is the other half of the finding in `prov_two_running`:
design.md's property 3 does hold for any number of tasks, crashes, cancellations
and failing writes as long as nothing is retried, since a task is created only for a
node that has no unfinished one.

Only model-checked: the liveness properties `TasksEnd` and `RunnersEnd`
(fairness is out of the prover's reach here).

### Not modelled

`CreateProvisioningTask` (no caller outside the tests), the refusals of
`DeleteClusterNode` because of deployed components and enclaves (deleting is
always possible in the model, which has more behaviours), messages, evidence,
audit events, the validation of the node form, the `SGXFailed` and
`RuntimeFailed` values that this code never stores on these paths.

## Sessions

### Modules

* `Sessions` is login, logout, `CurrentUser`, change of password, accounts, the
  clean-up ticker, restarts and failing writes.
* `SessionsProofs` holds the inductive invariant and the theorems.

### State and code

| Variable | Code |
|---|---|
| `users`, `failures`, `locks`, `stored` | `Users`, `LoginFailures`, `LoginLockedUntil`, `Sessions` of the stored snapshot |
| `sessions` | `PlatformService.sessions`, the map every request is checked against |
| `request[r]` | a call of `CurrentUser`, with the copy of the session it looked up |
| `unsaved`, `revoked` | history: a write of the sessions failed since the last good one; tokens ended by a change of password |

Times are counted down: a session has `left` ticks until `ExpiresAt` and `life`
until it is seven days old, a lock its ticks until it is over. So nothing
grows, and the run bounds neither logins nor time nor faults. The counter of failures
stops at the limit, since the code only asks whether it has reached it.

The code writes sessions in two ways. Login, logout, change and deletion of
accounts, `CurrentUser` and the clean-up change the map first and then copy it
into the snapshot (`WriteSessions`: if the write fails, the map stays changed);
everything else writes the stored sessions back as they were (`WriteOthers`).
`CurrentUser` is three steps: the look-up (`LookUp`), the judgement of the copy
(`Judge`), and the change under `writeMu` (`Drop`, `Keep`), which does not look
the session up again.

### Runs

| Run | Bounds | Shows |
|---|---|---|
| `sessions` | 1 user, 1 token, 2 requests; 2 ticks of disuse, 3 of life, 1 of lock, 2 failures | `TypeOK`, `SessionsHaveUsers`, `LockGoesWithCounter`, `StoreAgrees`, and under fairness `SessionsEnd` |
| `sessions_revoked` | violation; 1 user, 1 token, 1 request | CHANGELOG.md's "a change of password revokes all sessions" fails while a request is under way |

With one tick of disuse no session could be extended past its first tick, hence
two, and three of life, so that the age and the expiry end sessions at
different times. One token is enough for the races, which are between requests for the same
session, and it is used again after a restart has forgotten it (not after it
was revoked, and not while a request still knows it). Two requests hold two stale
copies of one session. One account is enough: no property relates two, and
every operation on another account writes the sessions and counters of this one
as its own operations do. The theorems remove the bounds but for `SessionsEnd`.

`SessionsHaveUsers` is not obvious: `Keep` puts a session back without looking,
and only its look-up of the user, under the same lock, keeps a deleted
account's session from returning. `SessionsEnd` rests on the age travelling
with the copy.

### Fairness

Weak fairness of `Tick` (time passes) and of `CleanUp` (the ticker of one minute
in `StartSessionCleanup`). Nothing of requests, users, faults and restarts, which
may happen for ever or stop in the middle.

### Finding

`CurrentUser` puts the session back (platform.go:577) that a change of password
removed between its look-up (533) and its lock (562). The same holds for a
logout. Met as well: `SaveUser` can set a new password for an account without
ending its sessions, and counters of unknown user names below the limit are
never removed; nothing in the repository says otherwise of either.

### Proofs

`TypeCorrect`, `SessionsBelong` (`SessionsHaveUsers`), `LocksMatch`
(`LockGoesWithCounter`) and `Agreement` (`StoreAgrees`), for any users, tokens,
requests, times and limit. Each invariant is inductive with the types; the
proofs split the actions by their way of writing, so that the lemmas about
`WriteSessions`, `WriteOthers` and `Without` do most of the work.
`SessionsEnd` is only model-checked.

Two theorems say what remains of the promise that `sessions_revoked` refutes.
`Dead(k)` is a token without a session in the map and in the store that no
request is bringing. `PasswordChangeRevokes`: a change of password whose
write succeeds makes every token of its user dead, except those that a request has
looked up and not finished with. `RevocationIsFinal`: a revoked token that is dead
is dead for ever, through logins, other requests, restarts and failing writes,
since a login takes a new token, a look-up needs the session, and the only
action that puts one back, `Keep`, does so for its own request's token. So the race of
the finding is the only way in which a session survives the change.

### Not modelled

Renaming an account and the refusal to delete oneself or the last administrator
are in `Access` (here the model may delete anybody: more behaviours). Left out:
the 14-day age of a token, which is longer than its session lives, a change of
the session timeout while sessions exist, and the captcha and rate limit before
a login.

## The snapshot store and the cluster upgrade

### Modules

* `Register` is the promise: edits are written once and never lost; a writer is
  told of success after its edit was written.
* `SnapshotStore` is `SQLiteStore` with its two locks and the parties that use
  it: handlers, readers, the audit clean-up, crashes.
* `SnapshotStoreProofs` holds the inductive invariant and the theorems.

### State and code

| Variable | Code |
|---|---|
| `memory`, `row` | `SQLiteStore.snapshot`, the row of table `snapshots` |
| `writeMu` | `PlatformService.writeMu` |
| `client[c]` | a request's goroutine: its place, its copy of the snapshot and the edit it made |
| `old` | the audit events older than a year |
| `acked` | history: edits whose `Replace` returned without error |

A snapshot is reduced to the edits it contains, their audit events and the
upgrade. A handler copies the snapshot under `writeMu` (`Begin`), refuses or
fails (`Refuse`), or changes its copy and writes the row (`WriteRow`); the
memory follows (`Replace`). The store's own mutex is not a variable: it is held
exactly while some client is between the last two, and whoever needs it waits
for `StoreFree`. What a handler does to the upgrade is given by
`UpgradeCluster`, `DownloadClusterUpgrade` and `ResetClusterUpgrade`; other
handlers leave it alone. Every read of the platform passes through
`reconcileClusterUpgrade` (`View`, `Reconcile`), which would write a stale
copy; the branch that does is never taken, because no upgrade is
ever stored as running at less than 5. The invariant `NeverBehind` says so, and
the mutant of `AckedSurvives` shows what is lost otherwise.

### Run

| Run | Bounds | Shows |
|---|---|---|
| `store` | 2 clients, 2 edits; any number of crashes, failing writes, clean-ups and reads | `TypeOK`, `AckedSurvives`, `MemoryIsRow`, that `SnapshotStore` implements `Register`, and under fairness `CallsReturn` |

One client holds the lock while the other reads, waits or writes what it read
before; a third would wait like the second. Two edits let one be acknowledged
and lost by the other.

### Fairness

A handler that holds `writeMu` goes on (weak fairness: it refuses, fails or
writes). A reader that waits for `writeMu` gets it although others take it
again and again (strong fairness): Go's `sync.Mutex` hands itself over to a
waiter that has waited for a millisecond.

### Proofs

`TypeCorrect`, `NoEditIsLost` (`AckedSurvives`), `ReadersSeeTheRow`
(`MemoryIsRow`) and `ImplementsDurable` (`ImplementsRegister`), for any clients
and edits, from `Inv`: one holder of `writeMu` (`LockInv`), whose copy is the
state but for cleaned-up events (`CopyInv`), and `NeverBehind`, from which
`NothingToReconcile` follows. `CallsReturn` is only model-checked.

### Not modelled

Schema migrations, the import of the former JSON file, `load`'s reset to the
seed when the row cannot be read, the WAL checkpoint, `normalize`. SQLite's
commit of one row is taken as atomic and durable. A row written by some other
version of the program is outside the model: were it to hold a running upgrade
at less than 5, the first readers would write stale copies. The SSH side of
an upgrade is not modelled, hence not the case that its command was sent and
the row not written.

## Node polling

### State and code

| Variable | Code |
|---|---|
| `nodes` | `Snapshot.ClusterNodes`: role, join command, status and join status |
| `token` | `K3S_TOKEN` in the environment, fixed while the process runs |
| `failures`, `attempt` | the executor's maps `consecutive` and `nextAttemptAfter`, with the ticks left instead of a time |
| `listed`, `outcome` | inside `pollOnce`: the listed copies and the results of the visits |
| `up` | the machine answers over SSH |
| `edits`, `faults` | how often each bounded event has happened |

A round is `List` (prune the maps, skip the nodes that wait, copy the others),
one `Visit` per node in a goroutine of its own, and, after all visits, one
`SaveResult` per node, which is a call of the store and the update of the maps.
Users save and delete nodes at any point between. A visit that panics leaves a
zero result, whose identifier is the empty string (`Nobody`): the failure is
counted for it, while the node that was visited is the one that may be reported.

A join command is derived when the node is saved (`buildJoinCommand`) and run
by the poll (`tryJoinNode`). The model keeps only whether there is one and
whether it needs the token; see *Divergences* for why no join succeeds.

### Run, bounds and fairness

`node_poll`: one node, a threshold of 3 failures, a backoff capped at 2^2, 4
edits, 3 faults (failing writes, panics, restarts). Nodes share nothing but the
round, its barrier, and the entry `Nobody`, so one node meets all of its own
interleavings; the safety theorems hold for any number. The threshold is the
code's; the cap is 2 instead of 6 so that failures go beyond it (4 are counted).
Edits suffice to delete a node, save it anew and edit it twice within one round.

It checks `TypeOK` (which bounds every wait by the capped backoff),
`BackoffMatchesFailures`, `PollKeepsUserEdits`, and under fairness
`DeadNodesAreReported` and `LiveNodesReturn`. Fairness is weak fairness of
`Tick`, `List`, `Visit` and `SaveResult`: the ticker's loop goes on, and each
SSH command has a timeout. Machines may go up and down for ever; the liveness
properties speak of those that settle. As in provisioning, faults and edits are
bounded.

### Proofs

`TypeCorrect`, `BackoffCorrect` (`BackoffMatchesFailures`) and `EditsAreKept`
(`PollKeepsUserEdits`) for any nodes, threshold, cap and bounds, from the
invariant `IInv`: the types and the pairing of the two maps. It is needed
because pruning looks at one map and deletes from both, so the pairing is kept
only if it held before. `PowerAssumption` says that powers of two up to the cap
are naturals, which these provers cannot derive; TLC evaluates it. The two
liveness properties are only model-checked.

## Entities: builds, components, networks, enclaves

### State and code

| Variable | Code |
|---|---|
| `images`, `components`, `networks` | `Snapshot.Images` (the vulnerability status), `Components`, `Networks` |
| `profiles`, `attestations`, `keys` | `Snapshot.Enclaves`, `Attestations`, `EnclaveKeys` |
| `builds[b]` | one image build: its worker (`_runImageBuild`) and its watcher (the `select` of `runImageBuild`) |
| `orphaned` | history: images left `scanning` by a restart, a failing write or an edit |

A handler reads, changes and replaces the snapshot under `writeMu` with its
executor command inside, so it is one step; one that refuses or whose write
fails changes nothing. A batch takes the lock once for each component.
An image build is different: `Register` saves the image as
scanning, `Launch` takes the lock again and starts the goroutines; then the
worker returns, reports or panics, and the watcher is told or times out, each
of which takes the lock again and looks for the image again.

### Run and bounds

`entities`: one image, two components, one network, profile, key and VLAN, and
two builds. `FewAtOnce` of `MCEntities` limits components and builds to two
together: builds meet components only through `DeleteImage`. Components and
builds are symmetric; no liveness is checked under the symmetry. One image for
two builds makes them race each other. Two components are needed for a
deletion that must leave the other's records. With one network the conflict of VLANs
never arises in the instance; no property depends on it.

`TypeOK`, `ReferencesExist`, `ScanningIsExplained`, `ReleasedMeansVerified`,
`SecretsReleasedOnlyByProof`, `BuildsCreateNoImage`. `ScanningIsExplained` names
what may leave an image scanning for ever: a restart or a failing write, which
the code does not recover from, and an edit that sends the status back. Without
these, of two builds of one image the later registration, a panic after the
timeout, and a worker that finds its context ended always leave somebody to report.

### Proofs

All six, for any identifiers and any number of builds. `ReferencesExist` is
inductive with the types. For `ScanningIsExplained` each step of a build is
reduced to its effect (`StepEffect`): either the build may still report, or it wrote
the image or gave it up; other builds' explanations (`Explains`) are not
touched. `SecretsReleasedOnlyByProof` says which step released
the secrets: a `RunAttestation` of an enclave component with a profile, and not a
step that a submitted result could have made. The last needs saying because an
attestation may change the records exactly as a submission would; `SubmissionReleases`
shows that a submission releases nothing that was not released, `AttestationStep`
goes through the actions that touch attestations.

## Access: who may change what

### State and code

| Variable | Code |
|---|---|
| `accounts` | `Snapshot.Users`: name, role, status |
| `request[r]` | a request to `/users` after `requireUser`, with the name its caller had then |
| `changedBy` | history: the roles that were let in to change something |

Each handler that changes something is a record of the roles it lets in and the
service's operations it calls (`handleImages`, `handleUsers`, …; `Routes` is the
set of them). `Change` lets a caller in by its current role; what the
operation does is in the other modules. For accounts the gap matters: `Admit`
reads the role, and `SaveUser` and `DeleteUser` come later under `writeMu`
with nothing but the caller's name.

### Run and bounds

`access`: three accounts, three names of which one equals an identifier
(`DeleteUser` compares the identifier with the caller's *name*), two requests. Two
administrators and two requests are enough to remove each other; the third
account gives a name to take or an auditor to promote. Deadlock is not
checked: once no active account is left, nobody can be let in and the modelled
system really stops.

`TypeOK`, `UsernamesUnique`, `AuditorsChangeNothing` and
`AdministrationEndsOnlyTwoWays`. The last says in which ways the last active
administrator is lost: (1) by a request let in before its caller was disabled,
demoted, renamed or deleted; (2) by an administrator who deletes the own
account, which line 869 does not prevent since it compares identifier and
name, while the remaining administrators are disabled, whom line 876 counts.
Every other request leaves an active administrator.

### Proofs

All four, for any accounts, names and requests. `AdministrationIsKept` rests on
two lemmas: a save leaves the role and status of a caller that is still what it
was (`SaveLeavesTheCaller`), and a deletion that takes the caller leaves
another administrator, perhaps a disabled one (`DeleteLeavesSomebody`).

## Divergences without a run of their own

Each is a reading of the code that the models contain; none has a violation run.

* `buildJoinCommand` makes commands that begin with `curl` (platform.go:2447,
  2456, 2458), and `tryJoinNode` refuses a command that does not begin with
  `k3s ` (join.go:34). So no registered node ever joins through the poll, where
  `.monkeycode/specs/builtin-ssh-executor/requirements.md` (R2, 30-37) has the
  poll run the generated command. Nodes join by provisioning tasks.
* `.monkeycode/specs/sgx-onebox-platform/requirements.md:102` has auditors run compliance checks;
  `handleRunCompliance` (server.go:2128) lets platform and security
  administrators do so.
* The same document, line 50, has the platform block the release of a component
  that lacks its isolation configuration. `DeployComponent` checks the profile,
  but `ScaleComponent` calls a draft deployed without the check, and
  `DeleteEnclave` removes the profile of a deployed component.
* An upgrade of an enclave component keeps the attestation and the released
  secrets of what ran before.
* `SaveUser` can set a new password for an account without ending its sessions.

## Not modelled

* Install packages, marketplace applications, plugins, policies, quotas,
  settings, compliance tasks, topology links, enclave resources and
  inspections: each handler writes one record that no other handler's decision
  reads, under the lock that `SnapshotStore` models. Who may call them is
  in `Access`.
* `DispatchPluginHook` and its semaphore: nothing in `src/` calls it.
* The compliance report, computed from one snapshot, and the texts of audit
  events. `appendAuditEvent` puts an event in front of the list and cuts nothing,
  `prependReport` keeps six reports; the age limit of the audit is in `SnapshotStore`.
* Captcha and rate limiter, uploads' contents, CORS, JSON.
* The SSH connection and the text of the commands: a command is its outcome.
  The SSH side of a cluster upgrade, hence the case that its command was sent and the
  row not written.
* The web UI except for the snapshot it loaded and its node form (`Provisioning`):
  the other forms send records of the page as well, and what is lost by that is
  not modelled.
* Runtime bundle lookup, packaging scripts: no state of record.

## Plan

Done, in this order: `Provisioning`, `Sessions`, `SnapshotStore`, `Entities`,
`NodePoll`, `Access`, each with its runs and proofs. Every safety
property of the passing runs is also a theorem. Left: a module for the gate before
the login (captcha and rate limiter), and theorems beyond the runs' properties:
what a cancellation guarantees when it does not meet the window of
`prov_cancel_race`, and how far a snapshot's writers may be abstracted to one
atomic step in the other modules, which take that from `SnapshotStore` informally.
