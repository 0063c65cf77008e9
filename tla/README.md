# TimeTerra: a TLA+ verification project

TimeTerra is a Kubernetes operator.  Users write `Schedule` objects (named
actions, each with a cron expression) and resource objects of seven kinds
(`K8sHpa`, `K8sPodReplicas`, `K8sRunJob`, `AwsEc2Instance`,
`AwsTransferFamily`, `AwsRdsAuroraCluster`, `AwsDocumentDBCluster`) that name a
schedule and say what each action does to them.  The operator keeps one
in-memory cron entry per (schedule, action, resource) and runs the job when it
fires.  Scaling a database cluster takes longer than a job may, so that job
creates an `ActionExecution` object, which another controller drives through
the phases of the operation.

This directory models the operator's registry of jobs and the controllers that
drive it, what runs when a job fires, the scaling of clusters and the delivery
of notifications; checks the models with TLC; and proves with TLAPS every safety
property the passing runs check, the two refinements included, for every value
of the constants.  What must eventually happen is checked by TLC alone.

## 1. Inventory

| Component | Source | State | Operations | What makes it correct |
|---|---|---|---|---|
| Cron registry | `internal/cron/schedule_service.go` | map `m` of ids under `mu`, the cron's entries, a gauge | `Add`, `Remove`, `RemoveResource`, `RemoveActionsOfResourceFromNonCurrentSchedule`, `UpdateCronSpec`, getters | an id in `m` is a live entry of that key; the gauge counts the entries |
| Resource reconciler | `internal/controller/resource_controller.go` | none of its own: registry, object status | `reconcileResource`, `updateStatus` | jobs are those the spec declares; a retired resource has none; what it leaves in the status is true |
| Schedule controller | `internal/controller/schedule_controller.go` | none of its own | `Reconcile`, `reconcile` | jobs follow the schedule's cron expressions |
| Seven resource controllers | `internal/controller/{k8s,aws}*_controller.go` | the AWS or Kubernetes object they act on | `Reconcile`, the job of each kind | each job does its action, reports what it did |
| ActionExecution controller | `internal/controller/actionexecution_controller.go` | phase and data in the object's status | `Reconcile`, `finalizeAction` | every execution ends and is reported |
| Vertical scale handlers | `internal/action/*.go` | the AWS cluster | the phases of `GenericScaleHandler.Execute` | success means scaled; no failover before the readers are scaled |
| Job closure and period gate | `resource_controller.go:160-256` | none | schedule, action and period checks at fire time | a job runs in active and not in inactive periods |
| Notification service | `notification/service.go` | recipients by schedule, a bounded channel | `Send`, `AddRecipientToSchedule`, `RemoveRecipient`, `Start` | a notification reaches the recipients of its schedule, or is dropped and logged |
| NotificationPolicy controller | `internal/controller/notificationpolicy_controller.go` | the recipients | `Reconcile` | recipients match the policies |
| Feature gates | `internal/feature`, `cmd/main.go` | the enabled features | parse at start-up, `IsEnabled` | the flag decides, the environment only without one; a closed gate skips the scaling |
| AWS credentials | `internal/controller/aws_utils.go` | a Secret, written by users | look up its keys | a job without usable credentials touches nothing and says so |
| Start-up and shutdown | `cmd/main.go` | the manager's context | restart; stop the cron, close the channel, drain | what was accepted is handled; a hanging job does not keep the operator |
| Senders | `notification/{api,slack,msteams}.go` | none | one HTTP call | a failed call is not repeated and stops nobody else |
| API types, generated code, packaging | `api/v1alpha1`, `config`, `dist`, charts | none | data | outside these models |

How they interact.  Every controller is a goroutine of its own with a work
queue; all of them call the one registry.  The registry's map is under a
mutex, the robfig cron underneath has a lock of its own and can be read and
written without the first.  Objects are read from informer caches and written
to the API server under optimistic concurrency.  Cron jobs run on goroutines of
the cron, read the caches, act, update the same status, and hand the outcome to
the notification service through a channel.

What is hard.

* `Add` puts the entry in the cron before it locks the map; `UpdateCronSpec`
  adds a new entry, then removes the old one (atomicity).
* The resource reconciler copies ids, then looks them up and acts on them
  without a lock; it uses the schedule it read at the start (stale state).
* Objects are edited, deleted and recreated faster than they are reconciled;
  status updates lose races and are retried (ordering, partial failure).
* The registry lives in memory and is rebuilt after a restart (crash).
* Jobs of one resource run side by side, and beside its reconciler, which may
  have moved or disabled it since, and write its whole status back from a copy of
  any age; a loop over targets fails half-way (stale state).
* Notifications are dropped when the channel is full, and the channel is closed
  while others send and the cron still drains its jobs (delivery, shutdown).
* A call that failed may have taken effect; objects are created under names two
  firings may share; Go ints are cut to int32; a spec without namespaces and
  with an empty selector could mean everything there is (partial failure,
  numeric edges).
* The Secret of an AWS resource is no watched object: it comes and goes between
  reconciles and before a job uses it (stale state).
* The scale handler acts on AWS before it saves the phase it has reached, from
  a cached copy that may be stale; AWS answers late, fails over unasked, never
  answers (crash, retry, timeout).

`PROJECT.json` lists each hazard at its line with the properties that would
catch it.

## 2. Modules

| Module | Models |
|---|---|
| `ScheduleService` | the registry, called in any way |
| `Reconcilers` | extends `ScheduleService`: the Schedule controller and the resource controllers drive it, with users and restarts |
| `VerticalScale` | ActionExecution objects, their controller, the scale handler and an AWS cluster |
| `JobKinds` | what each of the seven job functions checks, lists, calls and sets; feature gates, credentials, names (operators only) |
| `CronJob` | extends `JobKinds`: what runs when an entry fires, the closure's checks and periods and the steps of a job |
| `Notification` | the notification service, its and the cron's shutdown, and the NotificationPolicy controller |
| `JobRegistry` | abstract: a table with one job or none per key, changed in single steps; `ScheduleService` implements it |
| `LossyFifo` | abstract: a bounded queue that refuses but does not lose; `Notification` implements it |
| `ScheduleServiceProofs` | theorems about `ScheduleService` |
| `ReconcilersProofs` | extends `ScheduleServiceProofs`: theorems about `Reconcilers` |
| `VerticalScaleProofs`, `NotificationProofs` | theorems about `VerticalScale` and `Notification` |
| `CronJobSteps`, `CronJobProofs` | theorems about `CronJob`: lemmas about one job and its steps; all jobs and what they share |
| `MCReconcilers`, `MCVerticalScale`, `MCCronJob`, `MCNotification` | instances for TLC |

### ScheduleService

`m` is `ScheduleService.m` flattened: a key is (schedule, action, resource) and
0 stands for an absent key.  `entries`, `nextId` are the cron (external): ids
count up from 1 and are not reused by a process.  `gauge` is
`TimeterraScheduledCronJobs`.  `adding` holds the calls of `Add` between
`AddFunc` and the lock, `swapping` the call of `UpdateCronSpec` between its
`AddJob` and its `Remove`.

| Action | Code |
|---|---|
| `AddFunc`, `AddRecord` | `Add`, before and under the lock; an id already there is overwritten |
| `RemoveLocked(ks)` | `removeLocked` for every key of `ks`, one critical section |
| `Remove`, `RemoveResource`, `RemoveActionsOfResourceFromNonCurrentSchedule` | the methods of that name |
| `UpdateAdd`, `UpdateReplace` | `UpdateCronSpec`; its early returns are `~CanUpdate` and change nothing |
| `Restart` | the process dies anywhere, `New` |

`MuFree` is the mutex.  Of its holders only `UpdateCronSpec` is more than one
step, since it is the only one during which others can see a difference
(through `Get` and the cron's ticks).

`RegistryPromise` is `JobRegistry` under the mapping `Jobs` (the entries the map
names), `Pending` (those of calls under way), `nextId - 1`.  In the table a key
never has two jobs, an id never names two, and a call changes nothing but the
keys it is about; the lock, the order of cron and map and the moment with two
entries for one key are gone.  What the table does not promise is that the cron
holds no other entry: `leaked_job` shows that it may.

### Reconcilers

Objects are functions from names to specs, `None` for one that does not exist,
and status conditions by their Reason.  `resQ` and `schedQ` are the work queues:
sets, since a queue holds an object at most once.  `sw` and `rw[k]` are the
workers, one per controller (controller-runtime's default of one concurrent
reconcile, which no controller changes), with the local variables of the
function as fields.

| Action | Code |
|---|---|
| `WriteSchedule`, `WriteResource` | a user creates, edits or deletes; the watch event queues the object. Status updates queue nothing: `GenerationChangedPredicate` |
| `WriteSecret` | the Secret of credentials is deleted or created; that queues nothing |
| `ReconcileWithoutSecret` | `Reconcile` of an AWS kind whose Secret is not found: an error, and the resource is queued again |
| `ReconcileDeleted`, `ReconcileInactive`, `ReconcileActive` | `Reconcile` and `reconcileResource` up to line 107 |
| `Snapshot` | lines 109-118: jobs under other schedules removed, ids copied |
| `Prune` | one turn of the loop of lines 118-130 |
| `TurnOff`, `TurnOn`, `Record` | one turn of the loop of lines 132-278 |
| `UpdateStatus` | `updateStatus` |
| `ReconcileSchedule`, `Refresh`, `Swap`, `UpdateScheduleStatus` | `ScheduleReconciler.Reconcile` and `reconcile` |
| `Fire`, `StartAction` | the cron (external) starts the job of any entry it holds, leaked ones too; the closure's checks of the schedule |
| `JobReports`, `JobScales`, `RunEnds` | what a job does to the status of its resource: the condition of its action, Active or Failed; an ActionExecution it creates, reported or not; nothing |
| `ExecutionReports` | `finalizeAction`'s condition on the target, again where the Delete that follows fails |
| `OperatorRestart` | everything in memory is lost, ActionExecutions are not; every object is queued |

Steps are cut where a worker reads or writes what others see.  Merged steps are
these: the removal from other schedules and the copy of the ids
(`Snapshot`), which concern different keys; the look-up of an id, without the lock,
and the `Remove` that follows (`Prune`), which goes by the key and not by the id;
the read of an object with the validation that follows, which is local; and a
run's read of the resource with its update (below).  Loops over Go maps take their elements
in any order; the refresh loop takes the resources of one action together, as
the nested map does.  A status update conflicts exactly when the object was
written after it was read: by a user, and then it is queued again, or by a run,
and then it is in `outdated`; `MaxFaults` counts other, transient failures.

`runs` are the jobs under way and the ActionExecutions some kinds' jobs create
(`ScaleKinds`): the other writers of a resource's status.  They do not ask whether
the resource is active or which schedule it names.  Their update is refused unless
the object is still the one they read, so read and update are one step.  A
condition they write has the Reason Active, which the reconciler writes too, or
Failed; the model calls the first `"Ran"`, after its message.  What a job does
besides is `CronJob`; `MaxFires` bounds the firings.

Whether an action of a schedule is active and whether its periods are valid only
matter to conditions here: the job closure reads them again when it fires.

### VerticalScale

`exec` is the API server, `cache` the informer cache, which lags; `ver` is the
resourceVersion.  The AWS side (`members`, `writer`, `class`, `want`, `avail`,
`failover`) is external and modelled from what the handlers ask and check:
`ModifyDBInstance` returns before anything happens, the instance is first still
"available" with its old class, then not available, then available with the new
one; a failover ends with some other instance as the writer; a writer may also
be replaced unasked (`AwsOutage`); a modification is refused while another is
being applied.  Where AWS names no members (`blind`, from the constant `Blinds`)
the handlers list the instances and take the first for the writer, so that any
may be noted as it (`Descriptions`).

Each phase of `GenericScaleHandler.Execute` is an action, with its AWS call and
the phase it leaves in memory; `UpdateStatus` saves it, `FinalizeAction` and
`Delete` end the execution.  The target is read and AWS configured in
`aurora_scale.go` and `docdb_scale.go` before the phase runs: an error there is
`TargetError` (retried) or `ConfigError` (the execution fails).  A phase's
error is `CallError`, and in `ScalingReplicas` a loop cut short.  `TimedOut`
stands for the age of the execution, which grows without regard to anything
else.  The two handlers differ only in the SDK they call.  The phase of an object
just created, the empty string in the code, is called `"New"`.

### JobKinds and CronJob

`JobKinds` has no variables.  `JobFunction(spec, a, enabled)` is what a job
function makes of the resource it read: an end with a result (no such action,
`min > max`, a selector that is invalid or would match everything, a closed
gate), or lists to make and targets to call.  `Setting` is what a call sets,
with numbers cut to `Word` values as `int32` cuts a Go int.
`getAwsCredentialProviderFromSecret`, `GateText`, `Starts`, `NewRegistry`,
`JobName`, `ExecutionName` are what their names say.

`CronJob` has one resource, its schedule, and up to `MaxFires` firings of its
entries.  `obj` is the resource in the API server with its Action conditions and
resourceVersion, `cached` the informer cache, which lags; `jobs[j]` holds the
local variables of a firing; `state` is what each target is set to, `made` the
Jobs and ActionExecutions created, by namespace and name.  Time is counted in
parts of a minute, `Minute` of them, so that a period can end, and a goroutine
start, between minutes.  A world of `Worlds` is what the operator finds when it
starts: a spec of one of the kinds, a Secret, the texts of `--feature-gates` and
`FEATURE_GATES`.  `who` is the resource's kind and whether its name is long: a
resource that is deleted and created again is still of that kind and name.  An
empty word of a gate text is called `"blank"`.

| Action | Code |
|---|---|
| `Fire` | the cron (external) starts the closure at a whole minute, for any action |
| `Start`, `Check` | the start time is taken, then the schedule read; schedule, action, active and inactive periods, in this order |
| `Read` | the job reads its resource and `JobFunction` decides; names of what it will create hold the time |
| `Configure` | the AWS configuration and the Secret as it is now |
| `List`, `Call`, `EndLoop` | the loops over namespaces and targets, in any order: a list or call that fails is noted and the loop goes on; a call that failed may have taken effect |
| `CreateExecution` | the "scale" command of the two cluster kinds (what follows is `VerticalScale`) |
| `UpdateStatus`, `Send` | the status update, whose failure is only logged, and the report |
| `WriteSchedule`, `WriteResource`, `DeleteResource`, `WriteSecret`, `ReconcileStatus`, `CacheSync`, `Tick` | users, the reconciler's status updates, the cache, the clock |

Firings are free: the registry of `Reconcilers` is not composed in, because the
entries it has lost track of (`leaked_job`) fire too, and a job that was started
just before its key was removed still runs.  What holds of any firing holds of
those the registry makes.

The seven job functions share the steps of `CronJob`; `map` gives each definition
the lines of one of them, `JobKinds` those of each.  Lists of names are sets, so a
spec that names a namespace twice is not told apart from one that names it once.
One assumption is made of time: the cron starts the goroutine within the minute
it was due.  Entries fire at whole minutes, as the five fields of a cron expression
say; `@every 90s`, which the parser takes too, is outside the model.  The workloads
a job lists are those of the instance, with no informer cache between them and the
job: one just created or deleted is not told apart from one not there.

### Notification

`recipients` is the map of that name with `None` for an absent recipient,
`gauge` is `TimeTerraNotificationPolicies`, `ch` the channel, `run` the one
thread.  `sending` holds the bodies whose `Send` has seen `closed` false and
still holds `mu` for reading: that is why every writer (`RemoveRecipient`,
`AddRecipientToSchedule`, `Close`) waits for `MuFree`.  All other critical
sections are one step.  A body carries the schedule it is addressed to and, for
the properties, the one whose action it reports and its number among those
accepted.

| Action | Code |
|---|---|
| `Send` (in `JobReport`, `ExecutionReport`), `Put` | `Send` up to and after its look at `closed` |
| `Receive`, `Lookup`, `Notify`, `Deliver` | `run`; a recipient is called once over HTTP; an error is logged and forgotten, and may come after the recipient got the body |
| `JobStart`, `JobEnd` | a job of the running cron, and one that ends with nothing to report; it may never end |
| `Shutdown`, `Close` | the manager's context is done; the service's `Start` closes the channel and waits for the thread |
| `StopCron`, `DrainedOrTimeout` | the registry's `Start`: the cron is stopped, its jobs awaited for a minute at most |
| `WritePolicy`, `ReconcilePolicy`, `AddNext`, `UpdatePolicyStatus` | users; `Reconcile` up to `RemoveRecipient`, one turn of the loop over schedules, the status update |
| `Restart` | everything in memory is lost |

The manager gives its runnables 30 seconds to stop (`GracefulShutdownTimeout`,
not set by `main.go`), and `config/manager/manager.yaml:111` gives the pod 10: both
can cut both waits short.  In the model such an end is a `Restart`, which `bodies`
leaves out: what it says of the shutdown, it says of the service and the cron left
to themselves.

`FifoPromise` is `LossyFifo` with the body in the thread's hands and those in the
channel as its queue, which is why it has room for `Capacity + 1`.

## 3. Properties and runs

Registry and reconcilers

| Run | Instance | Shows |
|---|---|---|
| `reconcile_actions` | one resource and one schedule of every shape, two actions, a cron expression that does not parse, a restart | `TypeOK`; `NoSilentlyDroppedAction`: a resource comes to rest only with each action that is on scheduled or reported missing; `RetiredIsUnscheduled`; `ScheduledWhereDeclared`, here of actions that are off; `ReadyMeansRefreshed`: although the refresh loop returns at the first job it cannot refresh, in random order, a schedule that says Ready has passed over none |
| `reconcile_moves` | two schedules, with the action or without it, a resource of a kind that scales, whose job fires once, a Secret, a lost update | `ScheduledWhereDeclared`; and with a job or an execution writing to the same status `NoSilentlyDroppedAction` and `ReadyMatchesSpec`: Ready is what the spec says, a disabled resource comes to rest showing no action |
| `reconcile_kinds` | two resource controllers, one of an AWS kind whose Secret comes and goes, and the Schedule controller on one schedule, fairness | of the registry: `TrackedIdsAreLive` (an id in the map is a live entry of that very key), `GaugeCountsEntries` (the metric is the number of entries, calls under way discounted), the inductive invariant `ServiceInv`; of the controllers: `RetiredIsUnscheduled`, which here depends on the mutex, `OnlyOwnersTouchJobs` (no controller's loop reaches another's jobs), `RetiredLosesItsJobs`, `ComesToRest` (only a resource whose schedule or Secret is missing, or whose expression is bad, is retried for ever), `RegistryPromise` (the registry is the table of `JobRegistry` to these callers) |

The registry called by anyone in any order, `ServiceSpec`, has no run of its own:
section 4 proves its invariants for every instance.

Safety about a resource is stated of a `Quiet` one, neither queued nor in its
worker's hands: its controller is then done with it until the next edit, and so
are its jobs in the map.  Its status is not: runs write to it at any time.  That is
why `NoSilentlyDroppedAction` and `ReadyMatchesSpec` are about steps.  They say what
a resource comes to rest with, that the next steps keep it, and that the one thing
which replaces it is the report of a run.

Vertical scaling

| Run | Instance | Shows |
|---|---|---|
| `scale_faults` | one execution (well-formed, without parameters, or of an unknown type), one or two instances, two faults, a restart, fairness | `TypeOK`, `NoneEndsUnreported`, `SavedPhaseAdvances` (a stale worker never takes the saved phase back), `ReportedIsInert`, `EveryExecutionEnds`; `FailoverIsPrepared`: where a failover is asked for, every instance but the writer is scaled, the noted old writer excepted, also after failovers nobody asked for |
| `scale_two` | two executions for one cluster of one to three instances, of which AWS names no members | `SuccessMeansScaled`, `FailoverIsPrepared`: although the other execution moves the writer and modifies the instances, and the wrong one may be noted as the writer |

Jobs

| Run | Instance | Shows |
|---|---|---|
| `job_gate` | half-minutes, every pair of at most one active and one inactive period, overlapping periods of different actions, fairness | `RunsInDueMinutes`: a firing runs exactly if the minute it was fired for is due, by a definition that does not look at the start time; `EveryFiringEnds`: it ends, reported, whatever its calls return |
| `job_runs` | two jobs of a resource of each kind, over 41 worlds of which 34 let the operator start: workloads in two namespaces, labelled or not; selectors empty and invalid; numbers that are refused, that wrap, that the API server rejects; Secrets with default and other keys; gates by flag and environment; failures of every list and call; one edit | `TypeOK` (no target is counted as done and as failed); `ReportIsTrue`: Success, Failure, Error and Skipped say what happened to the targets, and a created object is reported as its own by one firing only; `TouchesOnlyWhatIsNamed`; `ScaleFollowsItsGate`; `OnlyOwnCondition`: a status written back from an old copy never undoes another condition |

Notifications

| Run | Instance | Shows |
|---|---|---|
| `policies` | two policies, specs of every shape, some of which list a schedule twice, a lost update, a restart | `RecipientsMatchPolicies`; `GaugeDriftsByRepeatsOnly`: the gauge and the number of recipients drift apart where a policy is added to a schedule it is in, by one, and nowhere else |
| `bodies` | one policy, three sends on a channel of two, a job that may hang, shutdown, fairness | `TypeOK` (the bound of the channel), `NeverSendsOnClosed`, `RecipientsGetBodiesInOrder`; `FifoPromise`; `AcceptedIsHandled`, also across a shutdown; `ShutdownEnds`: thread and cron stop although a job hangs; `DeletedFallsSilent` |

`RegistryPromise` and `FifoPromise` are safety: nothing is assumed of the abstract
specifications' progress.  What must come to pass is stated of the detailed ones.

Disagreements between code and text.  Three runs check what a comment or a
description says, and TLC finds it violated.  The first two need a user's edit
during a reconcile:

* `leaked_job` (`EveryJobIsInTheMap`): the resource reconciler holds an id that
  `UpdateCronSpec` replaces before it is looked up; the action is taken for
  unscheduled, `Add` overwrites the new id, and its entry runs on for ever,
  doubling the action, with nobody able to remove it.  By the same stale id an
  action removed from a resource can keep its job.
* `stale_cron` (`JobsFollowTheSchedule`): a job is added with the cron
  expression read before the edit the Schedule controller has already refreshed.
* `misaddressed_report` (`ReportsReachTheirSchedule`): the report of an execution
  is addressed to its `ActionName`, which is the name of an action and not, as
  the comment has it, of a schedule.

What else a reader of the code may want to know, and the models show or respect:

* A policy that lists a schedule twice, which nothing excludes, is counted twice by
  the gauge and discounted once, so that each further reconcile of it leaves the
  gauge one higher (`ListedAgain` in `GaugeDriftsByRepeatsOnly`).
* A `--feature-gates=""` on the command line falls back to `FEATURE_GATES`,
  although the comment at `main.go:163` speaks of a flag that was not given;
  `ALL` is understood only alone.
* A replica count that does not fit an int32 is wrapped, set if the API server
  takes what comes out, and reported as a Success (`Fits` in `ReportIsTrue`).
* A scaling acts on the first of a resource's `DBClusterIdentifiers` only.
* A disabled AWS resource whose Secret is gone keeps its jobs: its `Reconcile`
  fails before it comes to them (`SecretMissing` in `RetiredLosesItsJobs`).  Its
  jobs run, and end with an Error for want of credentials.
* A job does not ask whether its resource is enabled or which schedule it names.
  One that was under way when its entry was removed, or one the registry has lost
  track of, acts for a disabled resource and puts a condition back on it; and where
  the resource was moved to a schedule that lacks the action, it replaces
  `MissingAction` by Active although nobody has the action scheduled.  The
  properties of `reconcile_moves` except these, and nothing else.
* After a failover that came unasked, or was asked for again by a retry, the writer
  noted at the start is a reader of the old class, and the failover the handler
  then asks for may go back to it (the exception in `FailoverIsPrepared`).
* The cron's jobs and the notification service stop side by side: the report of
  a job that ends after the close is dropped, and logged.

### Bounds

`MaxEdits = 2` is the number of edits by users; the initial objects come from a
set, so that a run also covers what one more edit would have set up.  The races above need
one or two.  `MaxFaults` and `MaxRestarts` (0 to 2) bound failures of calls that
the code treats alike at every attempt.  `MaxId = 20` is not reached in the
`Reconcilers` runs: a reconcile adds at most one entry per key, and two edits
and a fault or a restart allow for few reconciles; it bounds an error retry, which
adds no entry.  Of the two, `reconcile_actions` has the restart and `reconcile_moves`
the lost update; both in one behaviour are left to the theorems.  One action with two schedules, or two actions with one, are enough since every
loop of the code treats names alike; two resources are used where a step of one
could touch the other.  In
`reconcile_moves` one firing is enough: its job can be at work, or its execution
waiting, across everything the controllers do, and runs do not read each other's
conditions; the leaked entries of `leaked_job` fire as others do.  `MaxCreates` is the number of executions.  Three instances make the writer move to one of two
readers.  `Blinds` is what AWS may do about members: `scale_faults` has a cluster
that names them, `scale_two` one that does not, where the noted writer need not be
the writer.  In `CronJob` `Word = 8` stands for 2^32: 9 wraps to 1, 7 to -1.  Two firings are enough for two writers of one status
and two loops over the same targets; `MaxTime = 3` with `Minute = 2` has two
whole minutes, and period ends before, at, between and after them.  In
`Notification` a channel of two is full with three sends; `policies` has three
edits, so that a policy is deleted, recreated and edited.  `bodies` has no
restart: after one the service is as it is at first, with the existing policies
queued, which the initial states include; `policies` has one.  Symmetry is used in safety runs only, over names the instances
treat alike.  `CHECK_DEADLOCK FALSE` is said
where the edits run out and the operator then rests, every execution has ended,
or no more entries fire.

### Fairness

* `SF` of starting a reconcile of a queued object: the work queue is FIFO, the
  back-off finite and a worker is free again and again, but not continuously.
* `WF` of a worker's next step: a goroutine in a reconcile never waits for
  another object, and `mu` is always released.
* `CronJob`: `WF` of a job's next step: its calls return, or are cut off when
  its context ends after five minutes.
* `Notification`: `WF` of the thread, since the senders' HTTP clients time out
  after ten seconds, of a `Send` under way and of the cron's stop, whose wait has
  a time limit; `SF` of the controller's steps and of the close, which wait for
  a lock whose writers Go does not starve.  No job is assumed to end.
* `VerticalScale`: `WF` of watch events and of the passing of time.  Nothing is
  assumed of AWS, and no user's or environment's action is fair.

## 4. Proofs

Everything here holds for every set of names, specs, targets and instances, every
capacity and every bound, from the assumptions the modules state about their
constants (`NamesAssumption`, `SpecsAssumption`, `ScaleAssumption`,
`NotificationAssumption`, `KindAssumption`, `JobAssumption`): the specs are of
their types, `None` is none of the values it is set apart from, bounds are
naturals, names and policies are finite where they are counted.  TLC evaluates
them in every run.

| Property | Theorem | Inductive invariant |
|---|---|---|
| `ServiceInv`, `TrackedIdsAreLive` | `InvAlways`, `TrackedIdsAlwaysLive`; in the operator `OperatorTracksLiveIds` | `ServiceInv` |
| `GaugeCountsEntries` | `GaugeAlwaysCounts`, `OperatorGaugeCounts` | `GaugeInv` |
| `RegistryPromise` | `RegistryImplemented`, `OperatorKeepsPromise` | `ServiceInv` |
| `Reconcilers!TypeOK`, `RetiredIsUnscheduled`, `ScheduledWhereDeclared`, `NoSilentlyDroppedAction` and `ReadyMatchesSpec` (of every step), `ReadyMeansRefreshed`, `OnlyOwnersTouchJobs` | `ReconcilersTypeCorrect`, `RetiredUnscheduled`, `JobsWhereDeclared`, `NoActionDropped`, `ReadyIsTrue`, `RefreshIsComplete`, `OwnersOnly` | `ReconcilersInv` |
| `VerticalScale!TypeOK`, `NoneEndsUnreported`, `SuccessMeansScaled`, `SavedPhaseAdvances`, `FailoverIsPrepared`, `ReportedIsInert` | `TypeCorrect`, `NoneUnreported`, `SuccessIsTrue`, `PhaseAdvances`, `FailoverPrepared`, `ReportedInert` | `ScaleInv` |
| `Notification!TypeOK`, `NeverSendsOnClosed`, `RecipientsGetBodiesInOrder`, `RecipientsMatchPolicies`, `FifoPromise` | `NotificationTypeCorrect`, `ClosedIsLeftAlone`, `BodiesInOrder`, `RecipientsFollowPolicies`, `ServiceIsFifo` | `NotificationInv` |
| `GaugeDriftsByRepeatsOnly` | `GaugeDriftIsExact` | `PolicyInv` |
| `CronJob!TypeOK` | `JobTypeCorrect` | `BaseInv` |
| `RunsInDueMinutes` | `DueMinutesOnly`, if no period ends before it starts | `BaseInv` |
| `OnlyOwnCondition` | `OwnConditionOnly` | `VersionInv` |
| `TouchesOnlyWhatIsNamed` | `NamedOnly` | `SetInv`, `MadeInv` |
| `ScaleFollowsItsGate` | `GateFollowed` | `MadeInv`, `GatesInv`, `KindInv` |
| `ReportIsTrue` | `ReportsAreTrue` | `SettingInv`, `OwnInv` |

One theorem has a hypothesis, and it names a real limit of the code.
`PeriodsEnd` (`DueMinutesOnly`): the Schedule controller reports a period that ends before it starts as `InvalidPeriod`, but the
job's check compares with `Equal` too, so that such a period still holds at its
two ends.

### ScheduleServiceProofs

`TrackedIdsAreLive` is not inductive.  Removing the entry of one key must not
remove another's, so ids are unique and below `nextId` (`IdsAreFresh`); `Add`
records an id some steps after it made the entry, so an id under way is in the
map nowhere; and between the halves of `UpdateCronSpec` the new id must be
private and the old one still in the map (`SwapIsPrivate`), which the mutex
gives.  `InvStep` has one step per method, the removals being instances of
`RemoveLocked(ks)`; `KeysFinite` is needed for the gauge's type.

`GaugeInv` adds `GaugeCountsEntries` to it, and a conjunct that finite sets can
be counted by.  A step changes the entries of a label by one at a time, which
`CountAdd`, `CountRemove` and `CountNone` cover, except `RemoveLocked(ks)`: it
decrements the gauge by the number of tracked keys of the label, and deletes the
entries with their ids.  `CountRemoved` shows that the two numbers agree, by the
bijection from tracked keys to the entries they name, which exists because
tracked ids are live (`TrackedIdsAreLive`) and one id belongs to one key.

`RegistryImplemented` rests on `ServiceInv`.  `RegistryStep` has one step per
method: `AddFunc` and `UpdateAdd` map to `Issue`, `AddRecord` and `UpdateReplace`
to `Put`, the removals to `Discard`, `Restart` to `Lose`.  That `UpdateReplace`,
which changes the map and deletes the old entry, is one `Put` needs
`SwapIsPrivate` (the new id is in no other key), that a removal discards no other
key's job needs that tracked ids are unique and live.

### ReconcilersProofs

`ReconcilersUseService` shows that every step of the operator is a step of the
registry or leaves it alone; the registry's theorems then hold of the operator
(`OperatorTracksLiveIds`, `OperatorGaugeCounts`, `OperatorKeepsPromise`).

The properties are about a resource at rest, so the invariant has to say what its
worker has done so far (`DoneSoFar`): nothing before the snapshot; after it no job
under another schedule; in the action loop, each action that is not in `todo` is
scheduled, off, or missing; at the end all of them.  This needs that the worker
has read the current spec unless the resource is queued again (`SpecIsCurrent`),
and that an entry `Add` has not yet recorded belongs to a worker in that call and
to no other (`AddsAreOwned`).  `Settled` is what remains when the worker lets go.
It allows for the conditions runs write, and `RunEffect` shows that they write
nothing else, and no Ready.  `Reported` is the status without them.  `RestStep`
relates the two: a step either brings a resource to rest as its worker reported it,
or finds it at rest and settled, with the same jobs.
That the Schedule controller, which swaps ids in the same map, disturbs none of it
is `ScheduleKeeps`: it neither tracks nor forgets a key.

`RefreshInv` is the other half: an id the refresh saw is still to do, in the swap
under way, or gone, since ids put in the map later are larger than any it saw.

### VerticalScaleProofs

`CopiesLag` ties cache and worker to the API server by the resourceVersion, which
is what makes a stale save harmless (`SavedPhaseAdvances`).  `AllSound` says of
every copy of an execution what its phase says of the cluster; it is preserved when
the environment moves the writer because a noted reader or writer stays noted, and
when other executions modify instances because those that agree ask for one class
(`WantsAsked`, `Agreed`).  `OutcomesHold` keeps the copies of an execution that has
reported Success in the last phase, in which nothing is asked of AWS.

### NotificationProofs

The channel with its thread and the policies with their controller share no
variable, and the invariant is a conjunction of the two halves.  `Numbered` says
that the numbers in the channel are the last ones given, without a gap, and the
body in hand comes just before them; with `LogBounded` it gives the order at every
recipient, and the mapping to `LossyFifo`.  `Ticketed` bounds the sends under way.
`WorkerInv` says how far the loop over a policy's schedules has come: the
recipients are those of the schedules it has passed.  The gauge is compared with the
number of recipients before and after each step, counted with the library's
theorems on finite sets, as the registry's is.

### CronJobSteps and CronJobProofs

The first module is about one job.  `TaskFacts` sums up the seven job functions in
one formula, `TaskIs`, so that the rest of the proof never splits on the kind;
`TaskCovers` shows that a task's targets and lists make up what the spec names.
`JobInv` says that from its read to its report a job follows the task it made of
the resource (`Follows`) and that what is listed, to do, done and failed covers what
the spec names without overlap (`Covers`).  `GateInv` ties a firing to the minute it
was fired for: by `TruncateNext` the clock cannot leave that minute before the
goroutine begins.  There is one lemma per step.

The second module is about what jobs share.  `StepKeeps` reduces every step to one
of those lemmas, and `JobEvolves` says what none of them changes: copy, name and
action once read, and what is done.  `OnlyOwnCondition` follows from `VersionInv`
(of two copies with one version the conditions agree, every write is a new
version).  `ReportIsTrue` needs that a target no other job has called is as this
job set it (`SettingInv`), that a name new in a namespace is no other job's there
(`OwnInv`), and `Int32Facts`: an integer that fits is cut to itself.
`ScaleFollowsItsGate` needs that all copies of the resource are of one kind
(`KindInv`), for an execution made by one job says something about the gate of
another.

### Only model-checked

Liveness under fairness is out of the prover's reach and stays with TLC:
`RetiredLosesItsJobs`, `ComesToRest`, `EveryExecutionEnds`, `AcceptedIsHandled`,
`ShutdownEnds`, `DeletedFallsSilent`, `EveryFiringEnds`.

## 5. Not modelled

* `ActionExecution`: the phase "Completed" and unknown phases (never saved) and
  the deletion timestamp (no finalizer keeps a deleted object).
* Leader election (one active operator), servers, certificates, the construction
  of controllers and the namespaces they watch.
* Of the jobs' requests: regions, endpoints, the content of the Jobs created and
  their time to live, duplicates in lists.
* Metrics other than the two gauges.
* The layout of messages, generated code, manifests and charts.

## 6. Plan

Done: the components of section 1 up to the senders, the two abstract
specifications and their refinements, and the proofs of every safety property.
Left:

1. the hypothesis of section 4: what the period check does where a period ends
   before it starts, as a theorem of its own;
2. of the composition of `CronJob` with `VerticalScale`, that an execution a job
   created and reported as a Success is the one the controller then finds.
