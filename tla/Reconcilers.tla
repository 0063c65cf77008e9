----------------------------- MODULE Reconcilers -----------------------------
(***************************************************************************)
(* The Schedule controller (schedule_controller.go), the reconciler shared *)
(* by the seven resource controllers (resource_controller.go) and the      *)
(* registry of cron jobs they all drive (ScheduleService).                 *)
(*                                                                         *)
(* Each controller is one worker goroutine with a work queue of its own, a *)
(* set since the queue holds an object at most once; a worker's steps are  *)
(* the points where it reads or writes what others see: the informer       *)
(* caches, the registry, the API server.  A user's edit changes the cached *)
(* object and queues it.  A status update fails when the object was edited *)
(* after the worker read it (resourceVersion), or for a transient reason;  *)
(* either way the object is reconciled again.  Reads are from the informer *)
(* caches: they fail only for an object that is not there.                 *)
(*                                                                         *)
(* The status of a resource has other writers: the cron jobs that act for  *)
(* it, and the ActionExecutions some of them create.  They too write back  *)
(* the object they read, with one condition changed.                       *)
(***************************************************************************)
EXTENDS ScheduleService

CONSTANTS
    None,            \* an object or an action that does not exist
    Kinds, KindOf,   \* the resource controllers; KindOf[r] reconciles r
    AwsKinds,        \* those that first look up a resource's Secret of credentials
    ScaleKinds,      \* those whose jobs may create ActionExecutions
    ScheduleSpecs, ResourceSpecs,        \* the specs users write
    InitialSchedules, InitialResources,  \* what exists when the operator starts
    MaxEdits, MaxFaults, MaxRestarts, MaxFires   \* bounds

(* The spec of a Schedule: a cron expression per action, None if absent.    *)
ScheduleSpec == [active : BOOLEAN, periodsOK : BOOLEAN,
                 actions : [Actions -> [cron : Crons, active : BOOLEAN] \cup {None}]]

(* The spec of a resource, of any kind: "off" is an action with active:false. *)
ResourceSpec == [active : BOOLEAN, schedule : Schedules,
                 actions : [Actions -> {"absent", "on", "off"}]]

ASSUME SpecsAssumption ==
    /\ ScheduleSpecs \subseteq ScheduleSpec
    /\ ResourceSpecs \subseteq ResourceSpec
    /\ InitialSchedules \subseteq [Schedules -> ScheduleSpecs \cup {None}]
    /\ InitialResources \subseteq [Resources -> ResourceSpecs \cup {None}]
    /\ None \notin ScheduleSpec /\ None \notin ResourceSpec
    /\ None \notin [cron : Crons, active : BOOLEAN]
    /\ KindOf \in [Resources -> Kinds]
    /\ AwsKinds \subseteq Kinds /\ ScaleKinds \subseteq AwsKinds
    /\ MaxEdits \in Nat /\ MaxFaults \in Nat /\ MaxRestarts \in Nat /\ MaxFires \in Nat

(* Status conditions by their Reason; "none": no such condition.  "Ran" is   *)
(* the Reason Active with the message of a run that succeeded.               *)
RunReasons == {"Ran", "Failed"}
Reasons == {"none", "Active", "Disabled", "NotActive", "MissingAction", "Error",
            "ScheduleNotExist", "InvalidPeriod", "InvalidCronExpression", "Timeout"}
               \cup RunReasons

(* Ready, one condition per action, and the one of the ActionExecutions.     *)
Status  == [ready : Reasons, cond : [Actions -> Reasons], scale : Reasons]
NoConditions == [a \in Actions |-> "none"]
NewStatus    == [ready |-> "none", cond |-> NoConditions, scale |-> "none"]

VARIABLES
    sched, schedStatus,     \* the Schedules, by name
    res, resStatus,         \* the resources, by name
    secret,                 \* the Secret of credentials exists
    schedQ, resQ,           \* the work queues (resQ: of all resource controllers)
    sw,                     \* the worker of the Schedule controller
    rw,                     \* the worker of each resource controller
    runs,                   \* cron jobs under way, and ActionExecutions
    outdated,               \* resources a run wrote to since their worker read them
    edits, faults, restarts, fires  \* how much of the bounds is used

apiVars == <<sched, schedStatus, res, resStatus, secret>>
runVars == <<runs, outdated, fires>>
cntVars == <<edits, faults, restarts>>
vars    == <<svcVars, apiVars, schedQ, resQ, sw, rw, runVars, cntVars>>

(* A worker's local state; err: reconcileResource will return an error;     *)
(* seen: the ids of the jobs GetActions returned.                           *)
SWorkers == [pc : {"idle", "refresh", "swap", "status"}, s : Schedules \cup {None},
             spec : ScheduleSpecs \cup {None}, todo : SUBSET Keys,
             seen : SUBSET Ids, cur : Actions \cup {None}, status : Status]
RWorkers == [pc : {"idle", "snapshot", "prune", "schedule", "record", "status"},
             r : Resources \cup {None}, spec : ResourceSpecs \cup {None},
             plan : ScheduleSpecs \cup {None}, ids : [Actions -> Nat],
             todo : SUBSET Actions, scheduled : SUBSET Actions,
             status : Status, err : BOOLEAN]

(* The n-th firing of a job, or the ActionExecution it has created. *)
Runs == [n : Nat, key : Keys, at : {"fired", "running", "execution"}]

NoIds == [a \in Actions |-> 0]
SIdle == [pc |-> "idle", s |-> None, spec |-> None, todo |-> {}, seen |-> {},
          cur |-> None, status |-> NewStatus]
RIdle == [pc |-> "idle", r |-> None, spec |-> None, plan |-> None, ids |-> NoIds,
          todo |-> {}, scheduled |-> {}, status |-> NewStatus, err |-> FALSE]

\* Mutant: the error of a reconcile is dropped.
NoRetry(q, o) == q

(* Reconcile returns an error: its object is queued again, after a back-off. *)
Retry(q, o) == q \cup {o}

Existing(objs) == {o \in DOMAIN objs : objs[o] # None}

Init ==
    /\ New
    /\ sched \in InitialSchedules /\ schedStatus = [s \in Schedules |-> NewStatus]
    /\ res \in InitialResources   /\ resStatus = [r \in Resources |-> NewStatus]
    /\ secret = TRUE
    /\ schedQ = Existing(sched) /\ resQ = Existing(res)
    /\ sw = SIdle /\ rw = [k \in Kinds |-> RIdle]
    /\ runs = {} /\ outdated = {} /\ fires = 0
    /\ edits = 0 /\ faults = 0 /\ restarts = 0

-----------------------------------------------------------------------------
(* Users.  The status belongs to the object: it goes with a deleted one.    *)

WriteSchedule(s, spec) ==
    /\ edits < MaxEdits
    /\ spec # sched[s]
    /\ sched' = [sched EXCEPT ![s] = spec]
    /\ schedStatus' = IF spec = None THEN [schedStatus EXCEPT ![s] = NewStatus]
                                     ELSE schedStatus
    /\ schedQ' = schedQ \cup {s}
    /\ edits' = edits + 1
    /\ UNCHANGED <<svcVars, res, resStatus, secret, resQ, sw, rw, runVars, faults, restarts>>

WriteResource(r, spec) ==
    /\ edits < MaxEdits
    /\ spec # res[r]
    /\ res' = [res EXCEPT ![r] = spec]
    /\ resStatus' = IF spec = None THEN [resStatus EXCEPT ![r] = NewStatus]
                                   ELSE resStatus
    /\ resQ' = resQ \cup {r}
    /\ edits' = edits + 1
    /\ UNCHANGED <<svcVars, sched, schedStatus, secret, schedQ, sw, rw, runVars, faults,
                   restarts>>

(* The Secret is deleted or created: no controller watches it. *)
WriteSecret ==
    /\ edits < MaxEdits
    /\ AwsKinds # {}
    /\ secret' = ~secret
    /\ edits' = edits + 1
    /\ UNCHANGED <<svcVars, sched, schedStatus, res, resStatus, schedQ, resQ, sw, rw,
                   runVars, faults, restarts>>

User == \/ WriteSecret
        \/ \E s \in Schedules, spec \in ScheduleSpecs \cup {None} : WriteSchedule(s, spec)
        \/ \E r \in Resources, spec \in ResourceSpecs \cup {None} : WriteResource(r, spec)

-----------------------------------------------------------------------------
(* The resource controllers.                                                *)

Key(w, a) == <<w.spec.schedule, a, w.r>>

(* The action loop, over what it changes: an action that is on and already   *)
(* scheduled is passed over.  After the loop Ready becomes Active.           *)
Unsettled(w) ==
    {a \in Actions : \/ w.spec.actions[a] = "off"
                     \/ w.spec.actions[a] = "on" /\ a \notin w.scheduled}

ActionLoop(w) ==
    IF w.todo # {} THEN [w EXCEPT !.pc = "schedule"]
                   ELSE [w EXCEPT !.pc = "status", !.status.ready = "Active"]

(* The prune loop, over the ids of the snapshot; then the action loop.      *)
PruneLoop(w) ==
    IF w.todo # {} THEN [w EXCEPT !.pc = "prune"]
                   ELSE ActionLoop([w EXCEPT !.ids = NoIds, !.todo = Unsettled(w)])

Goto(k, w) == rw' = [rw EXCEPT ![k] = w]
Idle(k)    == rw[k].pc = "idle"

Begin(r) ==
    /\ Idle(KindOf[r])
    /\ r \in resQ
    /\ resQ' = resQ \ {r}
    /\ UNCHANGED <<apiVars, schedQ, sw, runVars, cntVars>>

(* The worker that has read resource r. *)
Reading(r) == [RIdle EXCEPT !.r = r, !.spec = res[r], !.status = resStatus[r]]

\* Mutant: nothing is done for a deleted resource.
ReconcileDeletedIdly(r) == Begin(r) /\ res[r] = None /\ UNCHANGED <<svcVars, rw>>

(* Reconcile of a deleted resource. *)
ReconcileDeleted(r) ==
    /\ Begin(r)
    /\ res[r] = None
    /\ RemoveResource(r)
    /\ UNCHANGED rw

(* An AWS controller reads the Secret before it does anything for a resource *)
(* that exists; without it Reconcile returns an error.                       *)
SecretMissing(r) == res[r] # None /\ KindOf[r] \in AwsKinds /\ ~secret

ReconcileWithoutSecret(r) ==
    /\ Idle(KindOf[r])
    /\ r \in resQ
    /\ SecretMissing(r)
    /\ resQ' = Retry(resQ \ {r}, r)
    /\ UNCHANGED <<svcVars, apiVars, schedQ, sw, rw, runVars, cntVars>>

(* disableResource: the resource's jobs and its Action conditions go.       *)
ReconcileInactive(r) ==
    /\ Begin(r)
    /\ res[r] # None /\ ~SecretMissing(r) /\ ~res[r].active
    /\ RemoveResource(r)
    /\ Goto(KindOf[r], [Reading(r) EXCEPT !.pc = "status",
                        !.status = [NewStatus EXCEPT !.ready = "Disabled"]])

(* The schedule is read once, here, for the whole reconcile. *)
ReconcileActive(r) ==
    /\ Begin(r)
    /\ res[r] # None /\ ~SecretMissing(r) /\ res[r].active
    /\ LET plan == sched[res[r].schedule]
       IN  Goto(KindOf[r],
                IF plan = None
                THEN [Reading(r) EXCEPT !.pc = "status", !.err = TRUE,
                                        !.status.ready = "ScheduleNotExist"]
                ELSE [Reading(r) EXCEPT !.pc = "snapshot", !.plan = plan])
    /\ UNCHANGED svcVars

(* Jobs under another schedule go; then the ids under this one are copied.  *)
(* The two critical sections touch different keys, so they are one step.    *)
Snapshot(k) ==
    LET w == rw[k]
        removed == {a \in Actions : \E x \in NonCurrent(w.spec.schedule, w.r) :
                                        x[2] = a /\ Tracked(x)}
        ids == GetActionsOfResource(w.spec.schedule, w.r)
    IN  /\ w.pc = "snapshot"
        /\ RemoveActionsOfResourceFromNonCurrentSchedule(w.spec.schedule, w.r)
        /\ Goto(k, PruneLoop(
               [w EXCEPT !.ids = ids,
                         !.todo = {a \in Actions : ids[a] # 0},
                         !.status.cond = [a \in Actions |->
                              IF a \in removed THEN "none" ELSE @[a]]]))
        /\ UNCHANGED <<apiVars, schedQ, resQ, sw, runVars, cntVars>>

(* One turn of the prune loop: the entry of the snapshot's id is looked up   *)
(* without the lock.  A stale id has no entry, and the action is neither     *)
(* removed nor counted as scheduled.                                         *)
Prune(k, a) ==
    LET w == rw[k]
        declared == w.spec.actions[a] # "absent"
        next == [w EXCEPT !.todo = @ \ {a}]
    IN  /\ w.pc = "prune" /\ a \in w.todo
        /\ IF Live(w.ids[a]) /\ ~declared
           THEN /\ Remove(Key(w, a))
                /\ Goto(k, PruneLoop([next EXCEPT !.status.cond[a] = "none"]))
           ELSE /\ UNCHANGED svcVars
                /\ Goto(k, PruneLoop(
                       [next EXCEPT !.scheduled =
                            IF Live(w.ids[a]) THEN @ \cup {a} ELSE @]))
        /\ UNCHANGED <<apiVars, schedQ, resQ, sw, runVars, cntVars>>

\* Mutant: the job of an action that is off stays.
TurnOffKeeping(k, a) ==
    LET w == rw[k]
    IN  /\ w.pc = "schedule" /\ a \in w.todo
        /\ w.spec.actions[a] = "off"
        /\ Goto(k, ActionLoop([w EXCEPT !.todo = @ \ {a}, !.status.cond[a] = "Disabled"]))
        /\ UNCHANGED <<svcVars, apiVars, schedQ, resQ, sw, runVars, cntVars>>

(* One turn of the action loop, for an action that is off: it is removed.   *)
TurnOff(k, a) ==
    LET w == rw[k]
    IN  /\ w.pc = "schedule" /\ a \in w.todo
        /\ w.spec.actions[a] = "off"
        /\ Remove(Key(w, a))
        /\ Goto(k, ActionLoop([w EXCEPT !.todo = @ \ {a}, !.status.cond[a] = "Disabled"]))
        /\ UNCHANGED <<apiVars, schedQ, resQ, sw, runVars, cntVars>>

\* Mutant: an action the schedule lacks is an error, and retried.
MissingIsError(w, a) ==
    ActionLoop([w EXCEPT !.todo = @ \ {a}, !.err = TRUE, !.status.cond[a] = "MissingAction"])

(* The schedule lacks the action: the loop goes on. *)
MissingAction(w, a) ==
    ActionLoop([w EXCEPT !.todo = @ \ {a}, !.status.cond[a] = "MissingAction"])

\* Mutant: the error of Add is not returned.
AddErrorDropped(w, a) ==
    [w EXCEPT !.pc = "status", !.todo = {}, !.status.cond[a] = "Error"]

(* Add fails: the reconcile ends with the error, Ready stays as it was.     *)
AddError(w, a) ==
    [w EXCEPT !.pc = "status", !.todo = {}, !.status.cond[a] = "Error", !.err = TRUE]

(* One turn for an action that is on and not scheduled: Add, up to its lock, *)
(* with the schedule as it was read at the start.                            *)
TurnOn(k, a) ==
    LET w == rw[k]
        planned == w.plan.actions[a]
    IN  /\ w.pc = "schedule" /\ a \in w.todo
        /\ w.spec.actions[a] = "on"
        /\ \/ /\ planned = None
              /\ Goto(k, MissingAction(w, a))
              /\ UNCHANGED svcVars
           \/ /\ planned # None /\ planned.cron \notin ValidCrons
              /\ Goto(k, AddError(w, a))
              /\ UNCHANGED svcVars
           \/ /\ planned # None
              /\ AddFunc(Key(w, a), planned.cron)
              /\ Goto(k, [w EXCEPT !.todo = @ \ {a}, !.pc = "record"])
        /\ UNCHANGED <<apiVars, schedQ, resQ, sw, runVars, cntVars>>

(* Add, under its lock. *)
Record(k) ==
    /\ rw[k].pc = "record"
    /\ \E e \in adding :
          /\ KindOf[e.key[3]] = k
          /\ AddRecord(e)
          /\ Goto(k, ActionLoop([rw[k] EXCEPT !.status.cond[e.key[2]] = "Active"]))
    /\ UNCHANGED <<apiVars, schedQ, resQ, sw, runVars, cntVars>>

(* updateStatus: the object is queued again if reconcileResource returned    *)
(* an error or the update failed, be it because the object was edited, and   *)
(* is queued for that already, or because a run has written to it.           *)
UpdateStatus(k) ==
    LET w == rw[k]
        edited == w.r \in resQ
        conflict == edited \/ w.r \in outdated
    IN  /\ w.pc = "status"
        /\ \/ /\ ~conflict
              /\ resStatus' = [resStatus EXCEPT ![w.r] = w.status]
              /\ resQ' = IF w.err THEN Retry(resQ, w.r) ELSE resQ
              /\ UNCHANGED faults
           \/ /\ edited
              /\ UNCHANGED <<resStatus, resQ, faults>>
           \/ /\ conflict /\ ~edited
              /\ resQ' = Retry(resQ, w.r)
              /\ UNCHANGED <<resStatus, faults>>
           \/ /\ ~conflict /\ faults < MaxFaults
              /\ faults' = faults + 1
              /\ resQ' = Retry(resQ, w.r)
              /\ UNCHANGED resStatus
        /\ Goto(k, RIdle)
        /\ outdated' = outdated \ {w.r}
        /\ UNCHANGED <<svcVars, sched, schedStatus, res, secret, schedQ, sw, runs, fires,
                       edits, restarts>>

ReconcileResource(r) ==
    \/ ReconcileDeleted(r) \/ ReconcileWithoutSecret(r)
    \/ ReconcileInactive(r) \/ ReconcileActive(r)
Continue(k) ==
    \/ Snapshot(k) \/ Record(k) \/ UpdateStatus(k)
    \/ \E a \in Actions : Prune(k, a) \/ TurnOff(k, a) \/ TurnOn(k, a)

-----------------------------------------------------------------------------
(* The Schedule controller.                                                 *)

(* The conditions of a schedule's actions, those of removed ones dropped.   *)
ValidatedConditions(spec) ==
    [a \in Actions |->
        IF spec.actions[a] = None THEN "none"
        ELSE IF spec.actions[a].cron \notin ValidCrons THEN "InvalidCronExpression"
        ELSE IF spec.actions[a].active THEN "Active" ELSE "NotActive"]

(* The refresh loop, over the ids of the snapshot; after it Ready is set.   *)
RefreshLoop(w) ==
    IF w.todo # {} THEN [w EXCEPT !.pc = "refresh"]
    ELSE [w EXCEPT !.pc = "status", !.cur = None,
                   !.status.ready = IF w.spec.active THEN "Active" ELSE "Disabled"]

(* Reconcile up to GetActions.  A deleted schedule leaves its jobs alone.   *)
ReconcileSchedule(s) ==
    LET w == [SIdle EXCEPT !.s = s, !.spec = sched[s], !.status = schedStatus[s]]
        conds == ValidatedConditions(sched[s])
    IN  /\ sw.pc = "idle"
        /\ s \in schedQ
        /\ schedQ' = schedQ \ {s}
        /\ \/ sched[s] = None /\ UNCHANGED sw
           \/ /\ sched[s] # None /\ ~sched[s].periodsOK
              /\ sw' = [w EXCEPT !.pc = "status", !.status.ready = "InvalidPeriod"]
           \/ /\ sched[s] # None /\ sched[s].periodsOK
              /\ IF \E a \in Actions : conds[a] = "InvalidCronExpression"
                 THEN sw' = [w EXCEPT !.pc = "status",
                                !.status.ready = "InvalidCronExpression", !.status.cond = conds]
                 ELSE sw' = RefreshLoop([w EXCEPT !.todo = GetActions(s),
                                                  !.seen = {m[x] : x \in GetActions(s)},
                                                  !.status.cond = conds])
        /\ UNCHANGED <<svcVars, apiVars, resQ, rw, runVars, cntVars>>

\* Mutant: a job whose action the schedule no longer has is passed over.
RefreshPassingOver(x) ==
    LET planned == sw.spec.actions[x[2]]
        next == [sw EXCEPT !.todo = @ \ {x}, !.cur = x[2]]
    IN  /\ sw.pc = "refresh" /\ x \in sw.todo
        /\ (\E y \in sw.todo : y[2] = sw.cur) => x[2] = sw.cur
        /\ \/ /\ planned = None
              /\ sw' = RefreshLoop(next)
              /\ UNCHANGED svcVars
           \/ /\ planned # None /\ ~CanUpdate(x, planned.cron)
              /\ sw' = RefreshLoop(next)
              /\ UNCHANGED svcVars
           \/ /\ planned # None
              /\ UpdateAdd(x, planned.cron)
              /\ sw' = [next EXCEPT !.pc = "swap"]
        /\ UNCHANGED <<apiVars, schedQ, resQ, rw, runVars, cntVars>>

(* One turn of the refresh loop: the resources of an action, then the next   *)
(* action.  An action the schedule no longer has ends the loop at once.      *)
Refresh(x) ==
    LET planned == sw.spec.actions[x[2]]
        next == [sw EXCEPT !.todo = @ \ {x}, !.cur = x[2]]
    IN  /\ sw.pc = "refresh" /\ x \in sw.todo
        /\ (\E y \in sw.todo : y[2] = sw.cur) => x[2] = sw.cur
        /\ \/ /\ planned = None
              /\ sw' = [next EXCEPT !.pc = "status", !.todo = {}, !.cur = None,
                                    !.status.ready = "MissingAction"]
              /\ UNCHANGED svcVars
           \/ /\ planned # None /\ ~CanUpdate(x, planned.cron)
              /\ sw' = RefreshLoop(next)
              /\ UNCHANGED svcVars
           \/ /\ planned # None
              /\ UpdateAdd(x, planned.cron)
              /\ sw' = [next EXCEPT !.pc = "swap"]
        /\ UNCHANGED <<apiVars, schedQ, resQ, rw, runVars, cntVars>>

Swap ==
    /\ sw.pc = "swap"
    /\ UpdateReplace
    /\ sw' = RefreshLoop(sw)
    /\ UNCHANGED <<apiVars, schedQ, resQ, rw, runVars, cntVars>>

UpdateScheduleStatus ==
    LET conflict == sw.s \in schedQ
    IN  /\ sw.pc = "status"
        /\ \/ /\ ~conflict
              /\ schedStatus' = [schedStatus EXCEPT ![sw.s] = sw.status]
              /\ UNCHANGED <<schedQ, faults>>
           \/ /\ conflict
              /\ UNCHANGED <<schedStatus, schedQ, faults>>
           \/ /\ ~conflict /\ faults < MaxFaults
              /\ faults' = faults + 1
              /\ schedQ' = Retry(schedQ, sw.s)
              /\ UNCHANGED schedStatus
        /\ sw' = SIdle
        /\ UNCHANGED <<svcVars, sched, res, resStatus, secret, resQ, rw, runVars, edits, restarts>>

ContinueSchedule == (\E x \in Keys : Refresh(x)) \/ Swap \/ UpdateScheduleStatus

-----------------------------------------------------------------------------
(* The runs.  A job acts for the resource of its key whatever has become of  *)
(* the resource since: it asks neither whether it is still active nor which  *)
(* schedule it names.                                                        *)

(* The cron (external) starts the job of any entry it holds, also of one the *)
(* map has lost or does not know yet.                                        *)
Fire(e) ==
    /\ fires < MaxFires
    /\ fires' = fires + 1
    /\ runs' = runs \cup {[n |-> fires, key |-> e.key, at |-> "fired"]}
    /\ UNCHANGED <<svcVars, apiVars, schedQ, resQ, sw, rw, outdated, cntVars>>

(* The closure given to Add: the schedule and its action have to be active.  *)
StartAction(j) ==
    LET plan == sched[j.key[1]]
    IN  /\ j.at = "fired"
        /\ plan # None /\ plan.active
        /\ plan.actions[j.key[2]] # None /\ plan.actions[j.key[2]].active
        /\ runs' = (runs \ {j}) \cup {[j EXCEPT !.at = "running"]}
        /\ UNCHANGED <<svcVars, apiVars, schedQ, resQ, sw, rw, outdated, fires, cntVars>>

(* A run ends and writes nothing: outside the periods of its schedule, at an *)
(* error, or with an update that fails, which is logged and forgotten.       *)
RunEnds(j) ==
    /\ runs' = runs \ {j}
    /\ UNCHANGED <<svcVars, apiVars, schedQ, resQ, sw, rw, outdated, fires, cntVars>>

(* Status().Update of a run on resource r.  It is refused unless the object  *)
(* is still the one the run read, so the read is the same step.              *)
RunWrites(r, status) ==
    /\ res[r] # None
    /\ resStatus' = [resStatus EXCEPT ![r] = status]
    /\ outdated' = IF rw[KindOf[r]].r = r THEN outdated \cup {r} ELSE outdated
    /\ UNCHANGED <<svcVars, sched, schedStatus, res, secret, schedQ, resQ, sw, rw, fires,
                   edits, restarts>>

Declared(j) == res[j.key[3]] # None /\ res[j.key[3]].actions[j.key[2]] # "absent"

JobReports(j) ==
    /\ j.at = "running" /\ Declared(j)
    /\ \E reason \in RunReasons :
          RunWrites(j.key[3], [resStatus[j.key[3]] EXCEPT !.cond[j.key[2]] = reason])
    /\ runs' = runs \ {j}
    /\ UNCHANGED faults

(* An action of command "scale" creates an ActionExecution, then reports it. *)
JobScales(j) ==
    LET r == j.key[3]
    IN  /\ j.at = "running" /\ Declared(j) /\ KindOf[r] \in ScaleKinds
        /\ \/ RunWrites(r, [resStatus[r] EXCEPT !.cond[j.key[2]] = "Ran"])
           \/ UNCHANGED <<svcVars, apiVars, schedQ, resQ, sw, rw, outdated, fires, edits,
                          restarts>>
        /\ runs' = (runs \ {j}) \cup {[j EXCEPT !.at = "execution"]}
        /\ UNCHANGED faults

(* finalizeAction; where the Delete after it fails, it is done again.        *)
ExecutionReports(j) ==
    LET r == j.key[3]
    IN  /\ j.at = "execution"
        /\ \E reason \in RunReasons \cup {"Timeout"} :
              RunWrites(r, [resStatus[r] EXCEPT !.scale = reason])
        /\ \/ runs' = runs \ {j} /\ UNCHANGED faults
           \/ faults < MaxFaults /\ faults' = faults + 1 /\ UNCHANGED runs

Run == \/ \E e \in entries : Fire(e)
       \/ \E j \in runs : \/ StartAction(j) \/ RunEnds(j)
                          \/ JobReports(j) \/ JobScales(j) \/ ExecutionReports(j)

-----------------------------------------------------------------------------
(* The operator dies.  The next one is given every object as just created.  *)
OperatorRestart ==
    /\ restarts < MaxRestarts
    /\ restarts' = restarts + 1
    /\ Restart
    /\ schedQ' = Existing(sched) /\ resQ' = Existing(res)
    /\ sw' = SIdle /\ rw' = [k \in Kinds |-> RIdle]
    /\ runs' = {j \in runs : j.at = "execution"} /\ outdated' = {}
    /\ UNCHANGED <<apiVars, fires, edits, faults>>

Next ==
    \/ User
    \/ \E r \in Resources : ReconcileResource(r)
    \/ \E k \in Kinds : Continue(k)
    \/ \E s \in Schedules : ReconcileSchedule(s)
    \/ ContinueSchedule
    \/ Run
    \/ OperatorRestart

Spec == Init /\ [][Next]_vars

(* The work queues are FIFO and a worker never stops in the middle: a queued *)
(* object is reconciled each time its worker is free often enough.           *)
Fairness ==
    /\ \A r \in Resources : SF_vars(ReconcileResource(r))
    /\ \A k \in Kinds : WF_vars(Continue(k))
    /\ \A s \in Schedules : SF_vars(ReconcileSchedule(s))
    /\ WF_vars(ContinueSchedule)

FairSpec == Spec /\ Fairness

-----------------------------------------------------------------------------
TypeOK ==
    /\ ServiceTypeOK
    /\ sched \in [Schedules -> ScheduleSpecs \cup {None}]
    /\ res \in [Resources -> ResourceSpecs \cup {None}] /\ secret \in BOOLEAN
    /\ schedStatus \in [Schedules -> Status] /\ resStatus \in [Resources -> Status]
    /\ schedQ \subseteq Schedules /\ resQ \subseteq Resources
    /\ sw \in SWorkers /\ rw \in [Kinds -> RWorkers]
    /\ runs \subseteq Runs /\ outdated \subseteq Resources /\ fires \in 0..MaxFires
    /\ edits \in 0..MaxEdits /\ faults \in 0..MaxFaults /\ restarts \in 0..MaxRestarts

(* Resource r is neither queued nor in its worker's hands: its controller is *)
(* done with it until somebody edits it.  Runs may still write to its status.*)
Busy(r)  == rw[KindOf[r]].pc # "idle" /\ rw[KindOf[r]].r = r
Quiet(r) == r \notin resQ /\ ~Busy(r)
Retired(r) == res[r] = None \/ ~res[r].active
TrackedOf(r) == {x \in Keys : x[3] = r /\ Tracked(x)}

(* A resource that was deleted or disabled has no cron job left in the map   *)
(* once its controller is done with it: no refresh by the Schedule           *)
(* controller, crash or lost status update brings one back                   *)
(* (resource_controller.go:82-92, the not-found branch of every Reconcile).  *)
RetiredIsUnscheduled ==
    \A r \in Resources : Quiet(r) /\ Retired(r) => TrackedOf(r) = {}

(* An active resource that was reconciled has jobs under the schedule it     *)
(* names and no other, and none for an action that is off: also when it was  *)
(* moved between schedules, or back, while jobs were being refreshed         *)
(* (resource_controller.go:109-115, 134-144).                                *)
ScheduledWhereDeclared ==
    \A r \in Resources : Quiet(r) /\ ~Retired(r) =>
        \A x \in TrackedOf(r) : /\ x[1] = res[r].schedule
                                /\ res[r].actions[x[2]] # "off"

(* A resource comes to rest only with every action that is on scheduled, or  *)
(* with a status that says the schedule lacks it: none is dropped in silence *)
(* by a stale id, an error half-way, a lost update or a restart.  At rest    *)
(* none loses its job, and that word MissingAction gives way only to the     *)
(* report of a run that was under way, or leaked: the one case in which a    *)
(* resource shows a condition of success for an action that nobody has       *)
(* scheduled (resource_controller.go:145-277,                                *)
(* awsec2instance_controller.go:195-215).                                    *)
NoSilentlyDroppedAction ==
    [][\A r \in Resources : Quiet(r)' /\ ~Retired(r)' =>
          \A a \in Actions : res'[r].actions[a] = "on" =>
              LET x == <<res'[r].schedule, a, r>>
              IN  \/ m'[x] # 0
                  \/ resStatus'[r].cond[a] = "MissingAction"
                  \/ Quiet(r) /\ m[x] = 0 /\ resStatus'[r].cond[a] \in RunReasons]_vars

(* The Ready condition users see of a resource at rest is the one of the     *)
(* spec they see, and a resource comes to rest disabled showing no action:   *)
(* updates that lost a race, against users or runs, are repeated.  Only a    *)
(* run that was under way, or leaked, or an ActionExecution puts a condition *)
(* back on it afterwards (resource_controller.go:84-91, 280-296,             *)
(* actionexecution_controller.go:195-219).                                   *)
ReadyMatchesSpec ==
    [][\A r \in Resources : Quiet(r)' /\ res'[r] # None =>
          LET status == resStatus'[r]
          IN  IF res'[r].active THEN status.ready = "Active"
              ELSE /\ status.ready = "Disabled"
                   /\ \A a \in Actions : \/ status.cond[a] = "none"
                                         \/ Quiet(r) /\ status.cond[a] \in RunReasons
                   /\ \/ status.scale = "none"
                      \/ Quiet(r) /\ status.scale \in RunReasons \cup {"Timeout"}]_vars

(* When the Schedule controller is about to report a schedule Active or      *)
(* Disabled, every job it saw was given the new cron expression or is gone:  *)
(* the only reconcile that leaves some untouched, and it does so half-way,   *)
(* through an early return in random order, is the one that reports          *)
(* MissingAction (schedule_controller.go:165-190).  Meanwhile the resource   *)
(* controllers remove and add jobs of the same schedule.                     *)
ReadyMeansRefreshed ==
    sw.pc = "status" /\ sw.status.ready \in {"Active", "Disabled"} =>
        \A x \in Keys : m[x] \notin sw.seen

(* A resource's jobs are added and removed by its own controller while it    *)
(* reconciles that resource; the Schedule controller only replaces a job of  *)
(* its schedule by another.  No loop over the shared map reaches a           *)
(* neighbour's job (schedule_service.go:141-170, 177-207).                   *)
OnlyOwnersTouchJobs ==
    [][\A x \in Keys : m'[x] # m[x] =>
          LET r == x[3]
          IN  \/ rw[KindOf[r]].r = r \/ (r \in resQ /\ r \notin resQ')
              \/ sw.s = x[1] /\ m[x] # 0 /\ m'[x] # 0
              \/ restarts' # restarts]_vars

(* A retired resource does lose its jobs, unless somebody revives it first;  *)
(* one that is disabled only with its Secret in place, a deleted one without *)
(* it too (awsrdsauroracluster_controller.go:72-93).                         *)
RetiredLosesItsJobs ==
    \A r \in Resources :
        Retired(r) ~> (TrackedOf(r) = {} \/ ~Retired(r) \/ SecretMissing(r))

(* A resource is retried for ever only where its schedule or its Secret does *)
(* not exist or its schedule has a cron expression that does not parse; the  *)
(* others, and the schedules, come to rest when the edits stop.              *)
Blocked(r) ==
    \/ SecretMissing(r)
    \/ /\ ~Retired(r)
       /\ LET plan == sched[res[r].schedule]
          IN  \/ plan = None
              \/ \E a \in Actions : /\ res[r].actions[a] = "on" /\ plan.actions[a] # None
                                    /\ plan.actions[a].cron \notin ValidCrons
ComesToRest ==
    /\ \A r \in Resources : <>[](Quiet(r) \/ Blocked(r))
    /\ <>[](sw.pc = "idle" /\ schedQ = {})

(* "map of schedule => map of action => map of resource => list of cron ids"  *)
(* (schedule_service.go:16): every job in the cron is one the map names,      *)
(* but for the calls under way.                                               *)
EveryJobIsInTheMap ==
    \A e \in entries : \/ m[e.key] = e.id
                       \/ e \in adding
                       \/ \E u \in swapping : u.new = e.id

(* "proceed to refresh spec on active cron" (schedule_controller.go:180):     *)
(* once everyone is done and a schedule is Ready, its jobs run at the times   *)
(* its spec gives.                                                            *)
JobsFollowTheSchedule ==
    (schedQ = {} /\ sw.pc = "idle" /\ \A r \in Resources : Quiet(r)) =>
        \A e \in entries :
            LET s == e.key[1]
                a == e.key[2]
            IN  m[e.key] = e.id /\ sched[s] # None /\ schedStatus[s].ready = "Active" =>
                    sched[s].actions[a] # None /\ e.spec = sched[s].actions[a].cron
=============================================================================
