------------------------------- MODULE CronJob -------------------------------
(***************************************************************************)
(* What runs when the cron fires: the closure reconcileResource gives to   *)
(* Add (resource_controller.go:160-256), with its checks of the schedule   *)
(* and its periods, and the jobs of the seven kinds.  JobKinds says what   *)
(* each kind's job function asks for; the steps are the same: read the     *)
(* resource, look up the credentials, list, call one target after the      *)
(* other, write the status, report.                                        *)
(*                                                                         *)
(* One resource is modelled.  Every entry of the cron runs on a goroutine  *)
(* of its own, so its jobs overlap with each other, with reconciles and    *)
(* with users.  A job reads the resource from the informer cache and       *)
(* writes its whole status back.  Time is counted in parts of a minute:    *)
(* the ends of a period need not be whole minutes.                         *)
(***************************************************************************)
EXTENDS JobKinds, FiniteSets

CONSTANTS
    ScheduleSpecs,                \* what users write
    Worlds,                       \* what the operator may find when it starts
    Minute,                       \* parts of a minute
    MaxTime, MaxFires, MaxEdits   \* bounds

Times == 0..MaxTime
Jobs  == 1..MaxFires

TimePeriod == [start : Times, end : Times, actions : SUBSET Actions]
ScheduleSpec == [active : BOOLEAN, actions : SUBSET Actions,  \* those that are active
                 activePeriods : SUBSET TimePeriod, inactivePeriods : SUBSET TimePeriod]

(* A world: the resource, the keys of its Secret (None if there is no        *)
(* Secret), and the texts of --feature-gates and of FEATURE_GATES.           *)
ResourceSpecs == {w.spec : w \in Worlds}
Secrets       == {w.secret : w \in Worlds}

Results == {"Success", "Failure", "Error", "Skipped"}
Reasons == {"none", "Active", "Failed", "Disabled"}

(* The names of Jobs and of ActionExecutions. *)
ObjectNames == [prefix : Actions \cup {"cut"}, at : Times]

ASSUME JobAssumption ==
    /\ ScheduleSpecs \subseteq ScheduleSpec
    /\ \A spec \in ResourceSpecs : spec.kind \in Kinds /\ spec \in ResourceSpec(spec.kind)
    /\ None \notin ScheduleSpecs /\ None \notin ResourceSpecs /\ None \notin Results
    /\ None \notin ObjectNames /\ None \notin Settings
    /\ \A w \in Worlds : /\ DOMAIN w = {"spec", "secret", "cli", "env"}
                         /\ {w.cli, w.env} \subseteq Seq(STRING)
    /\ Minute \in Nat \ {0}
    /\ {MaxTime, MaxFires, MaxEdits} \subseteq Nat

(* The resource: its spec, its Action conditions, its resourceVersion.      *)
Objects == [spec : ResourceSpecs \cup {None}, cond : [Actions -> Reasons], ver : Nat]
NoObject == [spec |-> None, cond |-> [a \in Actions |-> "none"], ver |-> 0]

VARIABLES
    now,            \* the clock
    schedule,       \* the schedule's spec, as the cache shows it: None if there is none
    obj, cached,    \* the resource, in the API server and in the cache
    who,            \* <<kind, longName>>: which resource it is
    secret,         \* its Secret
    gates,          \* [cli, env]: as given; enabled: the feature registry
    jobs,           \* what each firing has come to
    state,          \* what each target is set to
    made,           \* the Jobs and ActionExecutions created: <<namespace, name>>
    fires, edits

vars == <<now, schedule, obj, cached, who, secret, gates, jobs, state, made, fires, edits>>

(* at: the minute for which it was fired; start: the time its goroutine      *)
(* began; plan, copy: what it read of the schedule and of the resource;      *)
(* name: of what it creates; lists, todo: what the loops still have to do.   *)
JobStates ==
    [pc : {"fired", "check", "read", "configure", "create", "call", "status", "send", "done"},
     a : Actions, at : Times, start : Times, plan : ScheduleSpecs \cup {None}, copy : Objects,
     name : {None} \cup ObjectNames,
     lists : SUBSET (Namespaces \cup {NamespaceAll}), listErr : BOOLEAN,
     todo : SUBSET (Targets \cup Namespaces), done : SUBSET (Targets \cup Namespaces),
     failed : SUBSET (Targets \cup Namespaces),
     result : Results \cup {None}, sent : BOOLEAN]
NoJob == [pc |-> "done", a |-> CHOOSE a \in Actions : TRUE, at |-> 0, start |-> 0,
          plan |-> None, copy |-> NoObject, name |-> None, lists |-> {}, listErr |-> FALSE,
          todo |-> {}, done |-> {}, failed |-> {}, result |-> None, sent |-> FALSE]

Init ==
    /\ now = 0 /\ schedule \in ScheduleSpecs
    /\ \E w \in Worlds :
          LET text == GateText(w.cli, w.env)
          IN  /\ Starts(text)
              /\ gates = [cli |-> w.cli, env |-> w.env, enabled |-> NewRegistry(text)]
              /\ obj = [NoObject EXCEPT !.spec = w.spec]
              /\ who = <<w.spec.kind, w.spec.longName>>
              /\ secret = w.secret
    /\ cached = obj
    /\ jobs = [j \in Jobs |-> NoJob]
    /\ state = [t \in Targets |-> None]
    /\ made = {}
    /\ fires = 0 /\ edits = 0

-----------------------------------------------------------------------------
(* The environment: time, users, the reconciler's status updates, watches.  *)

(* The cron starts a job's goroutine at once: it begins within the minute.  *)
Tick ==
    /\ now < MaxTime
    /\ (now + 1) % Minute = 0 => \A j \in Jobs : jobs[j].pc # "fired"
    /\ now' = now + 1
    /\ UNCHANGED <<schedule, obj, cached, who, secret, gates, jobs, state, made, fires, edits>>

Edit(s, o, data) ==
    /\ edits < MaxEdits
    /\ edits' = edits + 1
    /\ schedule' = s /\ obj' = o /\ secret' = data
    /\ UNCHANGED <<now, cached, who, gates, jobs, state, made, fires>>

WriteSchedule == \E s \in ScheduleSpecs \cup {None} : Edit(s, obj, secret)
WriteResource ==
    \E spec \in ResourceSpecs :
       /\ <<spec.kind, spec.longName>> = who
       /\ Edit(schedule, [obj EXCEPT !.spec = spec, !.ver = @ + 1], secret)
DeleteResource ==
    /\ obj.spec # None
    /\ Edit(schedule, [NoObject EXCEPT !.ver = obj.ver + 1], secret)
WriteSecret ==
    /\ obj.spec # None /\ obj.spec.credentials # None
    /\ \E data \in Secrets \cup {None} : Edit(schedule, obj, data)
ReconcileStatus ==
    /\ obj.spec # None
    /\ \E a \in Actions, why \in {"none", "Active", "Disabled"} :
          Edit(schedule, [obj EXCEPT !.cond[a] = why, !.ver = @ + 1], secret)

CacheSync ==
    /\ cached # obj
    /\ cached' = obj
    /\ UNCHANGED <<now, schedule, obj, who, secret, gates, jobs, state, made, fires, edits>>

Environment == Tick \/ WriteSchedule \/ WriteResource \/ DeleteResource \/ WriteSecret
                    \/ ReconcileStatus \/ CacheSync

-----------------------------------------------------------------------------
(* The closure.                                                             *)

(* An entry of the cron fires, at a whole minute: of any action, for the     *)
(* registry may lag behind the specs.                                        *)
Fire(a) ==
    /\ fires < MaxFires
    /\ now % Minute = 0
    /\ fires' = fires + 1
    /\ jobs' = [jobs EXCEPT ![fires + 1] = [NoJob EXCEPT !.pc = "fired", !.a = a, !.at = now]]
    /\ UNCHANGED <<now, schedule, obj, cached, who, secret, gates, state, made, edits>>

InPeriod(p, t) == (t > p.start /\ t < p.end) \/ t = p.start \/ t = p.end

(* The loops over the periods: one that holds for the action ends them.     *)
SomePeriod(ps, a, t) ==
    \E p \in ps : InPeriod(p, t) /\ (p.actions # {} => a \in p.actions)

\* Mutant: the time is not truncated.
NotTruncated(t) == t

Truncate(t) == t - (t % Minute)

(* The checks, in order; a job they stop is skipped without a word. *)
Passes(s, a, t) ==
    /\ s # None
    /\ s.active
    /\ a \in s.actions
    /\ s.activePeriods # {} => SomePeriod(s.activePeriods, a, t)
    /\ ~SomePeriod(s.inactivePeriods, a, t)

Goto(j, job) ==
    /\ jobs' = [jobs EXCEPT ![j] = job]
    /\ UNCHANGED <<now, schedule, cached, who, secret, gates, fires, edits>>

Start(j) ==
    /\ jobs[j].pc = "fired"
    /\ Goto(j, [jobs[j] EXCEPT !.pc = "check", !.start = now])
    /\ UNCHANGED <<obj, state, made>>

(* The schedule is read; if that fails, the job is dropped too. *)
Check(j) ==
    LET job == jobs[j]
    IN  /\ job.pc = "check"
        /\ \/ Goto(j, [job EXCEPT !.plan = schedule,
                          !.pc = IF Passes(schedule, job.a, Truncate(job.start))
                                 THEN "read" ELSE "done"])
           \/ Goto(j, [job EXCEPT !.pc = "done"])
        /\ UNCHANGED <<obj, state, made>>

-----------------------------------------------------------------------------
(* The job.                                                                 *)

SpecOf(job) == job.copy.spec

(* The resource is read, and the job function looks at it before anything is *)
(* touched; the read may fail.  The names of what it will create hold the    *)
(* time.                                                                     *)
Read(j) ==
    LET job  == jobs[j]
        task == JobFunction(cached.spec, job.a, gates.enabled)
        name == CASE task.pc = "create" -> ExecutionName(job.a, now)
                  [] task.pc = "call" /\ cached.spec.kind = "K8sRunJob" ->
                        JobName(cached.spec, job.a, Truncate(now))
                  [] OTHER -> None
    IN  /\ job.pc = "read"
        /\ \/ Goto(j, [job EXCEPT !.copy = cached, !.pc = task.pc, !.result = task.result,
                          !.lists = task.lists, !.todo = task.todo, !.name = name])
           \/ Goto(j, [job EXCEPT !.pc = "send", !.result = "Error"])
        /\ UNCHANGED <<obj, state, made>>

(* The AWS configuration, with the credentials of the Secret as it is now.  *)
Configure(j) ==
    LET job == jobs[j]
        ref == SpecOf(job).credentials
    IN  /\ job.pc = "configure"
        /\ \/ /\ ref # None => /\ secret # None
                                /\ getAwsCredentialProviderFromSecret(secret, ref.keysRef)
              /\ Goto(j, [job EXCEPT !.pc = "call"])
           \/ Goto(j, [job EXCEPT !.pc = "send", !.result = "Error", !.todo = {}])
        /\ UNCHANGED <<obj, state, made>>

(* A Create takes if no object has the name. *)
Create(namespace, name) ==
    /\ <<namespace, name>> \notin made
    /\ made' = made \cup {<<namespace, name>>}

(* The "scale" command creates an ActionExecution, or that fails; the answer *)
(* to a Create that took may be lost.                                        *)
CreateExecution(j) ==
    LET job == jobs[j]
    IN  /\ job.pc = "create"
        /\ \/ /\ Create(OperatorNamespace, job.name)
              /\ \/ Goto(j, [job EXCEPT !.pc = "status"])
                 \/ Goto(j, [job EXCEPT !.pc = "send", !.result = "Error"])
           \/ /\ Goto(j, [job EXCEPT !.pc = "send", !.result = "Error"])
              /\ UNCHANGED made
        /\ UNCHANGED <<obj, state>>

\* Mutants: the first error ends the loop; a continue is forgotten.
ErrorEndsLoop(job, t) == [job EXCEPT !.failed = @ \cup {t}, !.todo = {}, !.lists = {}]

MissingContinue(job, t) ==
    [job EXCEPT !.failed = @ \cup {t}, !.done = @ \cup {t}, !.todo = @ \ {t}]

(* An error is noted, and the loop goes on with the next target. *)
NoteError(job, t) == [job EXCEPT !.failed = @ \cup {t}, !.todo = @ \ {t}]

(* One turn of the outer loop over namespaces: they are listed, or that      *)
(* fails and is noted.                                                       *)
List(j, namespace) ==
    LET job == [jobs[j] EXCEPT !.lists = @ \ {namespace}]
    IN  /\ job.pc = "call"
        /\ job.todo = {} /\ namespace \in jobs[j].lists
        /\ \/ Goto(j, [job EXCEPT !.todo = ListOf(SpecOf(job), namespace)])
           \/ Goto(j, [job EXCEPT !.listErr = TRUE])
        /\ UNCHANGED <<obj, state, made>>

(* A call takes: a Job is created, or the target has its new setting. *)
Takes(job, t) ==
    IF SpecOf(job).kind = "K8sRunJob" THEN Create(t, job.name) /\ UNCHANGED state
    ELSE /\ ~Rejected(SpecOf(job), Setting(SpecOf(job), job.a))
         /\ state' = [state EXCEPT ![t] = Setting(SpecOf(job), job.a)]
         /\ UNCHANGED made

(* One turn of the loop over targets.  A call that fails may have taken.    *)
Call(j, t) ==
    LET job == jobs[j]
    IN  /\ job.pc = "call"
        /\ t \in job.todo
        /\ \/ /\ Takes(job, t)
              /\ Goto(j, [job EXCEPT !.done = @ \cup {t}, !.todo = @ \ {t}])
           \/ /\ Takes(job, t)
              /\ Goto(j, NoteError(job, t))
           \/ /\ Goto(j, NoteError(job, t))
              /\ UNCHANGED <<state, made>>
        /\ UNCHANGED obj

\* Mutant: the loop waits until every call has taken.
WaitForAll(j) ==
    LET job == jobs[j]
    IN  /\ job.pc = "call"
        /\ job.todo = {} /\ job.lists = {} /\ job.failed = {}
        /\ Goto(j, [job EXCEPT !.pc = "status"])
        /\ UNCHANGED <<obj, state, made>>

EndLoop(j) ==
    LET job == jobs[j]
    IN  /\ job.pc = "call"
        /\ job.todo = {} /\ job.lists = {}
        /\ Goto(j, [job EXCEPT !.pc = "status"])
        /\ UNCHANGED <<obj, state, made>>

\* Mutant: the resourceVersion is not compared.
NeverStale(job) == FALSE

Stale(job) == job.copy.ver # obj.ver

(* The whole status goes back, with the condition of this action changed; an *)
(* update that fails is logged and forgotten.                                *)
UpdateStatus(j) ==
    LET job == jobs[j]
        ok  == job.failed = {} /\ ~job.listErr
    IN  /\ job.pc = "status"
        /\ \/ /\ obj.spec # None /\ ~Stale(job)
              /\ obj' = [obj EXCEPT !.cond = [job.copy.cond EXCEPT
                                        ![job.a] = IF ok THEN "Active" ELSE "Failed"],
                                    !.ver = @ + 1]
           \/ UNCHANGED obj
        /\ Goto(j, [job EXCEPT !.pc = "send",
                       !.result = IF ok THEN "Success" ELSE "Failure"])
        /\ UNCHANGED <<state, made>>

Send(j) ==
    /\ jobs[j].pc = "send"
    /\ Goto(j, [jobs[j] EXCEPT !.pc = "done", !.sent = TRUE])
    /\ UNCHANGED <<obj, state, made>>

Step(j) ==
    \/ Start(j) \/ Check(j) \/ Read(j) \/ Configure(j) \/ CreateExecution(j)
    \/ EndLoop(j) \/ UpdateStatus(j) \/ Send(j)
    \/ \E t \in Targets \cup Namespaces : Call(j, t)
    \/ \E n \in Namespaces \cup {NamespaceAll} : List(j, n)

Next == Environment \/ (\E a \in Actions : Fire(a)) \/ (\E j \in Jobs : Step(j))

JobSpec == Init /\ [][Next]_vars

(* A job's calls return, or are cut off by its context after five minutes.  *)
Fairness == \A j \in Jobs : WF_vars(Step(j))
FairSpec == JobSpec /\ Fairness

-----------------------------------------------------------------------------
(* A target is counted as done or as failed, never as both: an error of the  *)
(* loop goes on with the next target (the continues of the job functions).   *)
TypeOK ==
    /\ now \in Times /\ schedule \in ScheduleSpecs \cup {None}
    /\ {obj, cached} \subseteq Objects /\ secret \in Secrets \cup {None}
    /\ gates.enabled \subseteq Features
    /\ \A j \in Jobs : jobs[j] \in JobStates /\ jobs[j].done \cap jobs[j].failed = {}
    /\ DOMAIN state = Targets
    /\ \A m \in made : m[1] \in Namespaces
    /\ fires \in 0..MaxFires /\ edits \in 0..MaxEdits

(* The minutes of a schedule: those in an active period for the action, if   *)
(* there are active periods, that are in no inactive one.                    *)
MinutesIn(ps, a) == UNION {{t \in p.start..p.end : t % Minute = 0}
                             : p \in {q \in ps : q.actions = {} \/ a \in q.actions}}
Due(s, a) == (IF s.activePeriods = {} THEN {t \in Times : t % Minute = 0}
                                      ELSE MinutesIn(s.activePeriods, a))
             \ MinutesIn(s.inactivePeriods, a)

(* "Inactive periods have priority over active ones, no active periods means *)
(* always active": whether a firing runs is decided by the minute it was     *)
(* fired for, however late in that minute its goroutine begins, however long *)
(* the read of the schedule takes and wherever in a minute a period ends     *)
(* (resource_controller.go:187-245).                                         *)
RunsInDueMinutes ==
    \A j \in Jobs : jobs[j].plan # None =>
        LET s == jobs[j].plan
        IN  (jobs[j].pc # "done" \/ jobs[j].sent)
              <=> /\ s.active /\ jobs[j].a \in s.actions
                  /\ jobs[j].at \in Due(s, jobs[j].a)

(* What a spec names: its AWS objects; its namespaces, for Jobs; of the      *)
(* workloads, those of its type that its selector matches, in its namespaces *)
(* or in all of them, but not every one there is.                            *)
Named(spec) ==
    CASE spec.kind \in AwsJobs    -> spec.ids
      [] spec.kind = "K8sRunJob" -> IF spec.namespaces = {} THEN {OperatorNamespace}
                                                           ELSE spec.namespaces
      [] OTHER -> {t \in DOMAIN TypeOf :
                     /\ TypeOf[t] = WorkloadType(spec)
                     /\ spec.selector = "empty" \/ (spec.selector = "labels" /\ t \in Labelled)
                     /\ IF spec.namespaces = {} THEN spec.selector # "empty"
                                               ELSE NamespaceOf[t] \in spec.namespaces}

(* The namespaces it creates objects in. *)
CreatesIn(spec) == IF spec.kind = "K8sRunJob" THEN Named(spec) ELSE {OperatorNamespace}

(* What an action asks for: numbers without a width, or a command. *)
Asked(action, setting) ==
    IF "command" \in DOMAIN action
    THEN /\ setting.start = (action.command = "start")
         /\ action.command = "hibernate" => setting.hibernate
         /\ action.command = "stop" /\ "hibernate" \in DOMAIN setting => ~setting.hibernate
    ELSE setting = action
Fits(action) == \A f \in DOMAIN action \ {"command"} : -Word <= 2 * action[f] /\ 2 * action[f] < Word

(* What is reported is what happened.  Success: everything the spec names    *)
(* took the setting the action asks for (if the number fits an int32), and   *)
(* has another only where another job was there too; or got an object of its *)
(* own, that no other firing reports as its own.  Failure: an error was      *)
(* noted, and whatever could be listed was still tried.  Error, Skipped:     *)
(* no target was touched (the end of every job function, as                  *)
(* awsec2instance_controller.go:192-216).                                    *)
ReportIsTrue ==
    \A j \in Jobs : jobs[j].sent =>
        LET job == jobs[j]
            action == SpecOf(job).actions[job.a]
            Others(t) == {k \in Jobs \ {j} : t \in jobs[k].done \cup jobs[k].failed}
            Owners(n) == {k \in Jobs : /\ jobs[k].name = job.name /\ jobs[k].result = "Success"
                                       /\ n \in CreatesIn(SpecOf(jobs[k]))}
        IN  CASE job.result = "Success" /\ job.name # None ->
                   \A n \in CreatesIn(SpecOf(job)) : <<n, job.name>> \in made /\ Owners(n) = {j}
              [] job.result = "Success" /\ job.name = None ->
                   /\ job.done = Named(SpecOf(job))
                   /\ \A t \in job.done :
                         \/ state[t] # None /\ Asked(action, state[t])
                         \/ Others(t) # {} \/ ~Fits(action)
              [] job.result = "Failure" ->
                   /\ job.failed # {} \/ job.listErr
                   /\ job.listErr \/ job.done \cup job.failed = Named(SpecOf(job))
              [] OTHER -> job.done \cup job.failed = {}

(* "Refusing to target all namespaces with an empty label selector": a       *)
(* target is changed only if a spec some firing read names it, by its        *)
(* namespace, its labels or its identifier (k8shpa_controller.go:117-133).   *)
TouchesOnlyWhatIsNamed ==
    /\ \A t \in Targets : state[t] # None =>
          \E j \in Jobs : SpecOf(jobs[j]) # None /\ t \in Named(SpecOf(jobs[j]))
    /\ \A m \in made :
          \E j \in Jobs : jobs[j].name = m[2] /\ m[1] \in CreatesIn(SpecOf(jobs[j]))

(* "CLI flag takes precedence": what is enabled is what the flag says, the   *)
(* environment only where there is no flag.  A scaling is skipped when the   *)
(* feature of its own kind is not enabled, and only then; without it no      *)
(* ActionExecution exists (awsrdsauroracluster_controller.go:126-136,        *)
(* awsdocumentdbcluster_controller.go:126-136, main.go:144-195).             *)
FeatureOn(f) ==
    LET text == IF Len(gates.cli) > 0 THEN gates.cli ELSE gates.env
    IN  \E i \in 1..Len(text) : text[i] \in {f, "ALL"}
FeatureOf(kind) == IF kind = "AwsRdsAuroraCluster" THEN "AuroraVerticalScaling"
                                                  ELSE "DocumentDBVerticalScaling"
ScaleFollowsItsGate ==
    \A j \in Jobs : SpecOf(jobs[j]) # None =>
        LET spec == SpecOf(jobs[j])
            scales == /\ spec.actions[jobs[j].a] # None
                      /\ spec.kind \in {"AwsRdsAuroraCluster", "AwsDocumentDBCluster"}
                      /\ spec.actions[jobs[j].a].command = "scale"
        IN  /\ jobs[j].result = "Skipped" <=> scales /\ ~FeatureOn(FeatureOf(spec.kind))
            /\ scales /\ made # {} => FeatureOn(FeatureOf(spec.kind))

(* A job writes back the status it read at its start, and yet never undoes   *)
(* what another job or a reconcile has written since: only the condition of  *)
(* its own action changes (resource_controller.go:289-296 and the Status()   *)
(* updates of the jobs).                                                     *)
OnlyOwnCondition ==
    [][\A j \in Jobs : jobs[j].pc = "status" /\ jobs'[j].pc = "send" =>
          \A a \in Actions \ {jobs[j].a} : obj'.cond[a] = obj.cond[a]]_vars

(* Every firing ends, and one that came to a result is reported, whatever    *)
(* its calls return (resource_controller.go:247-255).                        *)
EveryFiringEnds ==
    \A j \in Jobs : jobs[j].pc = "fired" ~>
                        jobs[j].pc = "done" /\ (jobs[j].result # None => jobs[j].sent)
=============================================================================
