---------------------------- MODULE CronJobSteps -----------------------------
(***************************************************************************)
(* The proofs about CronJob, first part: what a step makes of one job, for *)
(* every set of actions, of targets and of specs, and every length of a    *)
(* minute.                                                                 *)
(*                                                                         *)
(* What a job still has to do, has done and may report is tied to the task *)
(* its job function made of the resource it read: that task is the same    *)
(* from the read to the report, whatever users and other jobs do.          *)
(***************************************************************************)
EXTENDS CronJob, TLAPS

-----------------------------------------------------------------------------
(* Minutes.                                                                  *)

(* What the assumption says of the bounds, one by one. *)
LEMMA Bounds ==
    /\ Minute \in Nat \ {0} /\ MaxTime \in Nat /\ MaxFires \in Nat /\ MaxEdits \in Nat
    /\ Word \in Nat \ {0}
BY JobAssumption, KindAssumption

(* A truncated time is the whole minute it lies in. *)
LEMMA TruncateFacts ==
    ASSUME NEW t \in Nat
    PROVE  Truncate(t) \in 0..t /\ Truncate(t) % Minute = 0
BY Bounds DEF Truncate

(* Whole minutes are left alone. *)
LEMMA TruncateWhole ==
    ASSUME NEW t \in Nat, t % Minute = 0
    PROVE  Truncate(t) = t
BY Bounds DEF Truncate

(* Quotient and remainder are unique. *)
LEMMA UniqueQuotient ==
    ASSUME NEW q1 \in Int, NEW q2 \in Int,
           NEW r1 \in 0..(Minute - 1), NEW r2 \in 0..(Minute - 1),
           (Minute * q1) + r1 = (Minute * q2) + r2
    PROVE  q1 = q2 /\ r1 = r2
<1>1. ASSUME NEW a \in Int, NEW b \in Int, a >= b + 1 PROVE Minute * a >= (Minute * b) + Minute
  BY <1>1, Bounds
<1> QED
  BY <1>1, Bounds

(* The next instant is in the same minute, unless it begins one. *)
LEMMA TruncateNext ==
    ASSUME NEW t \in Nat, (t + 1) % Minute # 0
    PROVE  Truncate(t + 1) = Truncate(t)
<1> DEFINE q1 == t \div Minute       r1 == t % Minute
           q2 == (t + 1) \div Minute r2 == (t + 1) % Minute
<1>1. t = (Minute * q1) + r1 /\ q1 \in Int /\ r1 \in 0..(Minute - 1)
  BY Bounds
<1>2. t + 1 = (Minute * q2) + r2 /\ q2 \in Int /\ r2 \in 0..(Minute - 1) /\ r2 # 0
  BY Bounds
<1>3. Truncate(t) = t - r1 /\ Truncate(t + 1) = t + 1 - r2
  BY Bounds DEF Truncate
<1> HIDE DEF q1, r1, q2, r2
<1>4. (Minute * q1) + r1 = (Minute * q2) + (r2 - 1) /\ r2 - 1 \in 0..(Minute - 1)
  BY <1>1, <1>2, Bounds
<1>5. r1 = r2 - 1
  BY <1>1, <1>2, <1>4, UniqueQuotient
<1> QED
  BY <1>1, <1>2, <1>3, <1>5, Bounds

-----------------------------------------------------------------------------
(* What the job functions make of a spec.                                    *)

Scales(spec, a) ==
    /\ spec.actions[a] # None
    /\ spec.kind \in {"AwsRdsAuroraCluster", "AwsDocumentDBCluster"}
    /\ spec.actions[a].command = "scale"

(* The fields of a spec. *)
LEMMA SpecFacts ==
    ASSUME NEW spec \in ResourceSpecs
    PROVE  /\ spec # None /\ spec.kind \in Kinds
           /\ spec.namespaces \subseteq Namespaces /\ spec.ids \subseteq Targets
           /\ spec.selector \in {"invalid", "empty", "labels"}
           /\ spec.actions \in [Actions -> ActionOf(spec.kind) \cup {None}]
<1>1. spec # None /\ spec.kind \in Kinds /\ spec \in ResourceSpec(spec.kind)
  BY JobAssumption
<1> QED
  BY <1>1 DEF ResourceSpec

(* Every way a job function can go on.  It stops at once with a result, or   *)
(* hands a scaling over to an ActionExecution, or goes to the AWS objects of *)
(* the spec, or to the namespaces or workloads of one.                       *)
TaskIs(spec, a, enabled, task) ==
    /\ task.pc \in {"send", "create", "configure", "call"}
    /\ task.pc = "send" => /\ task.result \in {"Error", "Skipped"}
                           /\ task.lists = {} /\ task.todo = {}
    /\ task.pc # "send" => task.result = None /\ spec.actions[a] # None
    /\ task.pc = "create" => /\ Scales(spec, a) /\ FeatureOf(spec.kind) \in enabled
                             /\ task.lists = {} /\ task.todo = {}
    /\ task.pc = "configure" => /\ spec.kind \in AwsJobs /\ ~Scales(spec, a)
                                /\ task.lists = {} /\ task.todo = spec.ids
    /\ task.pc = "call" =>
          \/ /\ spec.kind = "K8sRunJob" /\ task.lists = {}
             /\ task.todo = IF spec.namespaces = {} THEN {OperatorNamespace} ELSE spec.namespaces
          \/ /\ spec.kind \in {"K8sHpa", "K8sPodReplicas"} /\ task.todo = {}
             /\ spec.selector # "invalid"
             /\ spec.namespaces = {} => spec.selector # "empty"
             /\ task.lists = IF spec.namespaces = {} THEN {NamespaceAll} ELSE spec.namespaces
    /\ task.result = "Skipped" <=> Scales(spec, a) /\ FeatureOf(spec.kind) \notin enabled

(* It goes one of these ways, whatever the kind. *)
LEMMA TaskFacts ==
    ASSUME NEW spec \in ResourceSpecs, NEW a \in Actions, NEW enabled
    PROVE  TaskIs(spec, a, enabled, JobFunction(spec, a, enabled))
<1>1. spec # None /\ spec.kind \in Kinds /\ None # "Skipped"
  BY SpecFacts, JobAssumption DEF Results
<1>2. ASSUME NEW r \in {"Error", "Skipped"}
      PROVE  /\ Ends(r).pc = "send" /\ Ends(r).result = r
             /\ Ends(r).lists = {} /\ Ends(r).todo = {}
  BY DEF Ends
<1>3. ASSUME NEW pc, NEW lists, NEW todo
      PROVE  /\ Goes(pc, lists, todo).pc = pc /\ Goes(pc, lists, todo).result = None
             /\ Goes(pc, lists, todo).lists = lists /\ Goes(pc, lists, todo).todo = todo
  BY DEF Goes
<1> PICK task : task = JobFunction(spec, a, enabled)
  OBVIOUS
<1> SUFFICES TaskIs(spec, a, enabled, task)
  OBVIOUS
<1>4. CASE spec.actions[a] = None
  <2>1. task = Ends("Error")
    BY <1>1, <1>4 DEF JobFunction
  <2> QED
    BY <1>2, <1>4, <2>1 DEF TaskIs, Scales
<1>5. CASE spec.actions[a] # None
  <2>1. CASE spec.kind \in {"K8sHpa", "K8sPodReplicas"}
    <3>1. task \in {Ends("Error"), Workloads(spec)}
      BY <1>1, <1>5, <2>1 DEF JobFunction, setAutoscaling, setReplicas
    <3>2. \/ task = Ends("Error")
          \/ /\ spec.selector # "invalid" /\ (spec.namespaces = {} => spec.selector # "empty")
             /\ task = Goes("call", IF spec.namespaces = {} THEN {NamespaceAll}
                                                           ELSE spec.namespaces, {})
      BY <3>1 DEF Workloads
    <3> QED
      BY <1>1, <1>2, <1>3, <1>5, <2>1, <3>2 DEF TaskIs, Scales, AwsJobs
  <2>2. CASE spec.kind = "K8sRunJob"
    <3>1. task = Goes("call", {}, IF spec.namespaces = {} THEN {OperatorNamespace}
                                                         ELSE spec.namespaces)
      BY <1>1, <1>5, <2>2 DEF JobFunction, runJob
    <3> QED
      BY <1>1, <1>3, <1>5, <2>2, <3>1 DEF TaskIs, Scales, AwsJobs
  <2>3. CASE spec.kind \in {"AwsEc2Instance", "AwsTransferFamily"}
    <3>1. task = Goes("configure", {}, spec.ids)
      BY <1>1, <1>5, <2>3 DEF JobFunction, startStopInstances, startStopServer
    <3> QED
      BY <1>1, <1>3, <1>5, <2>3, <3>1 DEF TaskIs, Scales, AwsJobs
  <2>4. CASE spec.kind \in {"AwsRdsAuroraCluster", "AwsDocumentDBCluster"}
    <3>1. task = startStopCluster(spec, a, FeatureOf(spec.kind), enabled)
      BY <1>1, <1>5, <2>4 DEF JobFunction, FeatureOf
    <3>2. \/ ~Scales(spec, a) /\ task = Goes("configure", {}, spec.ids)
          \/ Scales(spec, a) /\ FeatureOf(spec.kind) \in enabled /\ task = Goes("create", {}, {})
          \/ Scales(spec, a) /\ FeatureOf(spec.kind) \notin enabled /\ task = Ends("Skipped")
      BY <1>5, <2>4, <3>1 DEF startStopCluster, Scales
    <3> QED
      BY <1>1, <1>2, <1>3, <1>5, <2>4, <3>2 DEF TaskIs, AwsJobs
  <2> QED
    BY <1>1, <2>1, <2>2, <2>3, <2>4 DEF Kinds, AwsJobs
<1> QED
  BY <1>4, <1>5

(* A resource that is gone is an error. *)
LEMMA NoTask ==
    ASSUME NEW a, NEW enabled
    PROVE  JobFunction(None, a, enabled) = Ends("Error")
BY DEF JobFunction

(* The targets and the lists of a task make up what the spec names, each of  *)
(* it once.                                                                  *)
LEMMA TaskCovers ==
    ASSUME NEW spec \in ResourceSpecs, NEW a, NEW enabled, NEW task,
           TaskIs(spec, a, enabled, task), task.pc \in {"configure", "call"}
    PROVE  /\ task.todo \subseteq Named(spec)
           /\ \A n \in task.lists : ListOf(spec, n) \subseteq Named(spec)
           /\ \A t \in Named(spec) : t \in task.todo \/ \E n \in task.lists : t \in ListOf(spec, n)
           /\ \A n, m \in task.lists : n # m => ListOf(spec, n) \cap ListOf(spec, m) = {}
           /\ task.lists # {} => task.todo = {}
<1>1. /\ spec.namespaces \subseteq Namespaces /\ NamespaceAll \notin Namespaces
      /\ spec.selector \in {"invalid", "empty", "labels"}
      /\ NamespaceOf \in [DOMAIN TypeOf -> Namespaces]
  BY SpecFacts, KindAssumption
<1>2. CASE spec.kind \in AwsJobs
  <2>1. task.todo = spec.ids /\ task.lists = {}
    BY <1>2 DEF TaskIs, AwsJobs
  <2>2. Named(spec) = spec.ids
    BY <1>2 DEF Named, AwsJobs
  <2> QED
    BY <2>1, <2>2
<1>3. CASE spec.kind = "K8sRunJob"
  <2>1. /\ task.lists = {}
        /\ task.todo = IF spec.namespaces = {} THEN {OperatorNamespace} ELSE spec.namespaces
    BY <1>3 DEF TaskIs, AwsJobs
  <2>2. Named(spec) = IF spec.namespaces = {} THEN {OperatorNamespace} ELSE spec.namespaces
    BY <1>3 DEF Named, AwsJobs
  <2> QED
    BY <2>1, <2>2
<1>4. CASE spec.kind \notin AwsJobs /\ spec.kind # "K8sRunJob"
  <2>1. /\ task.todo = {} /\ spec.selector # "invalid"
        /\ spec.namespaces = {} => spec.selector # "empty"
        /\ task.lists = IF spec.namespaces = {} THEN {NamespaceAll} ELSE spec.namespaces
    BY <1>4 DEF TaskIs
  <2>2. Named(spec) =
           {t \in DOMAIN TypeOf :
              /\ TypeOf[t] = WorkloadType(spec)
              /\ spec.selector = "empty" \/ (spec.selector = "labels" /\ t \in Labelled)
              /\ IF spec.namespaces = {} THEN spec.selector # "empty"
                                         ELSE NamespaceOf[t] \in spec.namespaces}
    BY <1>4 DEF Named
  <2>3. \A n \in task.lists : ListOf(spec, n) \subseteq Named(spec)
    BY <1>1, <2>1, <2>2 DEF ListOf
  <2>4. \A t \in Named(spec) : \E n \in task.lists : t \in ListOf(spec, n)
    BY <1>1, <2>1, <2>2 DEF ListOf
  <2>5. \A n, m \in task.lists : n # m => ListOf(spec, n) \cap ListOf(spec, m) = {}
    BY <1>1, <2>1 DEF ListOf
  <2> QED
    BY <2>1, <2>3, <2>4, <2>5
<1> QED
  BY <1>2, <1>3, <1>4

-----------------------------------------------------------------------------
(* One job.                                                                  *)

(* What the job function makes of the resource as the job read it. *)
Task(job) == JobFunction(SpecOf(job), job.a, gates.enabled)

(* The job has got to its loop: it is in it, or reports what came of it. *)
Worked(job) == job.pc \in {"call", "status"} \/ job.result \in {"Success", "Failure"}

Creates(spec, task) == task.pc = "create" \/ (task.pc = "call" /\ spec.kind = "K8sRunJob")

(* Nothing the spec names is forgotten, none of it is done twice, and what is *)
(* still to be listed has not been called.                                    *)
Covers(job, spec, lists) ==
    /\ job.lists \subseteq lists
    /\ job.todo \cup job.done \cup job.failed \subseteq Named(spec)
    /\ job.todo \cap (job.done \cup job.failed) = {} /\ job.done \cap job.failed = {}
    /\ \A n \in job.lists : ListOf(spec, n) \cap (job.todo \cup job.done \cup job.failed) = {}
    /\ job.listErr = FALSE =>
          \A t \in Named(spec) : \/ t \in job.todo \cup job.done \cup job.failed
                                 \/ \E n \in job.lists : t \in ListOf(spec, n)

(* A job that has read its resource follows the task it made of it. *)
Follows(job, spec, task) ==
    /\ job.name # None <=> Creates(spec, task)
    /\ job.pc \in {"configure", "create"} =>
          /\ task.pc = job.pc /\ job.result = None
          /\ job.todo = task.todo /\ job.lists = task.lists
    /\ job.pc \in {"call", "status"} => job.result = None
    /\ job.result = "Skipped" <=> task.result = "Skipped"
    /\ Worked(job) => task.pc # "send"
    /\ Worked(job) /\ job.pc # "call" => job.todo = {} /\ job.lists = {}
    /\ Worked(job) /\ task.pc = "create" =>
          /\ job.pc # "call" /\ job.result # "Failure"
          /\ job.done = {} /\ job.failed = {} /\ job.listErr = FALSE
    /\ Worked(job) /\ task.pc # "create" => Covers(job, spec, task.lists)
    /\ job.result = "Success" => job.failed = {} /\ job.listErr = FALSE
    /\ job.result = "Failure" => job.failed # {} \/ job.listErr = TRUE

JobInv(job) ==
    /\ job.pc \in {"fired", "check", "read"} => SpecOf(job) = None /\ job.result = None
    /\ ~Worked(job) => job.done = {} /\ job.failed = {} /\ job.listErr = FALSE
    /\ SpecOf(job) = None => /\ job.name = None /\ ~Worked(job) /\ job.result # "Skipped"
                             /\ job.pc \notin {"configure", "create"}
    /\ SpecOf(job) # None => Follows(job, SpecOf(job), Task(job))

(* A firing belongs to the minute it was fired for, also when its goroutine  *)
(* begins later in it; it goes on if the schedule it read lets it.           *)
GateInv(job) ==
    /\ job.at % Minute = 0
    /\ job.at = IF job.pc = "fired" THEN Truncate(now) ELSE Truncate(job.start)
    /\ job.pc \in {"fired", "check"} => job.plan = None
    /\ job.sent = TRUE => job.pc = "done"
    /\ job.plan # None => (job.pc # "done" \/ job.sent = TRUE <=> Passes(job.plan, job.a, job.at))

(* What no step of a job changes. *)
Moves(job, new) ==
    /\ new.a = job.a /\ new.at = job.at
    /\ SpecOf(job) # None => new.copy = job.copy /\ new.name = job.name
    /\ new.copy \in {job.copy, cached}
    /\ job.done \subseteq new.done /\ job.failed \subseteq new.failed

Keeps(job, new) == new \in JobStates /\ JobInv(new) /\ GateInv(new) /\ Moves(job, new)

(* The results are what they seem. *)
LEMMA ResultFacts == None \notin {"Success", "Failure", "Error", "Skipped"}
BY JobAssumption DEF Results

(* The task depends on what was read and the action only. *)
LEMMA SameTask ==
    ASSUME NEW job, NEW new, new.copy = job.copy, new.a = job.a
    PROVE  SpecOf(new) = SpecOf(job) /\ Task(new) = Task(job)
BY DEF SpecOf, Task

(* The spec a job has read, and its task. *)
LEMMA ReadFacts ==
    ASSUME NEW job \in JobStates, SpecOf(job) # None
    PROVE  /\ SpecOf(job) \in ResourceSpecs /\ job.a \in Actions
           /\ TaskIs(SpecOf(job), job.a, gates.enabled, Task(job))
<1>1. SpecOf(job) \in ResourceSpecs /\ job.a \in Actions
  BY DEF SpecOf, JobStates, Objects
<1>2. TaskIs(SpecOf(job), job.a, gates.enabled, Task(job))
  BY <1>1, TaskFacts DEF Task
<1> QED
  BY <1>1, <1>2

(* The goroutine begins, in the minute of its firing. *)
LEMMA StartKeeps ==
    ASSUME NEW job \in JobStates, JobInv(job), GateInv(job), job.pc = "fired", now \in Times
    PROVE  Keeps(job, [job EXCEPT !.pc = "check", !.start = now])
<1>1. PICK new : new = [job EXCEPT !.pc = "check", !.start = now]
  OBVIOUS
<1>2. /\ new \in JobStates /\ new.pc = "check" /\ new.start = now
      /\ new.a = job.a /\ new.at = job.at /\ new.plan = job.plan /\ new.copy = job.copy
      /\ new.name = job.name /\ new.listErr = job.listErr
      /\ new.done = job.done /\ new.failed = job.failed
      /\ new.result = job.result /\ new.sent = job.sent
  BY <1>1 DEF JobStates
<1>3. SpecOf(new) = SpecOf(job)
  BY <1>2, SameTask
<1>4. JobInv(new)
  BY <1>2, <1>3 DEF JobInv, Worked
<1>5. GateInv(new)
  BY <1>2 DEF GateInv
<1> QED
  BY <1>1, <1>2, <1>4, <1>5 DEF Keeps, Moves

(* The schedule is read, and the job goes on or ends. *)
LEMMA CheckKeeps ==
    ASSUME NEW job \in JobStates, JobInv(job), GateInv(job), job.pc = "check",
           schedule \in ScheduleSpecs \cup {None},
           NEW plan, NEW pc,
           \/ /\ plan = schedule
              /\ pc = IF Passes(schedule, job.a, Truncate(job.start)) THEN "read" ELSE "done"
           \/ plan = job.plan /\ pc = "done"
    PROVE  Keeps(job, [job EXCEPT !.plan = plan, !.pc = pc])
<1>1. PICK new : new = [job EXCEPT !.plan = plan, !.pc = pc]
  OBVIOUS
<1>2. pc \in {"read", "done"} /\ plan \in ScheduleSpecs \cup {None}
  BY DEF JobStates
<1>3. /\ new \in JobStates /\ new.pc = pc /\ new.start = job.start
      /\ new.a = job.a /\ new.at = job.at /\ new.plan = plan /\ new.copy = job.copy
      /\ new.name = job.name /\ new.listErr = job.listErr
      /\ new.done = job.done /\ new.failed = job.failed
      /\ new.result = job.result /\ new.sent = job.sent
  BY <1>1, <1>2 DEF JobStates
<1>4. SpecOf(new) = SpecOf(job)
  BY <1>3, SameTask
<1>5. JobInv(new)
  BY <1>2, <1>3, <1>4 DEF JobInv, Worked
<1>6. GateInv(new)
  BY <1>2, <1>3 DEF GateInv, Passes
<1> QED
  BY <1>1, <1>3, <1>5, <1>6 DEF Keeps, Moves

(* Between the checks and the report nothing is decided about the firing. *)
LEMMA GateKeeps ==
    ASSUME NEW job \in JobStates, GateInv(job), job.pc \notin {"fired", "check", "done"},
           NEW new, new.pc \notin {"fired", "check", "done"},
           new.at = job.at, new.start = job.start, new.plan = job.plan, new.a = job.a,
           new.sent = job.sent
    PROVE  GateInv(new)
BY DEF GateInv

(* A time of the clock, and its minute, are times. *)
LEMMA TimeFacts ==
    ASSUME now \in Times
    PROVE  Truncate(now) \in Times
<1>1. now \in Nat /\ Truncate(now) \in 0..now
  BY Bounds, TruncateFacts DEF Times
<1> QED
  BY <1>1, Bounds DEF Times

(* The resource is read, and the job begins with the task it makes of it. *)
LEMMA ReadKeeps ==
    ASSUME NEW job \in JobStates, JobInv(job), GateInv(job), job.pc = "read",
           now \in Times, cached \in Objects,
           NEW task, task = JobFunction(cached.spec, job.a, gates.enabled),
           NEW name,
           name = CASE task.pc = "create" -> ExecutionName(job.a, now)
                    [] task.pc = "call" /\ cached.spec.kind = "K8sRunJob" ->
                          JobName(cached.spec, job.a, Truncate(now))
                    [] OTHER -> None
    PROVE  Keeps(job, [job EXCEPT !.copy = cached, !.pc = task.pc, !.result = task.result,
                                  !.lists = task.lists, !.todo = task.todo, !.name = name])
<1>1. PICK new : new = [job EXCEPT !.copy = cached, !.pc = task.pc, !.result = task.result,
                                   !.lists = task.lists, !.todo = task.todo, !.name = name]
  OBVIOUS
<1>2. job.a \in Actions /\ cached.spec \in ResourceSpecs \cup {None}
  BY DEF JobStates, Objects
<1>3. CASE cached.spec = None
  <2>1. task.pc = "send" /\ task.result = "Error" /\ task.lists = {} /\ task.todo = {}
    BY <1>3, NoTask DEF Ends
  <2>2. name = None
    BY <2>1
  <2>3. /\ new \in JobStates /\ new.pc = "send" /\ new.start = job.start
        /\ new.a = job.a /\ new.at = job.at /\ new.plan = job.plan /\ new.copy = cached
        /\ new.name = None /\ new.listErr = job.listErr
        /\ new.done = job.done /\ new.failed = job.failed
        /\ new.result = "Error" /\ new.sent = job.sent
    BY <1>1, <2>1, <2>2 DEF JobStates, Results
  <2>4. SpecOf(new) = None
    BY <1>3, <2>3 DEF SpecOf
  <2>5. JobInv(new)
    BY <2>3, <2>4, ResultFacts DEF JobInv, Worked
  <2>6. GateInv(new)
    BY <2>3, GateKeeps
  <2> QED
    BY <1>1, <2>3, <2>5, <2>6 DEF Keeps, Moves, JobInv
<1>4. CASE cached.spec # None
  <2> DEFINE spec == cached.spec
  <2>1. spec \in ResourceSpecs /\ TaskIs(spec, job.a, gates.enabled, task)
    BY <1>2, <1>4, TaskFacts
  <2>2. spec.namespaces \subseteq Namespaces /\ spec.ids \subseteq Targets
    BY <2>1, SpecFacts
  <2> HIDE DEF spec
  <2>3. /\ task.pc \in {"send", "create", "configure", "call"}
        /\ task.result \in Results \cup {None}
        /\ task.lists \subseteq Namespaces \cup {NamespaceAll}
        /\ task.todo \subseteq Targets \cup Namespaces
    <3>1. /\ task.pc \in {"send", "create", "configure", "call"}
          /\ task.result \in Results \cup {None}
      BY <2>1 DEF TaskIs, Results
    <3>2. task.lists \subseteq Namespaces \cup {NamespaceAll}
      BY <2>1, <2>2 DEF TaskIs
    <3>3. task.todo \subseteq Targets \cup Namespaces
      BY <2>1, <2>2, KindAssumption DEF TaskIs
    <3> QED
      BY <3>1, <3>2, <3>3
  <2>4. name \in {None} \cup ObjectNames /\ (name # None <=> Creates(spec, task))
    <3>1. ExecutionName(job.a, now) \in ObjectNames
      BY <1>2 DEF ExecutionName, ObjectNames
    <3>2. JobName(cached.spec, job.a, Truncate(now)) \in ObjectNames
      BY <1>2, TimeFacts DEF JobName, ObjectNames
    <3> QED
      BY <3>1, <3>2, JobAssumption DEF Creates, spec
  <2>5. /\ new \in JobStates /\ new.pc = task.pc /\ new.start = job.start
        /\ new.a = job.a /\ new.at = job.at /\ new.plan = job.plan /\ new.copy = cached
        /\ new.name = name /\ new.listErr = job.listErr
        /\ new.lists = task.lists /\ new.todo = task.todo
        /\ new.done = job.done /\ new.failed = job.failed
        /\ new.result = task.result /\ new.sent = job.sent
    BY <1>1, <2>3, <2>4 DEF JobStates
  <2>6. SpecOf(new) = spec /\ Task(new) = task
    BY <2>5 DEF SpecOf, Task, spec
  <2>7. job.done = {} /\ job.failed = {} /\ job.listErr = FALSE /\ SpecOf(job) = None
    BY ResultFacts DEF JobInv, Worked
  <2>8. Worked(new) <=> task.pc = "call"
    BY <2>1, <2>5, ResultFacts DEF Worked, TaskIs
  <2>9. task.pc = "call" => Covers(new, spec, task.lists)
    <3> SUFFICES ASSUME task.pc = "call" PROVE Covers(new, spec, task.lists)
      OBVIOUS
    <3>1. /\ task.todo \subseteq Named(spec)
          /\ \A t \in Named(spec) : t \in task.todo \/ \E n \in task.lists : t \in ListOf(spec, n)
          /\ task.lists # {} => task.todo = {}
      BY <2>1, TaskCovers
    <3> QED
      BY <2>5, <2>7, <3>1 DEF Covers
  <2>10. Follows(new, spec, task)
    <3>1. /\ task.pc = "send" => task.result \in {"Error", "Skipped"}
          /\ task.pc # "send" => task.result = None
      BY <2>1 DEF TaskIs
    <3> QED
      BY <2>3, <2>4, <2>5, <2>8, <2>9, <3>1, ResultFacts DEF Follows
  <2>11. JobInv(new)
    BY <1>4, <2>3, <2>5, <2>6, <2>7, <2>10, ResultFacts DEF JobInv, spec
  <2>12. GateInv(new)
    BY <2>3, <2>5, GateKeeps
  <2> QED
    BY <1>1, <2>5, <2>7, <2>11, <2>12 DEF Keeps, Moves
<1> QED
  BY <1>3, <1>4

(* A job gives up before it has touched anything: at the read, at the         *)
(* credentials, at the Create of an execution.                                *)
LEMMA GiveUpKeeps ==
    ASSUME NEW job \in JobStates, JobInv(job), GateInv(job),
           job.pc \in {"read", "configure", "create"},
           NEW todo, todo \in {job.todo, {}}
    PROVE  Keeps(job, [job EXCEPT !.pc = "send", !.result = "Error", !.todo = todo])
<1>1. PICK new : new = [job EXCEPT !.pc = "send", !.result = "Error", !.todo = todo]
  OBVIOUS
<1>2. /\ new \in JobStates /\ new.pc = "send" /\ new.start = job.start
      /\ new.a = job.a /\ new.at = job.at /\ new.plan = job.plan /\ new.copy = job.copy
      /\ new.name = job.name /\ new.listErr = job.listErr
      /\ new.done = job.done /\ new.failed = job.failed
      /\ new.result = "Error" /\ new.sent = job.sent
  BY <1>1 DEF JobStates, Results
<1>3. SpecOf(new) = SpecOf(job) /\ Task(new) = Task(job)
  BY <1>2, SameTask
<1>4. ~Worked(new) /\ ~Worked(job)
  <2>1. job.result = None
    BY DEF JobInv, Follows
  <2> QED
    BY <1>2, <2>1, ResultFacts DEF Worked
<1>5. ASSUME SpecOf(job) # None
      PROVE  Follows(new, SpecOf(job), Task(job))
  <2>1. Follows(job, SpecOf(job), Task(job)) /\ job.result = None
    BY <1>5 DEF JobInv, Follows
  <2> QED
    BY <1>2, <1>4, <2>1, ResultFacts DEF Follows
<1>6. JobInv(new)
  BY <1>2, <1>3, <1>4, <1>5 DEF JobInv
<1>7. GateInv(new)
  BY <1>2, GateKeeps
<1> QED
  BY <1>1, <1>2, <1>6, <1>7 DEF Keeps, Moves

(* The credentials are there: the loop begins with all of the task. *)
LEMMA ConfigureKeeps ==
    ASSUME NEW job \in JobStates, JobInv(job), GateInv(job), job.pc = "configure"
    PROVE  Keeps(job, [job EXCEPT !.pc = "call"])
<1>1. PICK new : new = [job EXCEPT !.pc = "call"]
  OBVIOUS
<1>2. /\ new \in JobStates /\ new.pc = "call" /\ new.start = job.start
      /\ new.a = job.a /\ new.at = job.at /\ new.plan = job.plan /\ new.copy = job.copy
      /\ new.name = job.name /\ new.listErr = job.listErr
      /\ new.lists = job.lists /\ new.todo = job.todo
      /\ new.done = job.done /\ new.failed = job.failed
      /\ new.result = job.result /\ new.sent = job.sent
  BY <1>1 DEF JobStates
<1>3. SpecOf(new) = SpecOf(job) /\ Task(new) = Task(job)
  BY <1>2, SameTask
<1> DEFINE spec == SpecOf(job)
           task == Task(job)
<1>4. spec # None /\ Follows(job, spec, task) /\ job.result = None
      /\ task.pc = "configure" /\ job.todo = task.todo /\ job.lists = task.lists
  BY DEF JobInv, Follows
<1>5. job.done = {} /\ job.failed = {} /\ job.listErr = FALSE
  BY <1>4, ResultFacts DEF JobInv, Worked
<1>6. spec \in ResourceSpecs /\ TaskIs(spec, job.a, gates.enabled, task)
  BY <1>4, ReadFacts
<1> HIDE DEF spec, task
<1>7. Covers(new, spec, task.lists)
  <2>1. /\ task.todo \subseteq Named(spec)
        /\ \A t \in Named(spec) : t \in task.todo \/ \E n \in task.lists : t \in ListOf(spec, n)
        /\ task.lists # {} => task.todo = {}
    BY <1>4, <1>6, TaskCovers
  <2> QED
    BY <1>2, <1>4, <1>5, <2>1 DEF Covers
<1>8. Follows(new, spec, task)
  BY <1>2, <1>4, <1>7, ResultFacts DEF Follows
<1>9. JobInv(new)
  <2>1. Worked(new)
    BY <1>2 DEF Worked
  <2> QED
    BY <1>2, <1>3, <1>4, <1>8, <2>1 DEF JobInv, spec, task
<1>10. GateInv(new)
  BY <1>2, GateKeeps
<1> QED
  BY <1>1, <1>2, <1>9, <1>10 DEF Keeps, Moves

(* The execution was created, or the loop is at its end. *)
LEMMA ToStatusKeeps ==
    ASSUME NEW job \in JobStates, JobInv(job), GateInv(job),
           job.pc = "create" \/ (job.pc = "call" /\ job.todo = {} /\ job.lists = {})
    PROVE  Keeps(job, [job EXCEPT !.pc = "status"])
<1>1. PICK new : new = [job EXCEPT !.pc = "status"]
  OBVIOUS
<1>2. /\ new \in JobStates /\ new.pc = "status" /\ new.start = job.start
      /\ new.a = job.a /\ new.at = job.at /\ new.plan = job.plan /\ new.copy = job.copy
      /\ new.name = job.name /\ new.listErr = job.listErr
      /\ new.lists = job.lists /\ new.todo = job.todo
      /\ new.done = job.done /\ new.failed = job.failed
      /\ new.result = job.result /\ new.sent = job.sent
  BY <1>1 DEF JobStates
<1>3. SpecOf(new) = SpecOf(job) /\ Task(new) = Task(job)
  BY <1>2, SameTask
<1> DEFINE spec == SpecOf(job)
           task == Task(job)
<1>4. spec # None /\ Follows(job, spec, task) /\ job.result = None
  BY DEF JobInv, Follows, Worked
<1>5. TaskIs(spec, job.a, gates.enabled, task)
  BY <1>4, ReadFacts
<1> HIDE DEF spec, task
<1>6. Worked(new)
  BY <1>2 DEF Worked
<1>7. Follows(new, spec, task)
  <2>1. CASE job.pc = "create"
    <3>1. job.done = {} /\ job.failed = {} /\ job.listErr = FALSE
      BY <1>4, <2>1, ResultFacts DEF JobInv, Worked
    <3>2. task.pc = "create" /\ job.todo = {} /\ job.lists = {}
      BY <1>4, <1>5, <2>1 DEF Follows, TaskIs
    <3> QED
      BY <1>2, <1>4, <3>1, <3>2, ResultFacts DEF Follows
  <2>2. CASE job.pc = "call" /\ job.todo = {} /\ job.lists = {}
    <3>1. Worked(job)
      BY <2>2 DEF Worked
    <3>2. task.pc # "send" /\ task.pc # "create" /\ Covers(job, spec, task.lists)
      BY <1>4, <2>2, <3>1 DEF Follows
    <3>3. Covers(new, spec, task.lists)
      BY <1>2, <3>2 DEF Covers
    <3> QED
      BY <1>2, <1>4, <2>2, <3>2, <3>3, ResultFacts DEF Follows
  <2> QED
    BY <2>1, <2>2
<1>8. JobInv(new)
  BY <1>2, <1>3, <1>4, <1>6, <1>7 DEF JobInv, spec, task
<1>9. GateInv(new)
  BY <1>2, GateKeeps
<1> QED
  BY <1>1, <1>2, <1>8, <1>9 DEF Keeps, Moves

(* A job in its loop, with whatever is left to list and to call, still covers *)
(* what its spec names.                                                       *)
LEMMA LoopKeeps ==
    ASSUME NEW job \in JobStates, JobInv(job), GateInv(job), job.pc = "call",
           NEW new \in JobStates, new.pc = "call", new.start = job.start,
           new.a = job.a, new.at = job.at, new.plan = job.plan, new.copy = job.copy,
           new.name = job.name, new.result = job.result, new.sent = job.sent,
           job.done \subseteq new.done, job.failed \subseteq new.failed,
           Covers(new, SpecOf(job), Task(job).lists)
    PROVE  Keeps(job, new)
<1>1. SpecOf(new) = SpecOf(job) /\ Task(new) = Task(job)
  BY SameTask
<1>2. Worked(new) /\ Worked(job)
  BY DEF Worked
<1>3. SpecOf(job) # None /\ Follows(job, SpecOf(job), Task(job))
  BY <1>2 DEF JobInv
<1>4. Follows(new, SpecOf(job), Task(job))
  BY <1>2, <1>3, ResultFacts DEF Follows
<1>5. JobInv(new)
  BY <1>1, <1>2, <1>3, <1>4 DEF JobInv
<1>6. GateInv(new)
  BY GateKeeps
<1> QED
  BY <1>5, <1>6 DEF Keeps, Moves

(* What a job in its loop knows of its task. *)
LEMMA LoopFacts ==
    ASSUME NEW job \in JobStates, JobInv(job), job.pc = "call"
    PROVE  /\ SpecOf(job) \in ResourceSpecs /\ job.a \in Actions
           /\ Task(job).pc \in {"configure", "call"}
           /\ TaskIs(SpecOf(job), job.a, gates.enabled, Task(job))
           /\ Covers(job, SpecOf(job), Task(job).lists)
           /\ job.name # None <=> Creates(SpecOf(job), Task(job))
<1>1. Worked(job)
  BY DEF Worked
<1>2. SpecOf(job) # None /\ Follows(job, SpecOf(job), Task(job))
  BY <1>1 DEF JobInv
<1>3. /\ SpecOf(job) \in ResourceSpecs /\ job.a \in Actions
      /\ TaskIs(SpecOf(job), job.a, gates.enabled, Task(job))
  BY <1>2, ReadFacts
<1>4. Task(job).pc \notin {"send", "create"} /\ Covers(job, SpecOf(job), Task(job).lists)
  BY <1>1, <1>2 DEF Follows
<1>5. Task(job).pc \in {"configure", "call"}
  BY <1>3, <1>4 DEF TaskIs
<1> QED
  BY <1>2, <1>3, <1>4, <1>5 DEF Follows

(* A namespace is listed: its workloads are new to the job. *)
LEMMA ListKeeps ==
    ASSUME NEW job \in JobStates, JobInv(job), GateInv(job), job.pc = "call", job.todo = {},
           NEW n \in job.lists, NEW todo, NEW err,
           \/ todo = ListOf(SpecOf(job), n) /\ err = job.listErr
           \/ todo = {} /\ err = TRUE
    PROVE  Keeps(job, [job EXCEPT !.lists = @ \ {n}, !.todo = todo, !.listErr = err])
<1>1. PICK new : new = [job EXCEPT !.lists = @ \ {n}, !.todo = todo, !.listErr = err]
  OBVIOUS
<1> DEFINE spec == SpecOf(job)
           lists == Task(job).lists
<1>2. ListOf(spec, n) \subseteq Targets
  BY KindAssumption DEF ListOf
<1>3. todo \subseteq Targets \cup Namespaces /\ err \in BOOLEAN
  BY <1>2 DEF JobStates
<1>4. /\ new \in JobStates /\ new.pc = "call" /\ new.start = job.start
      /\ new.a = job.a /\ new.at = job.at /\ new.plan = job.plan /\ new.copy = job.copy
      /\ new.name = job.name /\ new.listErr = err
      /\ new.lists = job.lists \ {n} /\ new.todo = todo
      /\ new.done = job.done /\ new.failed = job.failed
      /\ new.result = job.result /\ new.sent = job.sent
  BY <1>1, <1>3 DEF JobStates
<1>5. Covers(job, spec, lists)
  BY LoopFacts
<1>6. /\ \A m \in lists : ListOf(spec, m) \subseteq Named(spec)
      /\ \A m, k \in lists : m # k => ListOf(spec, m) \cap ListOf(spec, k) = {}
  BY LoopFacts, TaskCovers
<1> HIDE DEF spec, lists
<1>7. Covers(new, spec, lists)
  <2>1. CASE todo = ListOf(spec, n) /\ err = job.listErr
    <3>1. new.todo \cup new.done \cup new.failed \subseteq Named(spec)
      BY <1>4, <1>5, <1>6, <2>1 DEF Covers
    <3>2. new.todo \cap (new.done \cup new.failed) = {} /\ new.done \cap new.failed = {}
      BY <1>4, <1>5, <2>1 DEF Covers
    <3>3. ASSUME NEW m \in new.lists
          PROVE  ListOf(spec, m) \cap (new.todo \cup new.done \cup new.failed) = {}
      <4>1. m \in job.lists /\ m # n /\ m \in lists /\ n \in lists
        BY <1>4, <1>5 DEF Covers
      <4>2. ListOf(spec, m) \cap ListOf(spec, n) = {}
        BY <1>6, <4>1
      <4> QED
        BY <1>4, <1>5, <2>1, <4>1, <4>2 DEF Covers
    <3>4. ASSUME new.listErr = FALSE, NEW t \in Named(spec)
          PROVE  \/ t \in new.todo \cup new.done \cup new.failed
                 \/ \E m \in new.lists : t \in ListOf(spec, m)
      BY <1>4, <1>5, <2>1, <3>4 DEF Covers
    <3> QED
      BY <1>4, <1>5, <3>1, <3>2, <3>3, <3>4 DEF Covers
  <2>2. CASE todo = {} /\ err = TRUE
    BY <1>4, <1>5, <2>2 DEF Covers
  <2> QED
    BY <2>1, <2>2 DEF spec
<1> QED
  BY <1>1, <1>4, <1>7, LoopKeeps DEF spec, lists

(* A call: its target goes from what is to do to what is done, or failed. *)
LEMMA CallKeeps ==
    ASSUME NEW job \in JobStates, JobInv(job), GateInv(job), job.pc = "call",
           NEW t \in job.todo, NEW done, NEW failed,
           \/ done = job.done \cup {t} /\ failed = job.failed
           \/ done = job.done /\ failed = job.failed \cup {t}
    PROVE  Keeps(job, [job EXCEPT !.done = done, !.failed = failed, !.todo = @ \ {t}])
<1>1. PICK new : new = [job EXCEPT !.done = done, !.failed = failed, !.todo = @ \ {t}]
  OBVIOUS
<1>2. done \subseteq Targets \cup Namespaces /\ failed \subseteq Targets \cup Namespaces
  BY DEF JobStates
<1>3. /\ new \in JobStates /\ new.pc = "call" /\ new.start = job.start
      /\ new.a = job.a /\ new.at = job.at /\ new.plan = job.plan /\ new.copy = job.copy
      /\ new.name = job.name /\ new.listErr = job.listErr
      /\ new.lists = job.lists /\ new.todo = job.todo \ {t}
      /\ new.done = done /\ new.failed = failed
      /\ new.result = job.result /\ new.sent = job.sent
  BY <1>1, <1>2 DEF JobStates
<1> DEFINE spec == SpecOf(job)
           lists == Task(job).lists
<1>4. Covers(job, spec, lists)
  BY LoopFacts
<1> HIDE DEF spec, lists
<1>5. new.todo \cup new.done \cup new.failed = job.todo \cup job.done \cup job.failed
  BY <1>3
<1>6. new.todo \cap (new.done \cup new.failed) = {} /\ new.done \cap new.failed = {}
  BY <1>3, <1>4 DEF Covers
<1>7. Covers(new, spec, lists)
  BY <1>3, <1>4, <1>5, <1>6 DEF Covers
<1> QED
  BY <1>1, <1>3, <1>7, LoopKeeps DEF spec, lists

(* The status is written, and the result is what the loop has noted. *)
LEMMA StatusKeeps ==
    ASSUME NEW job \in JobStates, JobInv(job), GateInv(job), job.pc = "status", NEW result,
           result = IF job.failed = {} /\ job.listErr = FALSE THEN "Success" ELSE "Failure"
    PROVE  Keeps(job, [job EXCEPT !.pc = "send", !.result = result])
<1>1. PICK new : new = [job EXCEPT !.pc = "send", !.result = result]
  OBVIOUS
<1>2. result \in {"Success", "Failure"} /\ result \in Results
  BY DEF Results
<1>3. /\ new \in JobStates /\ new.pc = "send" /\ new.start = job.start
      /\ new.a = job.a /\ new.at = job.at /\ new.plan = job.plan /\ new.copy = job.copy
      /\ new.name = job.name /\ new.listErr = job.listErr
      /\ new.lists = job.lists /\ new.todo = job.todo
      /\ new.done = job.done /\ new.failed = job.failed
      /\ new.result = result /\ new.sent = job.sent
  BY <1>1, <1>2 DEF JobStates
<1>4. SpecOf(new) = SpecOf(job) /\ Task(new) = Task(job)
  BY <1>3, SameTask
<1> DEFINE spec == SpecOf(job)
           task == Task(job)
<1>5. Worked(job) /\ Worked(new)
  BY <1>2, <1>3 DEF Worked
<1>6. spec # None /\ Follows(job, spec, task)
  BY <1>5 DEF JobInv
<1> HIDE DEF spec, task
<1>7. Follows(new, spec, task)
  <2>1. /\ task.pc # "send" /\ job.todo = {} /\ job.lists = {} /\ job.result = None
        /\ task.pc = "create" => job.done = {} /\ job.failed = {} /\ job.listErr = FALSE
        /\ task.pc # "create" => Covers(job, spec, task.lists)
    BY <1>5, <1>6 DEF Follows
  <2>2. task.pc # "create" => Covers(new, spec, task.lists)
    BY <1>3, <2>1 DEF Covers
  <2>3. job.listErr \in BOOLEAN
    BY DEF JobStates
  <2>4. task.result # "Skipped"
    BY <1>6, <2>1, ResultFacts DEF Follows
  <2>5. /\ result = "Success" => job.failed = {} /\ job.listErr = FALSE
        /\ result = "Failure" => job.failed # {} \/ job.listErr = TRUE
    BY <2>3
  <2> QED
    BY <1>2, <1>3, <1>6, <2>1, <2>2, <2>4, <2>5 DEF Follows
<1>8. JobInv(new)
  BY <1>3, <1>4, <1>5, <1>6, <1>7 DEF JobInv, spec, task
<1>9. GateInv(new)
  BY <1>3, GateKeeps
<1> QED
  BY <1>1, <1>3, <1>8, <1>9 DEF Keeps, Moves

(* The report goes out. *)
LEMMA SendKeeps ==
    ASSUME NEW job \in JobStates, JobInv(job), GateInv(job), job.pc = "send"
    PROVE  Keeps(job, [job EXCEPT !.pc = "done", !.sent = TRUE])
<1>1. PICK new : new = [job EXCEPT !.pc = "done", !.sent = TRUE]
  OBVIOUS
<1>2. /\ new \in JobStates /\ new.pc = "done" /\ new.start = job.start
      /\ new.a = job.a /\ new.at = job.at /\ new.plan = job.plan /\ new.copy = job.copy
      /\ new.name = job.name /\ new.listErr = job.listErr
      /\ new.lists = job.lists /\ new.todo = job.todo
      /\ new.done = job.done /\ new.failed = job.failed
      /\ new.result = job.result /\ new.sent = TRUE
  BY <1>1 DEF JobStates
<1>3. SpecOf(new) = SpecOf(job) /\ Task(new) = Task(job)
  BY <1>2, SameTask
<1>4. Worked(new) <=> Worked(job)
  BY <1>2 DEF Worked
<1>5. ASSUME NEW spec, NEW task, Follows(job, spec, task) PROVE Follows(new, spec, task)
  <2>1. ASSUME Covers(job, spec, task.lists) PROVE Covers(new, spec, task.lists)
    BY <1>2, <2>1 DEF Covers
  <2> QED
    BY <1>2, <1>4, <1>5, <2>1 DEF Follows
<1>6. JobInv(new)
  BY <1>2, <1>3, <1>4, <1>5 DEF JobInv
<1>7. GateInv(new)
  BY <1>2 DEF GateInv
<1> QED
  BY <1>1, <1>2, <1>6, <1>7 DEF Keeps, Moves
=============================================================================
