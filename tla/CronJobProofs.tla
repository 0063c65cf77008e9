---------------------------- MODULE CronJobProofs ----------------------------
(***************************************************************************)
(* The proofs about CronJob, second part: all the jobs of a resource, for  *)
(* every number of firings that overlap and every history of edits.        *)
(*                                                                         *)
(* CronJobSteps shows what a step makes of the job that takes it; here the *)
(* jobs are related to what they share: the resource and its version, the  *)
(* feature gates, what was created and what the targets are set to.        *)
(***************************************************************************)
EXTENDS CronJobSteps

-----------------------------------------------------------------------------
(* The jobs by themselves.                                                   *)

Typed ==
    /\ now \in Times /\ schedule \in ScheduleSpecs \cup {None}
    /\ obj \in Objects /\ cached \in Objects /\ secret \in Secrets \cup {None}
    /\ gates.enabled \subseteq Features
    /\ jobs \in [Jobs -> JobStates]
    /\ state \in [Targets -> Settings \cup {None}]
    /\ made \subseteq Namespaces \X ObjectNames
    /\ fires \in 0..MaxFires /\ edits \in 0..MaxEdits

JobsInv == \A j \in Jobs : JobInv(jobs[j]) /\ GateInv(jobs[j])

(* A firing that has not happened has left nothing. *)
Unfired == \A k \in Jobs : k > fires => jobs[k] = NoJob

BaseInv == Typed /\ JobsInv /\ Unfired

(* The object that stands for none. *)
LEMMA NoObjectFacts ==
    /\ NoObject \in Objects /\ NoObject.spec = None /\ NoObject.ver = 0
    /\ NoObject.cond \in [Actions -> Reasons]
BY DEF NoObject, Objects, Reasons

(* A job before its start, and one that was never fired: no step of it has   *)
(* left a trace.                                                             *)
Fresh(job) ==
    /\ job \in JobStates /\ job.plan = None /\ job.copy = NoObject /\ job.name = None
    /\ job.done = {} /\ job.failed = {} /\ job.listErr = FALSE
    /\ job.result = None /\ job.sent = FALSE

(* A firing that never happened. *)
LEMMA NoJobFacts == Fresh(NoJob) /\ NoJob.pc = "done" /\ NoJob.at = 0 /\ NoJob.start = 0
<1>1. (CHOOSE a \in Actions : TRUE) \in Actions /\ 0 \in Times
  BY KindAssumption, Bounds DEF Times
<1> QED
  BY <1>1, NoObjectFacts DEF NoJob, JobStates, Fresh

(* Nothing is wrong with a job before it has begun. *)
LEMMA FreshInv ==
    ASSUME NEW job, Fresh(job), job.pc \in {"fired", "done"}, job.at % Minute = 0,
           job.at = IF job.pc = "fired" THEN Truncate(now) ELSE Truncate(job.start)
    PROVE  JobInv(job) /\ GateInv(job)
<1>1. SpecOf(job) = None
  BY NoObjectFacts DEF SpecOf, Fresh
<1>2. JobInv(job)
  BY <1>1, ResultFacts DEF JobInv, Worked, Fresh
<1>3. GateInv(job)
  BY DEF GateInv, Fresh
<1> QED
  BY <1>2, <1>3

(* The task of a job depends on the gates, and they never change. *)
LEMMA JobFrame ==
    ASSUME NEW k \in Jobs, NEW job, jobs'[k] = job, JobInv(job), gates' = gates
    PROVE  JobInv(jobs[k])'
BY DEF JobInv, Task, SpecOf

(* Only a firing whose goroutine has not begun depends on the clock. *)
LEMMA GateFrame ==
    ASSUME NEW k \in Jobs, NEW job, jobs'[k] = job, GateInv(job),
           job.pc = "fired" => Truncate(now') = Truncate(now)
    PROVE  GateInv(jobs[k])'
BY DEF GateInv

-----------------------------------------------------------------------------
(* Every step of a job is one of those of CronJobSteps.                      *)

(* The job that takes a step is changed by it, and no other. *)
LEMMA StepKeeps ==
    ASSUME BaseInv, NEW j \in Jobs, Step(j)
    PROVE  \E new : jobs' = [jobs EXCEPT ![j] = new] /\ Keeps(jobs[j], new)
<1> PICK job : job = jobs[j]
  OBVIOUS
<1> SUFFICES \E new : jobs' = [jobs EXCEPT ![j] = new] /\ Keeps(job, new)
  OBVIOUS
<1>1. /\ job \in JobStates /\ JobInv(job) /\ GateInv(job)
      /\ now \in Times /\ cached \in Objects /\ schedule \in ScheduleSpecs \cup {None}
  BY DEF BaseInv, Typed, JobsInv
<1>2. job.listErr \in BOOLEAN
  BY <1>1 DEF JobStates
<1>3. CASE Start(j)
  BY <1>1, <1>3, StartKeeps DEF Start, Goto
<1>4. CASE Check(j)
  <2> PICK pc : pc = IF Passes(schedule, job.a, Truncate(job.start)) THEN "read" ELSE "done"
    OBVIOUS
  <2>1. /\ job.pc = "check"
        /\ \/ jobs' = [jobs EXCEPT ![j] = [job EXCEPT !.plan = schedule, !.pc = pc]]
           \/ jobs' = [jobs EXCEPT ![j] = [job EXCEPT !.pc = "done"]]
    BY <1>4 DEF Check, Goto
  <2>2. Keeps(job, [job EXCEPT !.plan = schedule, !.pc = pc])
    BY <1>1, <2>1, CheckKeeps
  <2>3. Keeps(job, [job EXCEPT !.plan = job.plan, !.pc = "done"])
    BY <1>1, <2>1, CheckKeeps
  <2>4. [job EXCEPT !.pc = "done"] = [job EXCEPT !.plan = job.plan, !.pc = "done"]
    BY <1>1 DEF JobStates
  <2> QED
    BY <2>1, <2>2, <2>3, <2>4
<1>5. CASE Read(j)
  <2>1. job.pc = "read"
    BY <1>5 DEF Read
  <2> PICK task : task = JobFunction(cached.spec, job.a, gates.enabled)
    OBVIOUS
  <2> PICK name : name = CASE task.pc = "create" -> ExecutionName(job.a, now)
                           [] task.pc = "call" /\ cached.spec.kind = "K8sRunJob" ->
                                 JobName(cached.spec, job.a, Truncate(now))
                           [] OTHER -> None
    OBVIOUS
  <2>2. \/ jobs' = [jobs EXCEPT ![j] =
                      [job EXCEPT !.copy = cached, !.pc = task.pc, !.result = task.result,
                                  !.lists = task.lists, !.todo = task.todo, !.name = name]]
        \/ jobs' = [jobs EXCEPT ![j] = [job EXCEPT !.pc = "send", !.result = "Error"]]
    BY <1>5 DEF Read, Goto
  <2>3. [job EXCEPT !.pc = "send", !.result = "Error"]
            = [job EXCEPT !.pc = "send", !.result = "Error", !.todo = job.todo]
    BY <1>1 DEF JobStates
  <2>4. Keeps(job, [job EXCEPT !.copy = cached, !.pc = task.pc, !.result = task.result,
                               !.lists = task.lists, !.todo = task.todo, !.name = name])
    BY <1>1, <2>1, ReadKeeps
  <2>5. Keeps(job, [job EXCEPT !.pc = "send", !.result = "Error", !.todo = job.todo])
    BY <1>1, <2>1, GiveUpKeeps
  <2> QED
    BY <2>2, <2>3, <2>4, <2>5
<1>6. CASE Configure(j)
  <2>1. /\ job.pc = "configure"
        /\ \/ jobs' = [jobs EXCEPT ![j] = [job EXCEPT !.pc = "call"]]
           \/ jobs' = [jobs EXCEPT ![j] = [job EXCEPT !.pc = "send", !.result = "Error",
                                                     !.todo = {}]]
    BY <1>6 DEF Configure, Goto
  <2>2. Keeps(job, [job EXCEPT !.pc = "call"])
    BY <1>1, <2>1, ConfigureKeeps
  <2>3. Keeps(job, [job EXCEPT !.pc = "send", !.result = "Error", !.todo = {}])
    BY <1>1, <2>1, GiveUpKeeps
  <2> QED
    BY <2>1, <2>2, <2>3
<1>7. CASE CreateExecution(j)
  <2>1. /\ job.pc = "create"
        /\ \/ jobs' = [jobs EXCEPT ![j] = [job EXCEPT !.pc = "status"]]
           \/ jobs' = [jobs EXCEPT ![j] = [job EXCEPT !.pc = "send", !.result = "Error"]]
    BY <1>7 DEF CreateExecution, Goto
  <2>2. [job EXCEPT !.pc = "send", !.result = "Error"]
            = [job EXCEPT !.pc = "send", !.result = "Error", !.todo = job.todo]
    BY <1>1 DEF JobStates
  <2>3. Keeps(job, [job EXCEPT !.pc = "status"])
    BY <1>1, <2>1, ToStatusKeeps
  <2>4. Keeps(job, [job EXCEPT !.pc = "send", !.result = "Error", !.todo = job.todo])
    BY <1>1, <2>1, GiveUpKeeps
  <2> QED
    BY <2>1, <2>2, <2>3, <2>4
<1>8. CASE EndLoop(j)
  BY <1>1, <1>8, ToStatusKeeps DEF EndLoop, Goto
<1>9. CASE UpdateStatus(j)
  <2> PICK result :
         result = IF job.failed = {} /\ job.listErr = FALSE THEN "Success" ELSE "Failure"
    OBVIOUS
  <2>1. job.pc = "status" /\ jobs' = [jobs EXCEPT ![j] = [job EXCEPT !.pc = "send",
                                                                    !.result = result]]
    BY <1>2, <1>9 DEF UpdateStatus, Goto
  <2> QED
    BY <1>1, <2>1, StatusKeeps
<1>10. CASE Send(j)
  BY <1>1, <1>10, SendKeeps DEF Send, Goto
<1>11. ASSUME NEW t \in Targets \cup Namespaces, Call(j, t)
       PROVE  \E new : jobs' = [jobs EXCEPT ![j] = new] /\ Keeps(job, new)
  <2>1. /\ job.pc = "call" /\ t \in job.todo
        /\ \/ jobs' = [jobs EXCEPT ![j] = [job EXCEPT !.done = job.done \cup {t},
                                                     !.todo = job.todo \ {t}]]
           \/ jobs' = [jobs EXCEPT ![j] = [job EXCEPT !.failed = job.failed \cup {t},
                                                     !.todo = job.todo \ {t}]]
    BY <1>11 DEF Call, Goto, NoteError
  <2>2. [job EXCEPT !.done = job.done \cup {t}, !.todo = job.todo \ {t}]
           = [job EXCEPT !.done = job.done \cup {t}, !.failed = job.failed,
                         !.todo = job.todo \ {t}]
    BY <1>1 DEF JobStates
  <2>3. [job EXCEPT !.failed = job.failed \cup {t}, !.todo = job.todo \ {t}]
           = [job EXCEPT !.done = job.done, !.failed = job.failed \cup {t},
                         !.todo = job.todo \ {t}]
    BY <1>1 DEF JobStates
  <2>4. Keeps(job, [job EXCEPT !.done = job.done \cup {t}, !.failed = job.failed,
                               !.todo = job.todo \ {t}])
    BY <1>1, <2>1, CallKeeps
  <2>5. Keeps(job, [job EXCEPT !.done = job.done, !.failed = job.failed \cup {t},
                               !.todo = job.todo \ {t}])
    BY <1>1, <2>1, CallKeeps
  <2> QED
    BY <2>1, <2>2, <2>3, <2>4, <2>5
<1>12. ASSUME NEW n \in Namespaces \cup {NamespaceAll}, List(j, n)
       PROVE  \E new : jobs' = [jobs EXCEPT ![j] = new] /\ Keeps(job, new)
  <2> PICK rest : rest = [job EXCEPT !.lists = job.lists \ {n}]
    OBVIOUS
  <2>1. rest.pc = job.pc /\ rest.todo = job.todo /\ rest.copy = job.copy
    BY <1>1 DEF JobStates
  <2>2. SpecOf(rest) = SpecOf(job)
    BY <2>1 DEF SpecOf
  <2>3. /\ job.pc = "call" /\ job.todo = {} /\ n \in job.lists
        /\ \/ jobs' = [jobs EXCEPT ![j] = [rest EXCEPT !.todo = ListOf(SpecOf(job), n)]]
           \/ jobs' = [jobs EXCEPT ![j] = [rest EXCEPT !.listErr = TRUE]]
    BY <1>12, <2>1, <2>2 DEF List, Goto
  <2> PICK found : found = ListOf(SpecOf(job), n)
    OBVIOUS
  <2>4. [rest EXCEPT !.todo = found]
           = [job EXCEPT !.lists = job.lists \ {n}, !.todo = found, !.listErr = job.listErr]
    BY <1>1 DEF JobStates
  <2>5. [rest EXCEPT !.listErr = TRUE]
           = [job EXCEPT !.lists = job.lists \ {n}, !.todo = {}, !.listErr = TRUE]
    BY <1>1, <2>3 DEF JobStates
  <2>6. Keeps(job, [job EXCEPT !.lists = job.lists \ {n}, !.todo = found,
                               !.listErr = job.listErr])
    BY <1>1, <2>3, ListKeeps
  <2>7. Keeps(job, [job EXCEPT !.lists = job.lists \ {n}, !.todo = {}, !.listErr = TRUE])
    BY <1>1, <2>3, ListKeeps
  <2> QED
    BY <2>3, <2>4, <2>5, <2>6, <2>7
<1> QED
  BY <1>3, <1>4, <1>5, <1>6, <1>7, <1>8, <1>9, <1>10, <1>11, <1>12 DEF Step

-----------------------------------------------------------------------------
(* What a step of a job does to what the jobs share.                         *)

(* int32 of an integer is an integer, and the integer itself if that fits. *)
LEMMA Int32Facts ==
    ASSUME NEW n \in Int
    PROVE  Int32(n) \in Int /\ (-Word <= 2 * n /\ 2 * n < Word => Int32(n) = n)
<1>1. Word \in Nat \ {0}
  BY KindAssumption
<1>2. n % Word \in 0..(Word - 1) /\ n = (Word * (n \div Word)) + (n % Word) /\ n \div Word \in Int
  BY <1>1
<1>3. ASSUME n >= 0, 2 * n < Word
      PROVE  n % Word = n
  BY <1>1, <1>3
<1>4. ASSUME n < 0, -Word <= 2 * n
      PROVE  n % Word = n + Word
  BY <1>1, <1>4
<1> QED
  BY <1>1, <1>2, <1>3, <1>4 DEF Int32

(* What the actions of a kind look like. *)
LEMMA ActionFacts ==
    ASSUME NEW spec \in ResourceSpecs, NEW a \in Actions, spec.actions[a] # None
    PROVE  spec.actions[a] \in ActionOf(spec.kind)
BY SpecFacts

(* A setting is one. *)
LEMMA SettingTyped ==
    ASSUME NEW spec \in ResourceSpecs, NEW a \in Actions, spec.actions[a] # None,
           spec.kind # "K8sRunJob"
    PROVE  Setting(spec, a) \in Settings
<1>1. spec.actions[a] \in ActionOf(spec.kind) /\ spec.kind \in Kinds
  BY ActionFacts, SpecFacts
<1>2. CASE spec.kind = "K8sHpa"
  <2>1. spec.actions[a] \in [minReplicas : Int, maxReplicas : Int]
    BY <1>1, <1>2 DEF ActionOf, K8sHpaAction
  <2>2. Int32(spec.actions[a].minReplicas) \in Int /\ Int32(spec.actions[a].maxReplicas) \in Int
    BY <2>1, Int32Facts
  <2> QED
    BY <1>2, <2>2 DEF Setting, Settings
<1>3. CASE spec.kind = "K8sPodReplicas"
  <2>1. spec.actions[a] \in [replicas : Int]
    BY <1>1, <1>3 DEF ActionOf, K8sPodReplicasAction
  <2>2. Int32(spec.actions[a].replicas) \in Int
    BY <2>1, Int32Facts
  <2> QED
    BY <1>3, <2>2 DEF Setting, Settings
<1>4. CASE spec.kind = "AwsEc2Instance"
  <2>1. (spec.actions[a].command = "start") \in BOOLEAN
        /\ (spec.actions[a].command = "hibernate") \in BOOLEAN
    OBVIOUS
  <2>2. Setting(spec, a) = [start |-> spec.actions[a].command = "start",
                            hibernate |-> spec.actions[a].command = "hibernate"]
    BY <1>4 DEF Setting
  <2> QED
    BY <2>1, <2>2 DEF Settings
<1>5. CASE spec.kind \notin {"K8sHpa", "K8sPodReplicas", "AwsEc2Instance"}
  <2>1. (spec.actions[a].command = "start") \in BOOLEAN
    OBVIOUS
  <2>2. Setting(spec, a) = [start |-> spec.actions[a].command = "start"]
    BY <1>5 DEF Setting
  <2> QED
    BY <2>1, <2>2 DEF Settings
<1> QED
  BY <1>2, <1>3, <1>4, <1>5

(* The targets a spec names are targets; the namespaces are namespaces. *)
LEMMA NamedTyped ==
    ASSUME NEW spec \in ResourceSpecs
    PROVE  /\ spec.kind = "K8sRunJob" => Named(spec) \subseteq Namespaces
           /\ spec.kind # "K8sRunJob" => Named(spec) \subseteq Targets
<1>1. /\ spec.namespaces \subseteq Namespaces /\ spec.ids \subseteq Targets
      /\ OperatorNamespace \in Namespaces /\ DOMAIN TypeOf \subseteq Targets
  BY SpecFacts, KindAssumption
<1>2. spec.kind = "K8sRunJob" => spec.kind \notin AwsJobs
  BY DEF AwsJobs
<1>3. CASE spec.kind \in AwsJobs
  BY <1>1, <1>2, <1>3 DEF Named
<1>4. CASE spec.kind = "K8sRunJob"
  BY <1>1, <1>2, <1>4 DEF Named
<1>5. CASE spec.kind \notin AwsJobs /\ spec.kind # "K8sRunJob"
  BY <1>1, <1>5 DEF Named
<1> QED
  BY <1>3, <1>4, <1>5

(* A target a job is about to call is one its spec names; a job that creates  *)
(* Jobs has a name for them.                                                  *)
LEMMA CallFacts ==
    ASSUME NEW job \in JobStates, JobInv(job), job.pc = "call", NEW t \in job.todo
    PROVE  /\ SpecOf(job) \in ResourceSpecs /\ SpecOf(job).actions[job.a] # None
           /\ job.a \in Actions /\ t \in Named(SpecOf(job))
           /\ SpecOf(job).kind = "K8sRunJob" => job.name # None
<1>1. /\ SpecOf(job) \in ResourceSpecs /\ job.a \in Actions
      /\ Task(job).pc \in {"configure", "call"}
      /\ TaskIs(SpecOf(job), job.a, gates.enabled, Task(job))
      /\ Covers(job, SpecOf(job), Task(job).lists)
      /\ job.name # None <=> Creates(SpecOf(job), Task(job))
  BY LoopFacts
<1>2. SpecOf(job).actions[job.a] # None
  BY <1>1 DEF TaskIs
<1>3. t \in Named(SpecOf(job))
  BY <1>1 DEF Covers
<1>4. SpecOf(job).kind = "K8sRunJob" => job.name # None
  BY <1>1 DEF TaskIs, Creates, AwsJobs
<1> QED
  BY <1>1, <1>2, <1>3, <1>4

(* The execution of a scaling has a name, and belongs where the operator is. *)
LEMMA ExecutionFacts ==
    ASSUME NEW job \in JobStates, JobInv(job), job.pc = "create"
    PROVE  /\ SpecOf(job) \in ResourceSpecs /\ job.name # None
           /\ SpecOf(job).kind # "K8sRunJob" /\ Task(job).pc = "create"
<1>1. SpecOf(job) # None /\ Follows(job, SpecOf(job), Task(job))
  BY DEF JobInv
<1>2. SpecOf(job) \in ResourceSpecs /\ TaskIs(SpecOf(job), job.a, gates.enabled, Task(job))
  BY <1>1, ReadFacts
<1>3. Task(job).pc = "create" /\ job.name # None
  BY <1>1 DEF Follows, Creates
<1>4. SpecOf(job).kind # "K8sRunJob"
  BY <1>2, <1>3 DEF TaskIs, Scales
<1> QED
  BY <1>2, <1>3, <1>4

(* No step of a job touches these. *)
LEMMA StepLeaves ==
    ASSUME NEW j \in Jobs, Step(j)
    PROVE  UNCHANGED <<now, schedule, cached, who, secret, gates, fires, edits>>
BY DEF Step, Start, Check, Read, Configure, CreateExecution, EndLoop, UpdateStatus, Send, Call,
       List, Goto

(* What a job creates, it creates where its spec says, under its own name, if *)
(* no object had that name.                                                   *)
Adds(job, n) ==
    /\ SpecOf(job) \in ResourceSpecs /\ job.name # None
    /\ n \in Namespaces /\ n \in CreatesIn(SpecOf(job))
    /\ <<n, job.name>> \notin made
    /\ made' = made \cup {<<n, job.name>>}

(* So it is at every step of a job. *)
LEMMA MadeStep ==
    ASSUME BaseInv, NEW j \in Jobs, Step(j)
    PROVE  made' = made \/ \E n : Adds(jobs[j], n)
<1>1. jobs[j] \in JobStates /\ JobInv(jobs[j])
  BY DEF BaseInv, Typed, JobsInv
<1>2. CASE CreateExecution(j)
  <2>1. made' = made \/ Create(OperatorNamespace, jobs[j].name)
    BY <1>2 DEF CreateExecution
  <2>2. jobs[j].pc = "create"
    BY <1>2 DEF CreateExecution
  <2>3. /\ SpecOf(jobs[j]) \in ResourceSpecs /\ jobs[j].name # None
        /\ SpecOf(jobs[j]).kind # "K8sRunJob"
    BY <1>1, <2>2, ExecutionFacts
  <2>4. ASSUME Create(OperatorNamespace, jobs[j].name) PROVE Adds(jobs[j], OperatorNamespace)
    BY <2>3, <2>4, KindAssumption DEF Adds, Create, CreatesIn
  <2> QED
    BY <2>1, <2>4
<1>3. ASSUME NEW t \in Targets \cup Namespaces, Call(j, t)
      PROVE  made' = made \/ \E n : Adds(jobs[j], n)
  <2>1. jobs[j].pc = "call" /\ t \in jobs[j].todo /\ (made' = made \/ Takes(jobs[j], t))
    BY <1>3 DEF Call
  <2>2. /\ SpecOf(jobs[j]) \in ResourceSpecs /\ t \in Named(SpecOf(jobs[j]))
        /\ SpecOf(jobs[j]).kind = "K8sRunJob" => jobs[j].name # None
    BY <1>1, <2>1, CallFacts
  <2>3. SpecOf(jobs[j]).kind = "K8sRunJob" => t \in Namespaces
    BY <2>2, NamedTyped
  <2>4. ASSUME Takes(jobs[j], t), made' # made PROVE Adds(jobs[j], t)
    BY <2>2, <2>3, <2>4 DEF Adds, Takes, Create, CreatesIn
  <2> QED
    BY <2>1, <2>4
<1> QED
  BY <1>2, <1>3 DEF Step, Start, Check, Read, Configure, EndLoop, UpdateStatus, Send, List

(* What a job sets, it sets as its action says, and only what its spec names. *)
Sets(job, t) ==
    /\ job.pc = "call" /\ t \in job.todo
    /\ SpecOf(job) \in ResourceSpecs /\ SpecOf(job).kind # "K8sRunJob"
    /\ t \in Named(SpecOf(job)) /\ t \in Targets
    /\ Setting(SpecOf(job), job.a) \in Settings
    /\ state' = [state EXCEPT ![t] = Setting(SpecOf(job), job.a)]

(* So it is at every step of a job. *)
LEMMA StateStep ==
    ASSUME BaseInv, NEW j \in Jobs, Step(j)
    PROVE  state' = state \/ \E t : Sets(jobs[j], t) /\ Call(j, t)
<1>1. jobs[j] \in JobStates /\ JobInv(jobs[j])
  BY DEF BaseInv, Typed, JobsInv
<1>2. ASSUME NEW t \in Targets \cup Namespaces, Call(j, t)
      PROVE  state' = state \/ Sets(jobs[j], t)
  <2>1. jobs[j].pc = "call" /\ t \in jobs[j].todo /\ (state' = state \/ Takes(jobs[j], t))
    BY <1>2 DEF Call
  <2>2. /\ SpecOf(jobs[j]) \in ResourceSpecs /\ t \in Named(SpecOf(jobs[j]))
        /\ jobs[j].a \in Actions /\ SpecOf(jobs[j]).actions[jobs[j].a] # None
    BY <1>1, <2>1, CallFacts
  <2>3. SpecOf(jobs[j]).kind # "K8sRunJob" =>
            t \in Targets /\ Setting(SpecOf(jobs[j]), jobs[j].a) \in Settings
    BY <2>2, NamedTyped, SettingTyped
  <2> QED
    BY <2>1, <2>2, <2>3 DEF Sets, Takes
<1> QED
  BY <1>2 DEF Step, Start, Check, Read, Configure, CreateExecution, EndLoop, UpdateStatus, Send,
              List

(* Only the update of the status writes the resource, and it goes through     *)
(* only if the resource is the one that was read.                             *)
LEMMA ObjStep ==
    ASSUME BaseInv, NEW j \in Jobs, Step(j), obj' # obj
    PROVE  /\ UpdateStatus(j) /\ ~Stale(jobs[j])
           /\ obj' \in Objects /\ obj'.spec = obj.spec /\ obj'.ver = obj.ver + 1
           /\ \A a \in Actions \ {jobs[j].a} : obj'.cond[a] = jobs[j].copy.cond[a]
<1>1. UpdateStatus(j)
  BY DEF Step, Start, Check, Read, Configure, CreateExecution, EndLoop, Send, Call, List
<1>2. jobs[j] \in JobStates /\ obj \in Objects
  BY DEF BaseInv, Typed
<1>3. jobs[j].copy.cond \in [Actions -> Reasons] /\ jobs[j].a \in Actions /\ obj.ver \in Nat
      /\ obj.spec \in ResourceSpecs \cup {None}
  BY <1>2 DEF JobStates, Objects
<1> PICK why : why = IF jobs[j].failed = {} /\ ~jobs[j].listErr THEN "Active" ELSE "Failed"
  OBVIOUS
<1> PICK cond : cond = [jobs[j].copy.cond EXCEPT ![jobs[j].a] = why]
  OBVIOUS
<1>4. cond \in [Actions -> Reasons]
      /\ \A a \in Actions \ {jobs[j].a} : cond[a] = jobs[j].copy.cond[a]
  BY <1>3 DEF Reasons
<1>5. ~Stale(jobs[j]) /\ obj' = [obj EXCEPT !.cond = cond, !.ver = obj.ver + 1]
  BY <1>1 DEF UpdateStatus
<1>6. obj' \in Objects /\ obj'.spec = obj.spec /\ obj'.ver = obj.ver + 1 /\ obj'.cond = cond
  <2>1. PICK next : next = obj.ver + 1 /\ next \in Nat
    BY <1>3
  <2>2. obj' = [obj EXCEPT !.cond = cond, !.ver = next]
    BY <1>5, <2>1
  <2> QED
    BY <1>2, <1>3, <1>4, <2>1, <2>2 DEF Objects
<1> QED
  BY <1>1, <1>4, <1>5, <1>6

-----------------------------------------------------------------------------
(* The invariant of the jobs by themselves.                                  *)

(* The operator starts in one of its worlds. *)
LEMMA BaseInit == Init => BaseInv
<1> SUFFICES ASSUME Init PROVE BaseInv
  OBVIOUS
<1>1. PICK w \in Worlds :
         /\ Starts(GateText(w.cli, w.env))
         /\ gates = [cli |-> w.cli, env |-> w.env, enabled |-> NewRegistry(GateText(w.cli, w.env))]
         /\ obj = [NoObject EXCEPT !.spec = w.spec]
         /\ secret = w.secret
  BY DEF Init
<1>2. /\ now = 0 /\ schedule \in ScheduleSpecs /\ cached = obj
      /\ jobs = [j \in Jobs |-> NoJob] /\ state = [t \in Targets |-> None]
      /\ made = {} /\ fires = 0 /\ edits = 0
  BY DEF Init
<1>3. obj \in Objects
  BY <1>1, NoObjectFacts DEF Objects, ResourceSpecs
<1>4. gates.enabled \subseteq Features
  BY <1>1 DEF Starts, NewRegistry
<1>5. NoJob \in JobStates /\ JobInv(NoJob) /\ GateInv(NoJob)
  <2>1. NoJob.pc = "done" /\ NoJob.at = 0 /\ NoJob.start = 0 /\ Fresh(NoJob)
    BY NoJobFacts
  <2>2. Truncate(0) = 0 /\ 0 % Minute = 0
    BY Bounds DEF Truncate
  <2>3. JobInv(NoJob) /\ GateInv(NoJob)
    BY <2>1, <2>2, FreshInv
  <2> QED
    BY <2>1, <2>3 DEF Fresh
<1>6. Typed
  BY <1>1, <1>2, <1>3, <1>4, <1>5, Bounds DEF Typed, Times, Secrets
<1>7. JobsInv /\ Unfired
  BY <1>2, <1>5 DEF JobsInv, Unfired
<1> QED
  BY <1>6, <1>7 DEF BaseInv

(* A step that leaves the jobs alone, and the minute of those not yet begun. *)
LEMMA JobsFrame ==
    ASSUME BaseInv, UNCHANGED <<jobs, gates, fires>>,
           \A j \in Jobs : jobs[j].pc = "fired" => Truncate(now') = Truncate(now)
    PROVE  JobsInv' /\ Unfired'
<1>1. ASSUME NEW k \in Jobs PROVE JobInv(jobs[k])' /\ GateInv(jobs[k])'
  <2>1. PICK job : job = jobs[k]
    OBVIOUS
  <2>2. JobInv(job) /\ GateInv(job)
    BY <2>1 DEF BaseInv, JobsInv
  <2>3. JobInv(jobs[k])'
    BY <2>1, <2>2, JobFrame
  <2>4. GateInv(jobs[k])'
    BY <2>1, <2>2, GateFrame
  <2> QED
    BY <2>3, <2>4
<1>2. JobsInv'
  BY <1>1 DEF JobsInv
<1>3. Unfired'
  BY DEF BaseInv, Unfired
<1> QED
  BY <1>2, <1>3

(* What an edit does: the schedule, the resource, the Secret are others now. *)
Edited ==
    /\ schedule' \in ScheduleSpecs \cup {None} /\ obj' \in Objects
    /\ secret' \in Secrets \cup {None} /\ edits' \in 0..MaxEdits
    /\ obj' = obj \/ obj'.ver = obj.ver + 1
    /\ obj'.spec = None \/ obj'.spec = obj.spec \/ obj'.spec.kind = who[1]
    /\ UNCHANGED <<now, cached, who, gates, jobs, state, made, fires>>

(* Every edit of a user, and every status a reconcile writes, is one. *)
LEMMA EditStep ==
    ASSUME BaseInv,
           WriteSchedule \/ WriteResource \/ DeleteResource \/ WriteSecret \/ ReconcileStatus
    PROVE  Edited
<1>1. /\ schedule \in ScheduleSpecs \cup {None} /\ obj \in Objects
      /\ secret \in Secrets \cup {None} /\ edits \in 0..MaxEdits
      /\ obj.ver \in Nat /\ obj.spec \in ResourceSpecs \cup {None}
      /\ obj.cond \in [Actions -> Reasons]
  BY DEF BaseInv, Typed, Objects
<1>2. PICK next : next = obj.ver + 1 /\ next \in Nat
  BY <1>1
<1>3. ASSUME NEW s \in ScheduleSpecs \cup {None}, NEW o \in Objects, NEW d \in Secrets \cup {None},
             Edit(s, o, d), o = obj \/ o.ver = next,
             o.spec = None \/ o.spec = obj.spec \/ o.spec.kind = who[1]
      PROVE  Edited
  <2>1. edits + 1 \in 0..MaxEdits
    BY <1>1, <1>3, Bounds DEF Edit
  <2> QED
    BY <1>2, <1>3, <2>1 DEF Edit, Edited
<1>4. CASE WriteSchedule
  BY <1>1, <1>3, <1>4 DEF WriteSchedule
<1>5. CASE WriteResource
  <2>1. PICK spec \in ResourceSpecs :
           /\ <<spec.kind, spec.longName>> = who
           /\ Edit(schedule, [obj EXCEPT !.spec = spec, !.ver = next], secret)
    BY <1>2, <1>5 DEF WriteResource
  <2>2. PICK o : o = [obj EXCEPT !.spec = spec, !.ver = next]
    OBVIOUS
  <2>3. o \in Objects /\ o.ver = next /\ o.spec = spec
    BY <1>1, <1>2, <2>2 DEF Objects
  <2>4. spec.kind = who[1]
    BY <2>1
  <2> QED
    BY <1>1, <1>3, <2>1, <2>2, <2>3, <2>4
<1>6. CASE DeleteResource
  <2>1. PICK o : o = [NoObject EXCEPT !.ver = next]
    OBVIOUS
  <2>2. o \in Objects /\ o.ver = next /\ o.spec = None
    BY <1>2, <2>1, NoObjectFacts DEF Objects
  <2>3. Edit(schedule, o, secret)
    BY <1>2, <1>6, <2>1 DEF DeleteResource
  <2> QED
    BY <1>1, <1>3, <2>2, <2>3
<1>7. CASE WriteSecret
  BY <1>1, <1>3, <1>7 DEF WriteSecret
<1>8. CASE ReconcileStatus
  <2>1. PICK a \in Actions, why \in {"none", "Active", "Disabled"} :
           Edit(schedule, [obj EXCEPT !.cond[a] = why, !.ver = next], secret)
    BY <1>2, <1>8 DEF ReconcileStatus
  <2>2. PICK cond : cond = [obj.cond EXCEPT ![a] = why]
    OBVIOUS
  <2>3. cond \in [Actions -> Reasons]
    BY <1>1, <2>2 DEF Reasons
  <2>4. PICK o : o = [obj EXCEPT !.cond = cond, !.ver = next]
    OBVIOUS
  <2>5. o \in Objects /\ o.ver = next /\ o.spec = obj.spec
    BY <1>1, <1>2, <2>3, <2>4 DEF Objects
  <2>6. Edit(schedule, o, secret)
    BY <1>1, <2>1, <2>2, <2>4
  <2> QED
    BY <1>1, <1>3, <2>5, <2>6
<1> QED
  BY <1>4, <1>5, <1>6, <1>7, <1>8

(* Every step is one of these. *)
LEMMA NextCases ==
    ASSUME BaseInv, [Next]_vars
    PROVE  \/ UNCHANGED vars \/ Tick \/ CacheSync \/ Edited
           \/ \E a \in Actions : Fire(a)
           \/ \E j \in Jobs : Step(j)
BY EditStep DEF Next, Environment

(* A step of a job keeps the types. *)
LEMMA StepTyped ==
    ASSUME BaseInv, NEW j \in Jobs, Step(j)
    PROVE  Typed'
<1>1. Typed /\ UNCHANGED <<now, schedule, cached, who, secret, gates, fires, edits>>
  BY StepLeaves DEF BaseInv
<1>2. obj' \in Objects
  BY <1>1, ObjStep DEF Typed
<1>3. jobs' \in [Jobs -> JobStates]
  <2>1. PICK new : jobs' = [jobs EXCEPT ![j] = new] /\ Keeps(jobs[j], new)
    BY StepKeeps
  <2>2. new \in JobStates
    BY <2>1 DEF Keeps
  <2> QED
    BY <1>1, <2>1, <2>2 DEF Typed
<1>4. made' \subseteq Namespaces \X ObjectNames
  <2>1. jobs[j].name \in ObjectNames \cup {None} /\ made \subseteq Namespaces \X ObjectNames
    BY <1>1 DEF Typed, JobStates
  <2>2. ASSUME NEW n, Adds(jobs[j], n) PROVE made' \subseteq Namespaces \X ObjectNames
    BY <2>1, <2>2 DEF Adds
  <2> QED
    BY <2>1, <2>2, MadeStep
<1>5. state' \in [Targets -> Settings \cup {None}]
  <2>1. state \in [Targets -> Settings \cup {None}]
    BY <1>1 DEF Typed
  <2>2. ASSUME NEW t, Sets(jobs[j], t) PROVE state' \in [Targets -> Settings \cup {None}]
    BY <2>1, <2>2 DEF Sets
  <2> QED
    BY <2>1, <2>2, StateStep
<1> QED
  BY <1>1, <1>2, <1>3, <1>4, <1>5 DEF Typed

(* No step breaks it. *)
LEMMA BaseStep == BaseInv /\ [Next]_vars => BaseInv'
<1> SUFFICES ASSUME BaseInv, [Next]_vars PROVE BaseInv'
  OBVIOUS
<1>1. Typed /\ JobsInv /\ Unfired
  BY DEF BaseInv
<1>2. CASE UNCHANGED vars
  <2>1. Typed'
    BY <1>1, <1>2 DEF Typed, vars
  <2>2. JobsInv' /\ Unfired'
    BY <1>2, JobsFrame DEF vars
  <2> QED
    BY <2>1, <2>2 DEF BaseInv
<1>3. CASE Tick
  <2>1. now \in Nat /\ now + 1 \in Times
    BY <1>1, <1>3, Bounds DEF Typed, Times, Tick
  <2>2. Typed'
    BY <1>1, <1>3, <2>1 DEF Typed, Tick
  <2>3. ASSUME NEW j \in Jobs, jobs[j].pc = "fired" PROVE Truncate(now') = Truncate(now)
    <3>1. (now + 1) % Minute # 0 /\ now' = now + 1
      BY <1>3, <2>3 DEF Tick
    <3> QED
      BY <2>1, <3>1, TruncateNext
  <2>4. JobsInv' /\ Unfired'
    BY <1>3, <2>3, JobsFrame DEF Tick
  <2> QED
    BY <2>2, <2>4 DEF BaseInv
<1>4. CASE CacheSync
  <2>1. Typed'
    BY <1>1, <1>4 DEF Typed, CacheSync
  <2>2. JobsInv' /\ Unfired'
    BY <1>4, JobsFrame DEF CacheSync
  <2> QED
    BY <2>1, <2>2 DEF BaseInv
<1>5. CASE Edited
  <2>1. Typed'
    BY <1>1, <1>5 DEF Typed, Edited
  <2>2. JobsInv' /\ Unfired'
    BY <1>5, JobsFrame DEF Edited
  <2> QED
    BY <2>1, <2>2 DEF BaseInv
<1>6. ASSUME NEW a \in Actions, Fire(a) PROVE BaseInv'
  <2>1. PICK new : new = [NoJob EXCEPT !.pc = "fired", !.a = a, !.at = now]
    OBVIOUS
  <2>2. /\ jobs' = [jobs EXCEPT ![fires + 1] = new] /\ fires' = fires + 1 /\ fires < MaxFires
        /\ now % Minute = 0
        /\ UNCHANGED <<now, schedule, obj, cached, who, secret, gates, state, made, edits>>
    BY <1>6, <2>1 DEF Fire
  <2>3. /\ now \in Times /\ now \in Nat /\ fires \in Nat /\ fires + 1 \in Jobs
        /\ fires + 1 \in 0..MaxFires /\ jobs \in [Jobs -> JobStates]
    BY <1>1, <2>2, Bounds DEF Typed, Times, Jobs
  <2>4. Fresh(new) /\ new.pc = "fired" /\ new.at = now
    BY <2>1, <2>3, NoJobFacts DEF JobStates, Fresh
  <2>5. Truncate(now) = now
    BY <2>2, <2>3, TruncateWhole
  <2>6. JobInv(new) /\ GateInv(new) /\ new \in JobStates
    BY <2>2, <2>4, <2>5, FreshInv DEF Fresh
  <2>7. Typed'
    BY <1>1, <2>2, <2>3, <2>6 DEF Typed
  <2>8. ASSUME NEW k \in Jobs PROVE JobInv(jobs[k])' /\ GateInv(jobs[k])'
    <3>1. PICK job : job = jobs'[k]
      OBVIOUS
    <3>2. job = new \/ job = jobs[k]
      BY <2>2, <2>3, <3>1
    <3>3. JobInv(job) /\ GateInv(job)
      BY <1>1, <2>6, <3>2 DEF JobsInv
    <3>4. JobInv(jobs[k])'
      BY <2>2, <3>1, <3>3, JobFrame
    <3>5. GateInv(jobs[k])'
      BY <2>2, <3>1, <3>3, GateFrame
    <3> QED
      BY <3>4, <3>5
  <2>9. JobsInv'
    BY <2>8 DEF JobsInv
  <2>10. Unfired'
    BY <1>1, <2>2, <2>3 DEF Unfired, Jobs
  <2> QED
    BY <2>7, <2>9, <2>10 DEF BaseInv
<1>7. ASSUME NEW j \in Jobs, Step(j) PROVE BaseInv'
  <2>1. Typed'
    BY <1>7, StepTyped
  <2>2. UNCHANGED <<now, gates, fires>>
    BY <1>7, StepLeaves
  <2>3. PICK new : jobs' = [jobs EXCEPT ![j] = new] /\ Keeps(jobs[j], new)
    BY <1>7, StepKeeps
  <2>4. JobInv(new) /\ GateInv(new) /\ new \in JobStates /\ jobs \in [Jobs -> JobStates]
    BY <1>1, <2>3 DEF Keeps, Typed
  <2>5. ASSUME NEW k \in Jobs PROVE JobInv(jobs[k])' /\ GateInv(jobs[k])'
    <3>1. PICK job : job = jobs'[k]
      OBVIOUS
    <3>2. job = new \/ job = jobs[k]
      BY <2>3, <2>4, <3>1
    <3>3. JobInv(job) /\ GateInv(job)
      BY <1>1, <2>4, <3>2 DEF JobsInv
    <3>4. JobInv(jobs[k])'
      BY <2>2, <3>1, <3>3, JobFrame
    <3>5. GateInv(jobs[k])'
      BY <2>2, <3>1, <3>3, GateFrame
    <3> QED
      BY <3>4, <3>5
  <2>6. JobsInv'
    BY <2>5 DEF JobsInv
  <2>7. j <= fires
    <3>1. jobs[j].pc # "done"
      <4>1. ASSUME NEW t, Call(j, t) PROVE jobs[j].pc # "done"
        BY <4>1 DEF Call
      <4>2. ASSUME NEW n, List(j, n) PROVE jobs[j].pc # "done"
        <5>1. [jobs[j] EXCEPT !.lists = @ \ {n}].pc = jobs[j].pc
          BY <1>1 DEF Typed, JobStates
        <5> QED
          BY <4>2, <5>1 DEF List
      <4> QED
        BY <1>7, <4>1, <4>2 DEF Step, Start, Check, Read, Configure, CreateExecution, EndLoop,
                                UpdateStatus, Send
    <3> QED
      BY <1>1, <3>1, NoJobFacts, Bounds DEF Unfired, Jobs, Typed
  <2>8. Unfired'
    BY <1>1, <2>2, <2>3, <2>4, <2>7, Bounds DEF Unfired, Jobs, Typed
  <2> QED
    BY <2>1, <2>6, <2>8 DEF BaseInv
<1> QED
  BY <1>2, <1>3, <1>4, <1>5, <1>6, <1>7, NextCases

(* Every job follows, to its report, the task it made of what it read. *)
THEOREM BaseAlways == JobSpec => []BaseInv
<1>1. Init => BaseInv
  BY BaseInit
<1>2. BaseInv /\ [Next]_vars => BaseInv'
  BY BaseStep
<1> QED
  BY <1>1, <1>2, PTL DEF JobSpec

(* The state stays in its types, and no target is counted both as done and   *)
(* as failed: an error of a loop goes on with the next target.               *)
THEOREM JobTypeCorrect == JobSpec => []TypeOK
<1>1. BaseInv => TypeOK
  <2> SUFFICES ASSUME BaseInv PROVE TypeOK
    OBVIOUS
  <2>1. Typed /\ JobsInv
    BY DEF BaseInv
  <2>2. ASSUME NEW j \in Jobs PROVE jobs[j].done \cap jobs[j].failed = {}
    <3>1. PICK job : job = jobs[j]
      OBVIOUS
    <3>2. JobInv(job)
      BY <2>1, <3>1 DEF JobsInv
    <3>3. CASE ~Worked(job)
      BY <3>1, <3>2, <3>3 DEF JobInv
    <3>4. CASE Worked(job)
      <4>1. Follows(job, SpecOf(job), Task(job))
        BY <3>2, <3>4 DEF JobInv
      <4>2. CASE Task(job).pc = "create"
        BY <3>1, <3>4, <4>1, <4>2 DEF Follows
      <4>3. CASE Task(job).pc # "create"
        <5>1. Covers(job, SpecOf(job), Task(job).lists)
          BY <3>4, <4>1, <4>3 DEF Follows
        <5> QED
          BY <3>1, <5>1 DEF Covers
      <4> QED
        BY <4>2, <4>3
    <3> QED
      BY <3>3, <3>4
  <2>3. \A m \in made : m[1] \in Namespaces
    BY <2>1 DEF Typed
  <2> QED
    BY <2>1, <2>2, <2>3 DEF Typed, TypeOK
<1> QED
  BY <1>1, BaseAlways, PTL

-----------------------------------------------------------------------------
(* The period gate.                                                          *)

(* No period of a schedule ends before it starts: a schedule with one that    *)
(* does is reported as not ready, InvalidPeriod (schedule_controller.go).     *)
PeriodsEnd ==
    \A s \in ScheduleSpecs : \A p \in s.activePeriods \cup s.inactivePeriods : p.start <= p.end

(* At a whole minute, the loop over periods finds what lies in one of them. *)
LEMMA PeriodFacts ==
    ASSUME NEW ps \in SUBSET TimePeriod, \A p \in ps : p.start <= p.end,
           NEW a \in Actions, NEW t \in Times, t % Minute = 0
    PROVE  SomePeriod(ps, a, t) <=> t \in MinutesIn(ps, a)
<1>1. ASSUME NEW p \in ps PROVE p.start \in Int /\ p.end \in Int /\ p.start <= p.end
  BY <1>1, Bounds DEF TimePeriod, Times
<1>2. t \in Int
  BY Bounds DEF Times
<1>3. ASSUME NEW p \in ps PROVE InPeriod(p, t) <=> t \in p.start..p.end
  BY <1>1, <1>2 DEF InPeriod
<1> QED
  BY <1>3 DEF SomePeriod, MinutesIn

(* The checks pass in the minutes that are due. *)
LEMMA PassesFacts ==
    ASSUME PeriodsEnd, NEW s \in ScheduleSpecs, NEW a \in Actions,
           NEW t \in Times, t % Minute = 0
    PROVE  Passes(s, a, t) <=> s.active /\ a \in s.actions /\ t \in Due(s, a)
<1>1. /\ s.activePeriods \in SUBSET TimePeriod /\ s.inactivePeriods \in SUBSET TimePeriod
      /\ s # None
  BY JobAssumption DEF ScheduleSpec
<1>2. SomePeriod(s.activePeriods, a, t) <=> t \in MinutesIn(s.activePeriods, a)
  BY <1>1, PeriodFacts DEF PeriodsEnd
<1>3. SomePeriod(s.inactivePeriods, a, t) <=> t \in MinutesIn(s.inactivePeriods, a)
  BY <1>1, PeriodFacts DEF PeriodsEnd
<1> QED
  BY <1>1, <1>2, <1>3 DEF Passes, Due

(* Whether a firing runs is decided by the minute it was fired for, however  *)
(* late in it the goroutine begins, and wherever in a minute a period ends.  *)
THEOREM DueMinutesOnly ==
    ASSUME PeriodsEnd
    PROVE  JobSpec => []RunsInDueMinutes
<1>1. BaseInv => RunsInDueMinutes
  <2> SUFFICES ASSUME BaseInv, NEW j \in Jobs, jobs[j].plan # None
               PROVE  (jobs[j].pc # "done" \/ jobs[j].sent)
                        <=> /\ jobs[j].plan.active /\ jobs[j].a \in jobs[j].plan.actions
                            /\ jobs[j].at \in Due(jobs[j].plan, jobs[j].a)
    BY DEF RunsInDueMinutes
  <2>1. jobs[j] \in JobStates /\ GateInv(jobs[j])
    BY DEF BaseInv, Typed, JobsInv
  <2>2. jobs[j].plan \in ScheduleSpecs /\ jobs[j].a \in Actions /\ jobs[j].at \in Times
    BY <2>1 DEF JobStates
  <2>3. jobs[j].sent \in BOOLEAN
    BY <2>1 DEF JobStates
  <2>4. jobs[j].sent <=> jobs[j].sent = TRUE
    BY <2>3
  <2>5. jobs[j].at % Minute = 0
        /\ (jobs[j].pc # "done" \/ jobs[j].sent = TRUE
               <=> Passes(jobs[j].plan, jobs[j].a, jobs[j].at))
    BY <2>1 DEF GateInv
  <2> QED
    BY <2>2, <2>4, <2>5, PassesFacts
<1> QED
  BY <1>1, BaseAlways, PTL

-----------------------------------------------------------------------------
(* What any step does to a job, to the resource and to its copies.           *)

(* A firing takes a place that is free. *)
LEMMA FireStep ==
    ASSUME BaseInv, NEW a \in Actions, Fire(a)
    PROVE  /\ \E new : Fresh(new) /\ jobs' = [jobs EXCEPT ![fires + 1] = new]
           /\ fires + 1 \in Jobs /\ jobs[fires + 1] = NoJob
           /\ UNCHANGED <<now, schedule, obj, cached, who, secret, gates, state, made, edits>>
<1>1. Typed /\ Unfired
  BY DEF BaseInv
<1>2. PICK new : new = [NoJob EXCEPT !.pc = "fired", !.a = a, !.at = now]
  OBVIOUS
<1>3. Fresh(new)
  BY <1>1, <1>2, NoJobFacts DEF JobStates, Fresh, Typed
<1>4. fires + 1 \in Jobs /\ jobs[fires + 1] = NoJob
  BY <1>1, Bounds DEF Typed, Unfired, Jobs, Fire
<1> QED
  BY <1>2, <1>3, <1>4 DEF Fire

(* Once a job has read its resource, what it read, its action and its name   *)
(* stay; what is done or failed stays done or failed.                        *)
Evolves(old, new) ==
    /\ SpecOf(old) # None => /\ SpecOf(new) = SpecOf(old) /\ new.name = old.name
                             /\ new.a = old.a
    /\ \/ new.copy = old.copy
       \/ new.copy = cached
       \/ new.copy = NoObject
    /\ old.done \subseteq new.done /\ old.failed \subseteq new.failed

(* So it is at every step. *)
LEMMA JobEvolves ==
    ASSUME BaseInv, [Next]_vars, NEW k \in Jobs
    PROVE  Evolves(jobs[k], jobs'[k])
<1>1. jobs \in [Jobs -> JobStates]
  BY DEF BaseInv, Typed
<1>2. CASE UNCHANGED jobs
  BY <1>2 DEF Evolves
<1>3. ASSUME NEW a \in Actions, Fire(a) PROVE Evolves(jobs[k], jobs'[k])
  <2>1. PICK new : Fresh(new) /\ jobs' = [jobs EXCEPT ![fires + 1] = new]
    BY <1>3, FireStep
  <2>2. fires + 1 \in Jobs /\ jobs[fires + 1] = NoJob
    BY <1>3, FireStep
  <2>3. SpecOf(NoJob) = None /\ NoJob.done = {} /\ NoJob.failed = {}
    BY NoJobFacts, NoObjectFacts DEF Fresh, SpecOf
  <2>4. CASE k = fires + 1
    <3>1. jobs'[k] = new /\ jobs[k] = NoJob
      BY <1>1, <2>1, <2>2, <2>4
    <3> QED
      BY <2>1, <2>3, <3>1 DEF Evolves, Fresh
  <2>5. CASE k # fires + 1
    <3>1. jobs'[k] = jobs[k]
      BY <1>1, <2>1, <2>5
    <3> QED
      BY <3>1 DEF Evolves
  <2> QED
    BY <2>4, <2>5
<1>4. ASSUME NEW j \in Jobs, Step(j) PROVE Evolves(jobs[k], jobs'[k])
  <2>1. PICK new : jobs' = [jobs EXCEPT ![j] = new] /\ Keeps(jobs[j], new)
    BY <1>4, StepKeeps
  <2>2. CASE k = j
    <3>1. jobs'[k] = new /\ Moves(jobs[k], new)
      BY <1>1, <2>1, <2>2 DEF Keeps
    <3> QED
      BY <3>1 DEF Evolves, Moves, SpecOf
  <2>3. CASE k # j
    <3>1. jobs'[k] = jobs[k]
      BY <1>1, <2>1, <2>3
    <3> QED
      BY <3>1 DEF Evolves
  <2> QED
    BY <2>2, <2>3
<1> QED
  BY <1>2, <1>3, <1>4, NextCases DEF vars, Tick, CacheSync, Edited

(* Every write of the resource makes a new version of it; it stays of its    *)
(* kind, and the gates stay as they were at the start.                       *)
LEMMA ResourceEvolves ==
    ASSUME BaseInv, [Next]_vars
    PROVE  /\ who' = who /\ gates' = gates
           /\ obj' = obj \/ obj'.ver = obj.ver + 1
           /\ obj'.spec = None \/ obj'.spec = obj.spec \/ obj'.spec.kind = who[1]
           /\ cached' \in {cached, obj}
<1>1. ASSUME NEW a \in Actions, Fire(a) PROVE UNCHANGED <<obj, cached, who, gates>>
  BY <1>1, FireStep
<1>2. ASSUME NEW j \in Jobs, Step(j)
      PROVE  /\ UNCHANGED <<cached, who, gates>>
             /\ obj' = obj \/ (obj'.ver = obj.ver + 1 /\ obj'.spec = obj.spec)
  BY <1>2, StepLeaves, ObjStep
<1>3. CASE Edited
  BY <1>3 DEF Edited
<1>4. CASE UNCHANGED vars \/ Tick \/ CacheSync
  BY <1>4 DEF vars, Tick, CacheSync
<1> QED
  BY <1>1, <1>2, <1>3, <1>4, NextCases

-----------------------------------------------------------------------------
(* The status.                                                               *)

(* A copy of the resource is older, or says of the conditions what it says. *)
UpToDate(x) == x.ver <= obj.ver /\ (x.ver = obj.ver => x.cond = obj.cond)

VersionInv ==
    /\ UpToDate(NoObject) /\ UpToDate(cached)
    /\ \A j \in Jobs : UpToDate(jobs[j].copy)

(* At the start there is one version. *)
LEMMA VersionInit == Init => VersionInv
<1> SUFFICES ASSUME Init PROVE VersionInv
  OBVIOUS
<1>1. obj.cond = NoObject.cond /\ obj.ver = NoObject.ver /\ cached = obj
  BY NoObjectFacts DEF Init, Objects
<1>2. ASSUME NEW j \in Jobs PROVE jobs[j].copy = NoObject
  BY NoJobFacts DEF Init, Fresh
<1> QED
  BY <1>1, <1>2, NoObjectFacts DEF VersionInv, UpToDate

(* Writes make copies older, reads take the version there is. *)
LEMMA VersionStep == BaseInv /\ VersionInv /\ [Next]_vars => VersionInv'
<1> SUFFICES ASSUME BaseInv, VersionInv, [Next]_vars PROVE VersionInv'
  OBVIOUS
<1>1. obj \in Objects /\ obj.ver \in Nat
  BY DEF BaseInv, Typed, Objects
<1>2. obj' = obj \/ obj'.ver = obj.ver + 1
  BY ResourceEvolves
<1>3. ASSUME NEW x \in Objects, UpToDate(x)
      PROVE  x.ver <= obj'.ver /\ (x.ver = obj'.ver => x.cond = obj'.cond)
  <2>1. x.ver \in Nat
    BY <1>3 DEF Objects
  <2> QED
    BY <1>1, <1>2, <1>3, <2>1 DEF UpToDate
<1>4. UpToDate(NoObject)'
  BY <1>3, NoObjectFacts DEF VersionInv, UpToDate, NoObject
<1>5. UpToDate(cached)'
  <2>1. cached' \in {cached, obj} /\ cached \in Objects
    BY ResourceEvolves DEF BaseInv, Typed
  <2>2. UpToDate(obj) /\ UpToDate(cached)
    BY <1>1 DEF UpToDate, VersionInv
  <2> QED
    BY <1>1, <1>3, <2>1, <2>2 DEF UpToDate
<1>6. ASSUME NEW j \in Jobs PROVE UpToDate(jobs[j].copy)'
  <2>1. jobs'[j].copy \in {jobs[j].copy, cached, NoObject}
    BY JobEvolves DEF Evolves
  <2>2. jobs[j].copy \in Objects /\ cached \in Objects /\ NoObject \in Objects
    BY NoObjectFacts DEF BaseInv, Typed, JobStates
  <2>3. UpToDate(jobs[j].copy) /\ UpToDate(cached) /\ UpToDate(NoObject)
    BY DEF VersionInv
  <2>4. /\ jobs'[j].copy.ver <= obj'.ver
        /\ jobs'[j].copy.ver = obj'.ver => jobs'[j].copy.cond = obj'.cond
    BY <1>3, <2>1, <2>2, <2>3
  <2> QED
    BY <2>4 DEF UpToDate
<1> QED
  BY <1>4, <1>5, <1>6 DEF VersionInv

(* A job writes back the whole status it read at its start, and yet undoes   *)
(* nothing that was written since: of the conditions only its own changes.   *)
THEOREM OwnConditionOnly == JobSpec => OnlyOwnCondition
<1>1. JobSpec => [](BaseInv /\ VersionInv)
  <2>1. Init => BaseInv /\ VersionInv
    BY BaseInit, VersionInit
  <2>2. BaseInv /\ VersionInv /\ [Next]_vars => (BaseInv /\ VersionInv)'
    BY BaseStep, VersionStep
  <2> QED
    BY <2>1, <2>2, PTL DEF JobSpec
<1>2. BaseInv /\ VersionInv /\ [Next]_vars =>
         [\A j \in Jobs : jobs[j].pc = "status" /\ jobs'[j].pc = "send" =>
             \A a \in Actions \ {jobs[j].a} : obj'.cond[a] = obj.cond[a]]_vars
  <2> SUFFICES ASSUME BaseInv, VersionInv, [Next]_vars, vars' # vars, obj' # obj,
                      NEW j \in Jobs, jobs[j].pc = "status", jobs'[j].pc = "send",
                      NEW a \in Actions \ {jobs[j].a}
               PROVE  obj'.cond[a] = obj.cond[a]
    OBVIOUS
  <2>1. jobs \in [Jobs -> JobStates]
    BY DEF BaseInv, Typed
  <2>2. ASSUME NEW k \in Jobs, Step(k) PROVE obj'.cond[a] = obj.cond[a]
    <3>1. PICK new : jobs' = [jobs EXCEPT ![k] = new]
      BY <2>2, StepKeeps
    <3>2. k = j
      <4>1. k # j => jobs'[j] = jobs[j]
        BY <2>1, <3>1
      <4> QED
        BY <4>1
    <3>3. ~Stale(jobs[j]) /\ obj'.cond[a] = jobs[j].copy.cond[a]
      BY <2>2, <3>2, ObjStep
    <3>4. jobs[j].copy.cond = obj.cond
      BY <3>3 DEF VersionInv, UpToDate, Stale
    <3> QED
      BY <3>3, <3>4
  <2>3. ASSUME NEW b \in Actions, Fire(b) PROVE obj' = obj
    BY <2>3, FireStep
  <2>4. Tick \/ CacheSync \/ Edited => jobs' = jobs
    BY DEF Tick, CacheSync, Edited
  <2> QED
    BY <2>2, <2>3, <2>4, NextCases
<1> QED
  BY <1>1, <1>2, PTL DEF JobSpec, OnlyOwnCondition

-----------------------------------------------------------------------------
(* What is touched, and what is created.                                     *)

(* Whatever has a setting is named by a spec some firing read. *)
SetInv ==
    \A t \in Targets : state[t] # None =>
        \E j \in Jobs : SpecOf(jobs[j]) # None /\ t \in Named(SpecOf(jobs[j]))

(* Whatever was created has the name of a firing whose spec puts it there. *)
MadeInv ==
    \A m \in made :
        \E j \in Jobs : /\ SpecOf(jobs[j]) # None /\ jobs[j].name = m[2]
                        /\ m[1] \in CreatesIn(SpecOf(jobs[j]))

(* At the start nothing is set and nothing has been created. *)
LEMMA TouchedInit == Init => SetInv /\ MadeInv
BY DEF Init, SetInv, MadeInv

(* What a step sets is named by the spec of the job that takes the step. *)
LEMMA SetStep == BaseInv /\ SetInv /\ [Next]_vars => SetInv'
<1> SUFFICES ASSUME BaseInv, SetInv, [Next]_vars, NEW t \in Targets, state'[t] # None
             PROVE  \E j \in Jobs : SpecOf(jobs'[j]) # None /\ t \in Named(SpecOf(jobs'[j]))
  BY DEF SetInv, SpecOf
<1>1. PICK j \in Jobs : SpecOf(jobs[j]) # None /\ t \in Named(SpecOf(jobs[j]))
  <2>1. CASE state' = state
    BY <2>1 DEF SetInv
  <2>2. ASSUME NEW k \in Jobs, NEW u, Sets(jobs[k], u)
        PROVE  \E j \in Jobs : SpecOf(jobs[j]) # None /\ t \in Named(SpecOf(jobs[j]))
    <3>1. state \in [Targets -> Settings \cup {None}]
      BY DEF BaseInv, Typed
    <3>2. SpecOf(jobs[k]) # None /\ u \in Named(SpecOf(jobs[k]))
      BY <2>2, SpecFacts DEF Sets
    <3>3. CASE t = u
      BY <3>2, <3>3
    <3>4. CASE t # u
      <4>1. state'[t] = state[t]
        BY <2>2, <3>1, <3>4 DEF Sets
      <4> QED
        BY <4>1 DEF SetInv
    <3> QED
      BY <3>3, <3>4
  <2>3. ASSUME NEW k \in Jobs, Step(k), state' # state PROVE \E u : Sets(jobs[k], u)
    BY <2>3, StateStep
  <2>4. ASSUME NEW a \in Actions, Fire(a) PROVE state' = state
    BY <2>4, FireStep
  <2>5. UNCHANGED vars \/ Tick \/ CacheSync \/ Edited => state' = state
    BY DEF vars, Tick, CacheSync, Edited
  <2> QED
    BY <2>1, <2>2, <2>3, <2>4, <2>5, NextCases
<1>2. SpecOf(jobs'[j]) = SpecOf(jobs[j])
  BY <1>1, JobEvolves DEF Evolves
<1> QED
  BY <1>1, <1>2

(* What a step creates belongs to the job that takes the step. *)
LEMMA MadeKept == BaseInv /\ MadeInv /\ [Next]_vars => MadeInv'
<1> SUFFICES ASSUME BaseInv, MadeInv, [Next]_vars, NEW m \in made'
             PROVE  \E j \in Jobs : /\ SpecOf(jobs'[j]) # None /\ jobs'[j].name = m[2]
                                    /\ m[1] \in CreatesIn(SpecOf(jobs'[j]))
  BY DEF MadeInv, SpecOf
<1>1. PICK j \in Jobs : /\ SpecOf(jobs[j]) # None /\ jobs[j].name = m[2]
                        /\ m[1] \in CreatesIn(SpecOf(jobs[j]))
  <2>1. CASE m \in made
    BY <2>1 DEF MadeInv
  <2>2. ASSUME NEW k \in Jobs, Step(k), m \notin made
        PROVE  \E j \in Jobs : /\ SpecOf(jobs[j]) # None /\ jobs[j].name = m[2]
                               /\ m[1] \in CreatesIn(SpecOf(jobs[j]))
    <3>1. PICK n : Adds(jobs[k], n)
      BY <2>2, MadeStep
    <3>2. m = <<n, jobs[k].name>>
      BY <2>2, <3>1 DEF Adds
    <3> QED
      BY <3>1, <3>2, SpecFacts DEF Adds
  <2>3. ASSUME NEW a \in Actions, Fire(a) PROVE made' = made
    BY <2>3, FireStep
  <2>4. UNCHANGED vars \/ Tick \/ CacheSync \/ Edited => made' = made
    BY DEF vars, Tick, CacheSync, Edited
  <2> QED
    BY <2>1, <2>2, <2>3, <2>4, NextCases
<1>2. SpecOf(jobs'[j]) = SpecOf(jobs[j]) /\ jobs'[j].name = jobs[j].name
  BY <1>1, JobEvolves DEF Evolves
<1> QED
  BY <1>1, <1>2

(* Both hold at all times. *)
LEMMA TouchedAlways == JobSpec => [](BaseInv /\ SetInv /\ MadeInv)
<1>1. Init => BaseInv /\ SetInv /\ MadeInv
  BY BaseInit, TouchedInit
<1>2. BaseInv /\ SetInv /\ MadeInv /\ [Next]_vars => (BaseInv /\ SetInv /\ MadeInv)'
  BY BaseStep, SetStep, MadeKept
<1> QED
  BY <1>1, <1>2, PTL DEF JobSpec

(* A target is changed, an object is created, only if a spec some firing     *)
(* read names it: never all namespaces for an empty selector.                *)
THEOREM NamedOnly == JobSpec => []TouchesOnlyWhatIsNamed
<1>1. SetInv /\ MadeInv => TouchesOnlyWhatIsNamed
  BY DEF SetInv, MadeInv, TouchesOnlyWhatIsNamed
<1> QED
  BY <1>1, TouchedAlways, PTL

-----------------------------------------------------------------------------
(* The feature gates.                                                        *)

(* What is enabled is what the flag names, or the environment without one. *)
GatesInv == \A f \in Features : f \in gates.enabled <=> FeatureOn(f)

(* The resource, and every copy of it, is of one kind. *)
OfKind(spec) == spec = None \/ spec.kind = who[1]
KindInv == /\ OfKind(obj.spec) /\ OfKind(cached.spec)
           /\ \A j \in Jobs : OfKind(SpecOf(jobs[j]))

(* The registry is what the text says. *)
LEMMA GatesInit == Init => GatesInv
<1> SUFFICES ASSUME Init PROVE GatesInv
  OBVIOUS
<1>1. PICK w \in Worlds :
         /\ Starts(GateText(w.cli, w.env))
         /\ gates = [cli |-> w.cli, env |-> w.env, enabled |-> NewRegistry(GateText(w.cli, w.env))]
  BY DEF Init
<1>2. w.cli \in Seq(STRING) /\ w.env \in Seq(STRING)
  BY JobAssumption
<1>3. PICK text : text = GateText(w.cli, w.env)
  OBVIOUS
<1>4. text \in Seq(STRING) /\ text = IF Len(w.cli) > 0 THEN w.cli ELSE w.env
  BY <1>2, <1>3 DEF GateText
<1>5. gates.cli = w.cli /\ gates.env = w.env /\ gates.enabled = NewRegistry(text)
  BY <1>1, <1>3
<1>6. ASSUME NEW f \in Features
      PROVE  f \in NewRegistry(text) <=> \E i \in 1..Len(text) : text[i] \in {f, "ALL"}
  <2>1. DOMAIN text = 1..Len(text)
    BY <1>4
  <2>2. CASE text = <<"ALL">>
    <3>1. Len(text) = 1 /\ text[1] = "ALL"
      BY <2>2
    <3> QED
      BY <2>2, <3>1 DEF NewRegistry
  <2>3. CASE text # <<"ALL">>
    <3>1. Words(text) \subseteq Features /\ NewRegistry(text) = Words(text)
      BY <1>1, <1>3, <2>3 DEF Starts, NewRegistry
    <3>2. "ALL" \notin Features /\ f # "blank"
      BY DEF Features
    <3> QED
      BY <2>1, <3>1, <3>2 DEF Words
  <2> QED
    BY <2>2, <2>3
<1> QED
  BY <1>4, <1>5, <1>6 DEF GatesInv, FeatureOn

(* The resource is of its own kind. *)
LEMMA KindInit == Init => KindInv
<1> SUFFICES ASSUME Init PROVE KindInv
  OBVIOUS
<1>1. PICK w \in Worlds : /\ obj = [NoObject EXCEPT !.spec = w.spec]
                          /\ who = <<w.spec.kind, w.spec.longName>>
  BY DEF Init
<1>2. obj.spec = w.spec /\ cached = obj
  BY <1>1, NoObjectFacts DEF Objects, Init
<1>3. ASSUME NEW j \in Jobs PROVE SpecOf(jobs[j]) = None
  BY NoJobFacts, NoObjectFacts DEF Init, Fresh, SpecOf
<1> QED
  BY <1>1, <1>2, <1>3 DEF KindInv, OfKind

(* Neither ever changes. *)
LEMMA KindStep == BaseInv /\ GatesInv /\ KindInv /\ [Next]_vars => GatesInv' /\ KindInv'
<1> SUFFICES ASSUME BaseInv, GatesInv, KindInv, [Next]_vars PROVE GatesInv' /\ KindInv'
  OBVIOUS
<1>1. /\ who' = who /\ gates' = gates
      /\ obj'.spec = None \/ obj'.spec = obj.spec \/ obj'.spec.kind = who[1]
      /\ cached' \in {cached, obj}
  BY ResourceEvolves
<1>2. GatesInv'
  BY <1>1 DEF GatesInv, FeatureOn
<1>3. ASSUME NEW j \in Jobs PROVE OfKind(SpecOf(jobs[j]))'
  <2>1. jobs'[j].copy \in {jobs[j].copy, cached, NoObject}
    BY JobEvolves DEF Evolves
  <2> QED
    BY <1>1, <2>1, NoObjectFacts DEF KindInv, OfKind, SpecOf
<1>4. OfKind(obj.spec)' /\ OfKind(cached.spec)'
  BY <1>1 DEF KindInv, OfKind
<1> QED
  BY <1>2, <1>3, <1>4 DEF KindInv

(* A scaling is skipped when the feature of its own kind is off, and only    *)
(* then, and without it no ActionExecution exists: the flag takes precedence *)
(* over the environment.                                                     *)
THEOREM GateFollowed == JobSpec => []ScaleFollowsItsGate
<1>1. JobSpec => [](BaseInv /\ MadeInv /\ GatesInv /\ KindInv)
  <2>1. Init => BaseInv /\ MadeInv /\ GatesInv /\ KindInv
    BY BaseInit, TouchedInit, GatesInit, KindInit
  <2>2. BaseInv /\ MadeInv /\ GatesInv /\ KindInv /\ [Next]_vars
           => (BaseInv /\ MadeInv /\ GatesInv /\ KindInv)'
    BY BaseStep, MadeKept, KindStep
  <2> QED
    BY <2>1, <2>2, PTL DEF JobSpec
<1>2. BaseInv /\ MadeInv /\ GatesInv /\ KindInv => ScaleFollowsItsGate
  <2> SUFFICES ASSUME BaseInv, MadeInv, GatesInv, KindInv,
                      NEW j \in Jobs, SpecOf(jobs[j]) # None
               PROVE  /\ jobs[j].result = "Skipped" <=>
                            /\ Scales(SpecOf(jobs[j]), jobs[j].a)
                            /\ ~FeatureOn(FeatureOf(SpecOf(jobs[j]).kind))
                      /\ Scales(SpecOf(jobs[j]), jobs[j].a) /\ made # {} =>
                            FeatureOn(FeatureOf(SpecOf(jobs[j]).kind))
    BY DEF ScaleFollowsItsGate, Scales
  <2>1. ASSUME NEW k \in Jobs, SpecOf(jobs[k]) # None
        PROVE  /\ Follows(jobs[k], SpecOf(jobs[k]), Task(jobs[k]))
               /\ TaskIs(SpecOf(jobs[k]), jobs[k].a, gates.enabled, Task(jobs[k]))
               /\ SpecOf(jobs[k]).kind = who[1]
    <3>1. jobs[k] \in JobStates /\ JobInv(jobs[k])
      BY DEF BaseInv, Typed, JobsInv
    <3> QED
      BY <2>1, <3>1, ReadFacts DEF JobInv, KindInv, OfKind
  <2>2. ASSUME NEW kind PROVE FeatureOf(kind) \in gates.enabled <=> FeatureOn(FeatureOf(kind))
    BY DEF GatesInv, FeatureOf, Features
  <2>3. jobs[j].result = "Skipped" <=> /\ Scales(SpecOf(jobs[j]), jobs[j].a)
                                       /\ ~FeatureOn(FeatureOf(SpecOf(jobs[j]).kind))
    BY <2>1, <2>2 DEF Follows, TaskIs
  <2>4. ASSUME Scales(SpecOf(jobs[j]), jobs[j].a), made # {}
        PROVE  FeatureOn(FeatureOf(SpecOf(jobs[j]).kind))
    <3>1. PICK m \in made : TRUE
      BY <2>4
    <3>2. PICK k \in Jobs : SpecOf(jobs[k]) # None /\ jobs[k].name = m[2]
      BY DEF MadeInv
    <3>3. jobs[k].name # None
      BY <3>2, JobAssumption DEF BaseInv, Typed
    <3>4. SpecOf(jobs[k]).kind = SpecOf(jobs[j]).kind
      BY <2>1, <3>2
    <3>5. Task(jobs[k]).pc = "create"
      BY <2>1, <2>4, <3>2, <3>3, <3>4 DEF Follows, Creates, Scales
    <3> QED
      BY <2>1, <2>2, <3>2, <3>4, <3>5 DEF TaskIs
  <2> QED
    BY <2>3, <2>4
<1> QED
  BY <1>1, <1>2, PTL

-----------------------------------------------------------------------------
(* What a report rests on: the calls that were made.                         *)

(* A job that has anything done has read its resource. *)
LEMMA DoneFacts ==
    ASSUME NEW job \in JobStates, JobInv(job), NEW t \in job.done
    PROVE  /\ SpecOf(job) # None /\ Worked(job) /\ t \in Named(SpecOf(job)) /\ t \notin job.todo
           /\ Follows(job, SpecOf(job), Task(job)) /\ Task(job).pc # "create"
<1>1. Worked(job) /\ SpecOf(job) # None /\ Follows(job, SpecOf(job), Task(job))
  BY DEF JobInv
<1>2. Task(job).pc # "create"
  BY <1>1 DEF Follows
<1>3. Covers(job, SpecOf(job), Task(job).lists)
  BY <1>1, <1>2 DEF Follows
<1> QED
  BY <1>1, <1>2, <1>3 DEF Covers

(* A target gets done by a call that took. *)
LEMMA DoneStep ==
    ASSUME BaseInv, NEW j \in Jobs, Step(j), NEW t \in jobs'[j].done, t \notin jobs[j].done
    PROVE  Call(j, t) /\ Takes(jobs[j], t)
<1>1. jobs \in [Jobs -> JobStates] /\ jobs[j] \in JobStates
  BY DEF BaseInv, Typed
<1> PICK job : job = jobs[j]
  OBVIOUS
<1>2. ASSUME NEW new, jobs' = [jobs EXCEPT ![j] = new], new.done = job.done PROVE FALSE
  BY <1>1, <1>2
<1>3. ~Start(j)
  <2>1. [job EXCEPT !.pc = "check", !.start = now].done = job.done
    BY <1>1 DEF JobStates
  <2> QED
    BY <1>2, <2>1 DEF Start, Goto
<1>4. ~Check(j)
  <2>1. /\ \A pc : [job EXCEPT !.plan = schedule, !.pc = pc].done = job.done
        /\ [job EXCEPT !.pc = "done"].done = job.done
    BY <1>1 DEF JobStates
  <2> QED
    BY <1>2, <2>1 DEF Check, Goto
<1>5. ~Read(j)
  <2> SUFFICES ASSUME Read(j) PROVE FALSE
    OBVIOUS
  <2> PICK task : task = JobFunction(cached.spec, job.a, gates.enabled)
    OBVIOUS
  <2>1. PICK name, new : /\ jobs' = [jobs EXCEPT ![j] = new]
                         /\ \/ new = [job EXCEPT !.copy = cached, !.pc = task.pc,
                                         !.result = task.result, !.lists = task.lists,
                                         !.todo = task.todo, !.name = name]
                            \/ new = [job EXCEPT !.pc = "send", !.result = "Error"]
    BY DEF Read, Goto
  <2>2. new.done = job.done
    BY <1>1, <2>1 DEF JobStates
  <2> QED
    BY <1>2, <2>1, <2>2
<1>6. ~Configure(j)
  <2>1. /\ [job EXCEPT !.pc = "call"].done = job.done
        /\ [job EXCEPT !.pc = "send", !.result = "Error", !.todo = {}].done = job.done
    BY <1>1 DEF JobStates
  <2> QED
    BY <1>2, <2>1 DEF Configure, Goto
<1>7. ~CreateExecution(j) /\ ~EndLoop(j)
  <2>1. /\ [job EXCEPT !.pc = "status"].done = job.done
        /\ [job EXCEPT !.pc = "send", !.result = "Error"].done = job.done
    BY <1>1 DEF JobStates
  <2> QED
    BY <1>2, <2>1 DEF CreateExecution, EndLoop, Goto
<1>8. ~UpdateStatus(j)
  <2>1. \A result : [job EXCEPT !.pc = "send", !.result = result].done = job.done
    BY <1>1 DEF JobStates
  <2> QED
    BY <1>2, <2>1 DEF UpdateStatus, Goto
<1>9. ~Send(j)
  <2>1. [job EXCEPT !.pc = "done", !.sent = TRUE].done = job.done
    BY <1>1 DEF JobStates
  <2> QED
    BY <1>2, <2>1 DEF Send, Goto
<1>10. ASSUME NEW n, List(j, n) PROVE FALSE
  <2> PICK rest : rest = [job EXCEPT !.lists = job.lists \ {n}]
    OBVIOUS
  <2>1. /\ \A todo : [rest EXCEPT !.todo = todo].done = job.done
        /\ [rest EXCEPT !.listErr = TRUE].done = job.done
    BY <1>1 DEF JobStates
  <2> QED
    BY <1>2, <1>10, <2>1 DEF List, Goto
<1>11. ASSUME NEW u, Call(j, u) PROVE u = t /\ Takes(job, u)
  <2>1. [job EXCEPT !.failed = job.failed \cup {u}, !.todo = job.todo \ {u}].done = job.done
    BY <1>1 DEF JobStates
  <2>2. /\ Takes(job, u)
        /\ jobs' = [jobs EXCEPT ![j] = [job EXCEPT !.done = job.done \cup {u},
                                                  !.todo = job.todo \ {u}]]
    BY <1>2, <1>11, <2>1 DEF Call, NoteError, Goto
  <2>3. jobs'[j].done = job.done \cup {u}
    BY <1>1, <2>2 DEF JobStates
  <2> QED
    BY <2>2, <2>3
<1>12. PICK u : Call(j, u)
  BY <1>3, <1>4, <1>5, <1>6, <1>7, <1>8, <1>9, <1>10 DEF Step
<1> QED
  BY <1>11, <1>12

(* A call leaves its target done or failed. *)
LEMMA CallMarks ==
    ASSUME BaseInv, NEW j \in Jobs, NEW t, Call(j, t)
    PROVE  t \in jobs'[j].done \cup jobs'[j].failed
<1>1. jobs \in [Jobs -> JobStates] /\ jobs[j] \in JobStates
  BY DEF BaseInv, Typed
<1> PICK job : job = jobs[j]
  OBVIOUS
<1>2. \/ jobs' = [jobs EXCEPT ![j] = [job EXCEPT !.done = job.done \cup {t},
                                                !.todo = job.todo \ {t}]]
      \/ jobs' = [jobs EXCEPT ![j] = [job EXCEPT !.failed = job.failed \cup {t},
                                                !.todo = job.todo \ {t}]]
  BY DEF Call, NoteError, Goto
<1>3. /\ [job EXCEPT !.done = job.done \cup {t}, !.todo = job.todo \ {t}].done = job.done \cup {t}
      /\ [job EXCEPT !.failed = job.failed \cup {t}, !.todo = job.todo \ {t}].failed
            = job.failed \cup {t}
  BY <1>1 DEF JobStates
<1>4. jobs'[j].done = job.done \cup {t} \/ jobs'[j].failed = job.failed \cup {t}
  BY <1>1, <1>2, <1>3
<1> QED
  BY <1>4

(* A target that a job has done, and no other job has called, is as that job  *)
(* set it.                                                                    *)
SettingInv ==
    \A j \in Jobs : SpecOf(jobs[j]) # None /\ SpecOf(jobs[j]).kind # "K8sRunJob" =>
        \A t \in jobs[j].done :
            (\A k \in Jobs \ {j} : t \notin jobs[k].done \cup jobs[k].failed)
                => state[t] = Setting(SpecOf(jobs[j]), jobs[j].a)

(* At the start nothing is done. *)
LEMMA SettingInit == Init => SettingInv
<1> SUFFICES ASSUME Init, NEW j \in Jobs PROVE jobs[j].done = {}
  BY DEF SettingInv
<1> QED
  BY NoJobFacts DEF Init, Fresh

(* A step of a job that marks no target of another leaves its settings. *)
LEMMA SettingStep == BaseInv /\ SettingInv /\ [Next]_vars => SettingInv'
<1> SUFFICES ASSUME BaseInv, SettingInv, [Next]_vars,
                    NEW j \in Jobs, SpecOf(jobs'[j]) # None, SpecOf(jobs'[j]).kind # "K8sRunJob",
                    NEW t \in jobs'[j].done,
                    \A k \in Jobs \ {j} : t \notin jobs'[k].done \cup jobs'[k].failed
             PROVE  state'[t] = Setting(SpecOf(jobs'[j]), jobs'[j].a)
  BY DEF SettingInv, SpecOf
<1>1. jobs[j] \in JobStates /\ JobInv(jobs[j]) /\ state \in [Targets -> Settings \cup {None}]
      /\ jobs \in [Jobs -> JobStates]
  BY DEF BaseInv, Typed, JobsInv
<1>2. \A k \in Jobs \ {j} : t \notin jobs[k].done \cup jobs[k].failed
  BY JobEvolves DEF Evolves
<1>3. CASE t \in jobs[j].done
  <2>1. SpecOf(jobs[j]) # None /\ t \notin jobs[j].todo
    BY <1>1, <1>3, DoneFacts
  <2>2. SpecOf(jobs'[j]) = SpecOf(jobs[j]) /\ jobs'[j].a = jobs[j].a
    BY <2>1, JobEvolves DEF Evolves
  <2>3. state[t] = Setting(SpecOf(jobs[j]), jobs[j].a)
    BY <1>2, <1>3, <2>1, <2>2 DEF SettingInv
  <2>4. state'[t] = state[t]
    <3>1. ASSUME NEW k \in Jobs, Step(k), state' # state PROVE state'[t] = state[t]
      <4>1. PICK u : Sets(jobs[k], u) /\ Call(k, u)
        BY <3>1, StateStep
      <4>2. u \in jobs[k].todo /\ u \in Targets
            /\ state' = [state EXCEPT ![u] = Setting(SpecOf(jobs[k]), jobs[k].a)]
        BY <4>1 DEF Sets
      <4>3. u \in jobs'[k].done \cup jobs'[k].failed
        BY <4>1, CallMarks
      <4>4. u # t
        BY <2>1, <4>2, <4>3
      <4> QED
        BY <1>1, <4>2, <4>4
    <3>2. ASSUME NEW a \in Actions, Fire(a) PROVE state' = state
      BY <3>2, FireStep
    <3>3. UNCHANGED vars \/ Tick \/ CacheSync \/ Edited => state' = state
      BY DEF vars, Tick, CacheSync, Edited
    <3> QED
      BY <3>1, <3>2, <3>3, NextCases
  <2> QED
    BY <2>2, <2>3, <2>4
<1>4. CASE t \notin jobs[j].done
  <2>1. Step(j)
    <3>1. ASSUME NEW k \in Jobs, Step(k) PROVE k = j
      <4>1. PICK new : jobs' = [jobs EXCEPT ![k] = new]
        BY <3>1, StepKeeps
      <4> QED
        BY <1>1, <1>4, <4>1
    <3>2. ASSUME NEW a \in Actions, Fire(a) PROVE FALSE
      <4>1. PICK new : Fresh(new) /\ jobs' = [jobs EXCEPT ![fires + 1] = new]
        BY <3>2, FireStep
      <4>2. new.done = {}
        BY <4>1 DEF Fresh
      <4> QED
        BY <1>1, <1>4, <4>1, <4>2
    <3>3. UNCHANGED vars \/ Tick \/ CacheSync \/ Edited => jobs' = jobs
      BY DEF vars, Tick, CacheSync, Edited
    <3> QED
      BY <1>4, <3>1, <3>2, <3>3, NextCases
  <2>2. Call(j, t) /\ Takes(jobs[j], t)
    BY <1>4, <2>1, DoneStep
  <2>3. jobs[j].pc = "call" /\ t \in jobs[j].todo
    BY <2>2 DEF Call
  <2>4. SpecOf(jobs[j]) \in ResourceSpecs /\ t \in Named(SpecOf(jobs[j]))
    BY <1>1, <2>3, CallFacts
  <2>5. SpecOf(jobs'[j]) = SpecOf(jobs[j]) /\ jobs'[j].a = jobs[j].a
    BY <2>4, SpecFacts, JobEvolves DEF Evolves
  <2>6. t \in Targets
    BY <2>4, <2>5, NamedTyped
  <2>7. state' = [state EXCEPT ![t] = Setting(SpecOf(jobs[j]), jobs[j].a)]
    BY <2>2, <2>5 DEF Takes
  <2> QED
    BY <1>1, <2>5, <2>6, <2>7
<1> QED
  BY <1>3, <1>4

-----------------------------------------------------------------------------
(* What a report rests on: the objects that were created.                    *)

(* The object of its name in this namespace is this job's own: its Create     *)
(* took, and the answer said so.                                              *)
Owns(job, n) ==
    /\ SpecOf(job) # None /\ job.name # None
    /\ IF SpecOf(job).kind = "K8sRunJob" THEN n \in job.done
       ELSE n = OperatorNamespace /\ (job.pc = "status" \/ job.result = "Success")

OwnInv ==
    \A j \in Jobs, n \in Namespaces : Owns(jobs[j], n) =>
        /\ <<n, jobs[j].name>> \in made
        /\ \A k \in Jobs \ {j} : Owns(jobs[k], n) => jobs[k].name # jobs[j].name

(* Only an update, after a loop or a Create, comes to a success. *)
LEMMA StatusStep ==
    ASSUME BaseInv, NEW j \in Jobs, Step(j),
           jobs'[j].pc = "status" \/ jobs'[j].result = "Success"
    PROVE  \/ jobs[j].pc \in {"status", "call"} \/ jobs[j].result = "Success"
           \/ jobs[j].pc = "create" /\ Create(OperatorNamespace, jobs[j].name)
<1>1. jobs \in [Jobs -> JobStates] /\ jobs[j] \in JobStates
  BY DEF BaseInv, Typed
<1> PICK job : job = jobs[j]
  OBVIOUS
<1>2. ASSUME NEW new, jobs' = [jobs EXCEPT ![j] = new]
      PROVE  new.pc = "status" \/ new.result = "Success"
  BY <1>1, <1>2
<1>3. CASE Start(j)
  <2>1. PICK new : new = [job EXCEPT !.pc = "check", !.start = now]
    OBVIOUS
  <2>2. new.pc = "check" /\ new.result = job.result
    BY <1>1, <2>1 DEF JobStates
  <2> QED
    BY <1>2, <1>3, <2>1, <2>2 DEF Start, Goto
<1>4. CASE Check(j)
  <2>1. PICK pc, new : /\ pc \in {"read", "done"} /\ jobs' = [jobs EXCEPT ![j] = new]
                       /\ \/ new = [job EXCEPT !.plan = schedule, !.pc = pc]
                          \/ new = [job EXCEPT !.pc = pc]
    BY <1>4 DEF Check, Goto
  <2>2. new.pc = pc /\ new.result = job.result
    BY <1>1, <2>1 DEF JobStates
  <2> QED
    BY <1>2, <2>1, <2>2
<1>5. CASE Read(j)
  <2> PICK task : task = JobFunction(cached.spec, job.a, gates.enabled)
    OBVIOUS
  <2>1. task.pc # "status" /\ task.result # "Success"
    <3>1. cached.spec \in ResourceSpecs \cup {None} /\ job.a \in Actions
      BY <1>1 DEF BaseInv, Typed, Objects, JobStates
    <3>2. CASE cached.spec = None
      BY <3>2, NoTask DEF Ends
    <3>3. CASE cached.spec \in ResourceSpecs
      <4>1. TaskIs(cached.spec, job.a, gates.enabled, task)
        BY <3>1, <3>3, TaskFacts
      <4> QED
        BY <4>1, ResultFacts DEF TaskIs
    <3> QED
      BY <3>1, <3>2, <3>3
  <2>2. PICK name, new : /\ jobs' = [jobs EXCEPT ![j] = new]
                         /\ \/ new = [job EXCEPT !.copy = cached, !.pc = task.pc,
                                         !.result = task.result, !.lists = task.lists,
                                         !.todo = task.todo, !.name = name]
                            \/ new = [job EXCEPT !.pc = "send", !.result = "Error"]
    BY <1>5 DEF Read, Goto
  <2>3. new.pc \in {task.pc, "send"} /\ new.result \in {task.result, "Error"}
    BY <1>1, <2>2 DEF JobStates
  <2> QED
    BY <1>2, <2>1, <2>2, <2>3
<1>6. CASE Configure(j)
  <2>1. PICK new : /\ jobs' = [jobs EXCEPT ![j] = new]
                   /\ \/ new = [job EXCEPT !.pc = "call"]
                      \/ new = [job EXCEPT !.pc = "send", !.result = "Error", !.todo = {}]
    BY <1>6 DEF Configure, Goto
  <2>2. new.pc \in {"call", "send"} /\ new.result \in {job.result, "Error"}
    BY <1>1, <2>1 DEF JobStates
  <2> QED
    BY <1>2, <2>1, <2>2
<1>7. CASE CreateExecution(j)
  <2>1. PICK new : [job EXCEPT !.pc = "send", !.result = "Error"] = new
    OBVIOUS
  <2>2. new.pc = "send" /\ new.result = "Error"
    BY <1>1, <2>1 DEF JobStates
  <2> QED
    BY <1>2, <1>7, <2>1, <2>2 DEF CreateExecution, Goto
<1>8. CASE Send(j)
  <2>1. PICK new : new = [job EXCEPT !.pc = "done", !.sent = TRUE]
    OBVIOUS
  <2>2. new.pc = "done" /\ new.result = job.result
    BY <1>1, <2>1 DEF JobStates
  <2> QED
    BY <1>2, <1>8, <2>1, <2>2 DEF Send, Goto
<1>9. CASE EndLoop(j) \/ UpdateStatus(j) \/ \E t : Call(j, t)
  BY <1>9 DEF EndLoop, UpdateStatus, Call
<1>10. ASSUME NEW n, List(j, n) PROVE job.pc = "call"
  <2>1. [job EXCEPT !.lists = job.lists \ {n}].pc = job.pc
    BY <1>1 DEF JobStates
  <2> QED
    BY <1>10, <2>1 DEF List
<1> QED
  BY <1>3, <1>4, <1>5, <1>6, <1>7, <1>8, <1>9, <1>10 DEF Step

(* A job gets to own an object only by a Create that took. *)
LEMMA OwnStep ==
    ASSUME BaseInv, NEW j \in Jobs, Step(j), NEW n, Owns(jobs'[j], n)
    PROVE  \/ Owns(jobs[j], n)
           \/ <<n, jobs'[j].name>> \notin made /\ made' = made \cup {<<n, jobs'[j].name>>}
<1>1. jobs[j] \in JobStates /\ JobInv(jobs[j])
  BY DEF BaseInv, Typed, JobsInv
<1>2. SpecOf(jobs[j]) # None =>
         SpecOf(jobs'[j]) = SpecOf(jobs[j]) /\ jobs'[j].name = jobs[j].name
  BY JobEvolves DEF Evolves, Next
<1>3. CASE SpecOf(jobs'[j]).kind = "K8sRunJob"
  <2>1. n \in jobs'[j].done
    BY <1>3 DEF Owns
  <2>2. CASE n \in jobs[j].done
    <3>1. SpecOf(jobs[j]) # None
      BY <1>1, <2>2, DoneFacts
    <3> QED
      BY <1>2, <1>3, <2>2, <3>1 DEF Owns
  <2>3. CASE n \notin jobs[j].done
    <3>1. Call(j, n) /\ Takes(jobs[j], n)
      BY <2>1, <2>3, DoneStep
    <3>2. jobs[j].pc = "call" /\ n \in jobs[j].todo
      BY <3>1 DEF Call
    <3>3. SpecOf(jobs[j]) \in ResourceSpecs
      BY <1>1, <3>2, CallFacts
    <3>4. SpecOf(jobs[j]) # None
      BY <3>3, SpecFacts
    <3> QED
      BY <1>2, <1>3, <3>1, <3>4 DEF Takes, Create
  <2> QED
    BY <2>2, <2>3
<1>4. CASE SpecOf(jobs'[j]).kind # "K8sRunJob"
  <2>1. n = OperatorNamespace /\ (jobs'[j].pc = "status" \/ jobs'[j].result = "Success")
    BY <1>4 DEF Owns
  <2>2. CASE jobs[j].pc = "status" \/ jobs[j].result = "Success"
    <3>1. SpecOf(jobs[j]) # None
      BY <1>1, <2>2 DEF JobInv, Worked
    <3> QED
      BY <1>2, <1>4, <2>1, <2>2, <3>1 DEF Owns
  <2>3. CASE jobs[j].pc = "call"
    <3>1. /\ SpecOf(jobs[j]) \in ResourceSpecs
          /\ jobs[j].name # None <=> Creates(SpecOf(jobs[j]), Task(jobs[j]))
          /\ Task(jobs[j]).pc \in {"configure", "call"}
      BY <1>1, <2>3, LoopFacts
    <3>2. SpecOf(jobs[j]) # None
      BY <3>1, SpecFacts
    <3> QED
      BY <1>2, <1>4, <3>1, <3>2 DEF Owns, Creates
  <2>4. CASE jobs[j].pc = "create" /\ Create(OperatorNamespace, jobs[j].name)
    <3>1. SpecOf(jobs[j]) # None
      BY <1>1, <2>4 DEF JobInv
    <3> QED
      BY <1>2, <2>1, <2>4, <3>1 DEF Create
  <2> QED
    BY <2>1, <2>2, <2>3, <2>4, StatusStep
<1> QED
  BY <1>3, <1>4

(* At the start no job owns anything. *)
LEMMA OwnInit == Init => OwnInv
<1> SUFFICES ASSUME Init, NEW j \in Jobs PROVE SpecOf(jobs[j]) = None
  BY DEF OwnInv, Owns
<1> QED
  BY NoJobFacts, NoObjectFacts DEF Init, Fresh, SpecOf

(* A name that is new in a namespace is no other job's there. *)
LEMMA OwnKept == BaseInv /\ OwnInv /\ [Next]_vars => OwnInv'
<1> SUFFICES ASSUME BaseInv, OwnInv, [Next]_vars,
                    NEW j \in Jobs, NEW n \in Namespaces, Owns(jobs'[j], n)
             PROVE  /\ <<n, jobs'[j].name>> \in made'
                    /\ \A k \in Jobs \ {j} : Owns(jobs'[k], n) => jobs'[k].name # jobs'[j].name
  BY DEF OwnInv, Owns, SpecOf
<1>1. jobs \in [Jobs -> JobStates]
  BY DEF BaseInv, Typed
<1>2. ASSUME NEW i \in Jobs, Owns(jobs[i], n)
      PROVE  /\ <<n, jobs[i].name>> \in made /\ jobs'[i].name = jobs[i].name
             /\ \A k \in Jobs \ {i} : Owns(jobs[k], n) => jobs[k].name # jobs[i].name
  <2>1. SpecOf(jobs[i]) # None
    BY <1>2 DEF Owns
  <2> QED
    BY <1>2, <2>1, JobEvolves DEF Evolves, OwnInv
<1>3. ASSUME \A i \in Jobs : Owns(jobs'[i], n) => Owns(jobs[i], n), made \subseteq made'
      PROVE  /\ <<n, jobs'[j].name>> \in made'
             /\ \A k \in Jobs \ {j} : Owns(jobs'[k], n) => jobs'[k].name # jobs'[j].name
  BY <1>2, <1>3
<1>4. ASSUME NEW i \in Jobs, Step(i)
      PROVE  /\ <<n, jobs'[j].name>> \in made'
             /\ \A k \in Jobs \ {j} : Owns(jobs'[k], n) => jobs'[k].name # jobs'[j].name
  <2>1. PICK new : jobs' = [jobs EXCEPT ![i] = new]
    BY <1>4, StepKeeps
  <2>2. \A k \in Jobs \ {i} : jobs'[k] = jobs[k]
    BY <1>1, <2>1
  <2>3. made \subseteq made'
    BY <1>4, MadeStep DEF Adds
  <2>4. CASE Owns(jobs'[i], n) => Owns(jobs[i], n)
    BY <1>3, <2>2, <2>3, <2>4
  <2>5. CASE Owns(jobs'[i], n) /\ ~Owns(jobs[i], n)
    <3>1. <<n, jobs'[i].name>> \notin made /\ <<n, jobs'[i].name>> \in made'
      BY <1>4, <2>5, OwnStep
    <3>2. ASSUME NEW k \in Jobs \ {i}, Owns(jobs'[k], n)
          PROVE  <<n, jobs'[k].name>> \in made /\ jobs'[k].name # jobs'[i].name
      <4>1. <<n, jobs[k].name>> \in made /\ jobs'[k] = jobs[k]
        BY <1>2, <2>2, <3>2
      <4> QED
        BY <3>1, <4>1
    <3>3. CASE j = i
      BY <3>1, <3>2, <3>3
    <3>4. CASE j # i
      <4>1. <<n, jobs'[j].name>> \in made' /\ jobs'[j].name # jobs'[i].name
        BY <2>3, <3>2, <3>4
      <4>2. ASSUME NEW k \in Jobs \ {j}, Owns(jobs'[k], n)
            PROVE  jobs'[k].name # jobs'[j].name
        <5>1. CASE k = i
          BY <4>1, <5>1
        <5>2. CASE k # i
          <6>1. jobs'[k] = jobs[k] /\ jobs'[j] = jobs[j]
            BY <2>2, <3>4, <5>2
          <6> QED
            BY <1>2, <4>2, <6>1
        <5> QED
          BY <5>1, <5>2
      <4> QED
        BY <4>1, <4>2
    <3> QED
      BY <3>3, <3>4
  <2> QED
    BY <2>4, <2>5
<1>5. ASSUME NEW a \in Actions, Fire(a)
      PROVE  made' = made /\ \A i \in Jobs : Owns(jobs'[i], n) => Owns(jobs[i], n)
  <2>1. PICK new : Fresh(new) /\ jobs' = [jobs EXCEPT ![fires + 1] = new]
    BY <1>5, FireStep
  <2>2. SpecOf(new) = None
    BY <2>1, NoObjectFacts DEF Fresh, SpecOf
  <2>3. made' = made
    BY <1>5, FireStep
  <2>4. ASSUME NEW i \in Jobs, Owns(jobs'[i], n) PROVE Owns(jobs[i], n)
    <3>1. jobs'[i] = jobs[i] \/ jobs'[i] = new
      BY <1>1, <2>1
    <3> QED
      BY <2>2, <2>4, <3>1 DEF Owns
  <2> QED
    BY <2>3, <2>4
<1>6. UNCHANGED vars \/ Tick \/ CacheSync \/ Edited => UNCHANGED <<jobs, made>>
  BY DEF vars, Tick, CacheSync, Edited
<1> QED
  BY <1>3, <1>4, <1>5, <1>6, NextCases

-----------------------------------------------------------------------------
(* The reports.                                                              *)

(* The setting is what the action asks for, if its numbers fit. *)
LEMMA SettingAsked ==
    ASSUME NEW spec \in ResourceSpecs, NEW a \in Actions, spec.actions[a] # None,
           spec.kind # "K8sRunJob", Fits(spec.actions[a])
    PROVE  Asked(spec.actions[a], Setting(spec, a))
<1> PICK action : action = spec.actions[a]
  OBVIOUS
<1>1. action \in ActionOf(spec.kind) /\ spec.kind \in Kinds
  BY ActionFacts, SpecFacts
<1>2. CASE spec.kind = "K8sHpa"
  <2>1. action \in [minReplicas : Int, maxReplicas : Int]
    BY <1>1, <1>2 DEF ActionOf, K8sHpaAction
  <2>2. DOMAIN action = {"minReplicas", "maxReplicas"}
    BY <2>1
  <2>3. Int32(action.minReplicas) = action.minReplicas
        /\ Int32(action.maxReplicas) = action.maxReplicas
    BY <2>1, <2>2, Int32Facts DEF Fits
  <2>4. Setting(spec, a) = [minReplicas |-> action.minReplicas, maxReplicas |-> action.maxReplicas]
    BY <1>2, <2>3 DEF Setting
  <2>5. Setting(spec, a) = action
    BY <2>1, <2>4
  <2> QED
    BY <2>2, <2>5 DEF Asked
<1>3. CASE spec.kind = "K8sPodReplicas"
  <2>1. action \in [replicas : Int]
    BY <1>1, <1>3 DEF ActionOf, K8sPodReplicasAction
  <2>2. DOMAIN action = {"replicas"}
    BY <2>1
  <2>3. Int32(action.replicas) = action.replicas
    BY <2>1, <2>2, Int32Facts DEF Fits
  <2>4. Setting(spec, a) = [replicas |-> action.replicas]
    BY <1>3, <2>3 DEF Setting
  <2>5. Setting(spec, a) = action
    BY <2>1, <2>4
  <2> QED
    BY <2>2, <2>5 DEF Asked
<1>4. CASE spec.kind = "AwsEc2Instance"
  <2>1. action \in [command : {"stop", "start", "hibernate"}]
    BY <1>1, <1>4 DEF ActionOf, AwsEc2InstanceAction
  <2>2. Setting(spec, a) = [start |-> action.command = "start",
                            hibernate |-> action.command = "hibernate"]
    BY <1>4 DEF Setting
  <2>3. /\ Setting(spec, a).start = (action.command = "start")
        /\ Setting(spec, a).hibernate = (action.command = "hibernate")
    BY <2>2
  <2>4. "command" \in DOMAIN action
    BY <2>1
  <2>5. /\ action.command = "hibernate" => Setting(spec, a).hibernate
        /\ action.command = "stop" => ~Setting(spec, a).hibernate
    BY <2>3
  <2> QED
    BY <2>3, <2>4, <2>5 DEF Asked
<1>5. CASE spec.kind \in {"AwsTransferFamily", "AwsRdsAuroraCluster", "AwsDocumentDBCluster"}
  <2>1. action \in [command : {"stop", "start", "scale"}]
    BY <1>1, <1>5 DEF ActionOf, AwsTransferFamilyAction, AwsRdsAuroraClusterAction,
                      AwsDocumentDBClusterAction
  <2>2. Setting(spec, a) = [start |-> action.command = "start"]
    BY <1>5 DEF Setting
  <2>3. DOMAIN Setting(spec, a) = {"start"}
    BY <2>2
  <2> QED
    BY <2>1, <2>2, <2>3 DEF Asked
<1> QED
  BY <1>1, <1>2, <1>3, <1>4, <1>5 DEF Kinds, AwsJobs

(* A loop that has ended without an error of its lists has gone through all  *)
(* the spec names; one with no error at all has done all of it.              *)
LEMMA EndFacts ==
    ASSUME NEW job \in JobStates, JobInv(job), job.result \in {"Success", "Failure"}
    PROVE  /\ SpecOf(job) \in ResourceSpecs /\ SpecOf(job).actions[job.a] # None
           /\ job.name # None <=> Creates(SpecOf(job), Task(job))
           /\ TaskIs(SpecOf(job), job.a, gates.enabled, Task(job))
           /\ job.result = "Failure" => job.failed # {} \/ job.listErr = TRUE
           /\ job.result = "Failure" \/ Task(job).pc # "create" =>
                 job.listErr = TRUE \/ job.done \cup job.failed = Named(SpecOf(job))
           /\ job.result = "Success" => job.failed = {} /\ job.listErr = FALSE
<1>1. Worked(job) /\ job.pc # "call"
  BY ResultFacts DEF Worked, JobInv, Follows
<1>2. SpecOf(job) # None /\ Follows(job, SpecOf(job), Task(job))
  BY <1>1 DEF JobInv
<1>3. SpecOf(job) \in ResourceSpecs /\ TaskIs(SpecOf(job), job.a, gates.enabled, Task(job))
  BY <1>2, ReadFacts
<1>4. job.listErr \in BOOLEAN
  BY DEF JobStates
<1>5. ASSUME Task(job).pc # "create", job.listErr # TRUE
      PROVE  job.done \cup job.failed = Named(SpecOf(job))
  <2>1. Covers(job, SpecOf(job), Task(job).lists) /\ job.todo = {} /\ job.lists = {}
    BY <1>1, <1>2, <1>5 DEF Follows
  <2>2. job.listErr = FALSE
    BY <1>4, <1>5
  <2> QED
    BY <2>1, <2>2 DEF Covers
<1>6. job.result = "Failure" => Task(job).pc # "create"
  BY <1>1, <1>2 DEF Follows
<1>7. SpecOf(job).actions[job.a] # None
  BY <1>1, <1>2, <1>3 DEF Follows, TaskIs
<1> QED
  BY <1>2, <1>3, <1>5, <1>6, <1>7 DEF Follows

(* A success with a name owns an object wherever the spec wants one. *)
LEMMA SuccessOwns ==
    ASSUME NEW job \in JobStates, JobInv(job), job.result = "Success", job.name # None,
           NEW n \in CreatesIn(SpecOf(job))
    PROVE  Owns(job, n) /\ n \in Namespaces
<1>1. SpecOf(job) \in ResourceSpecs /\ Creates(SpecOf(job), Task(job))
      /\ TaskIs(SpecOf(job), job.a, gates.enabled, Task(job))
      /\ job.failed = {} /\ job.listErr = FALSE
      /\ (Task(job).pc # "create" =>
             job.listErr = TRUE \/ job.done \cup job.failed = Named(SpecOf(job)))
  BY EndFacts
<1>2. SpecOf(job) # None
  BY <1>1, SpecFacts
<1>3. CASE SpecOf(job).kind = "K8sRunJob"
  <2>1. Task(job).pc # "create"
    BY <1>1, <1>3 DEF TaskIs, Scales
  <2>2. job.done = Named(SpecOf(job)) /\ n \in Named(SpecOf(job))
    BY <1>1, <1>3, <2>1 DEF CreatesIn
  <2> QED
    BY <1>1, <1>2, <1>3, <2>2, NamedTyped DEF Owns
<1>4. CASE SpecOf(job).kind # "K8sRunJob"
  BY <1>2, <1>4, KindAssumption DEF Owns, CreatesIn
<1> QED
  BY <1>3, <1>4

(* What a firing reports is what happened to everything its spec names. *)
THEOREM ReportsAreTrue == JobSpec => []ReportIsTrue
<1>1. JobSpec => [](BaseInv /\ SettingInv /\ OwnInv)
  <2>1. Init => BaseInv /\ SettingInv /\ OwnInv
    BY BaseInit, SettingInit, OwnInit
  <2>2. BaseInv /\ SettingInv /\ OwnInv /\ [Next]_vars => (BaseInv /\ SettingInv /\ OwnInv)'
    BY BaseStep, SettingStep, OwnKept
  <2> QED
    BY <2>1, <2>2, PTL DEF JobSpec
<1>2. BaseInv /\ SettingInv /\ OwnInv => ReportIsTrue
  <2> SUFFICES ASSUME BaseInv, SettingInv, OwnInv PROVE ReportIsTrue
    OBVIOUS
  <2>1. \A k \in Jobs : jobs[k] \in JobStates /\ JobInv(jobs[k]) /\ GateInv(jobs[k])
    BY DEF BaseInv, Typed, JobsInv
  <2>2. ASSUME NEW j \in Jobs, jobs[j].result = "Success", jobs[j].name # None,
               NEW n \in CreatesIn(SpecOf(jobs[j]))
        PROVE  /\ <<n, jobs[j].name>> \in made
               /\ {k \in Jobs : /\ jobs[k].name = jobs[j].name /\ jobs[k].result = "Success"
                                /\ n \in CreatesIn(SpecOf(jobs[k]))} = {j}
    <3>1. Owns(jobs[j], n) /\ n \in Namespaces
      BY <2>1, <2>2, SuccessOwns
    <3>2. ASSUME NEW k \in Jobs, jobs[k].name = jobs[j].name, jobs[k].result = "Success",
                 n \in CreatesIn(SpecOf(jobs[k]))
          PROVE  k = j
      <4>1. Owns(jobs[k], n)
        BY <2>1, <2>2, <3>2, SuccessOwns
      <4> QED
        BY <3>1, <3>2, <4>1 DEF OwnInv
    <3>3. <<n, jobs[j].name>> \in made
      BY <3>1 DEF OwnInv
    <3> QED
      BY <2>2, <3>2, <3>3
  <2>3. ASSUME NEW j \in Jobs, jobs[j].result = "Success", jobs[j].name = None
        PROVE  /\ jobs[j].done = Named(SpecOf(jobs[j]))
               /\ \A t \in jobs[j].done :
                     \/ state[t] # None /\ Asked(SpecOf(jobs[j]).actions[jobs[j].a], state[t])
                     \/ {k \in Jobs \ {j} : t \in jobs[k].done \cup jobs[k].failed} # {}
                     \/ ~Fits(SpecOf(jobs[j]).actions[jobs[j].a])
    <3>1. /\ SpecOf(jobs[j]) \in ResourceSpecs /\ SpecOf(jobs[j]).actions[jobs[j].a] # None
          /\ ~Creates(SpecOf(jobs[j]), Task(jobs[j]))
          /\ TaskIs(SpecOf(jobs[j]), jobs[j].a, gates.enabled, Task(jobs[j]))
          /\ jobs[j].failed = {} /\ jobs[j].listErr = FALSE
          /\ (Task(jobs[j]).pc # "create" => jobs[j].listErr = TRUE
                   \/ jobs[j].done \cup jobs[j].failed = Named(SpecOf(jobs[j])))
      BY <2>1, <2>3, EndFacts
    <3>2. jobs[j].done = Named(SpecOf(jobs[j]))
      BY <3>1 DEF Creates
    <3>3. jobs[j].a \in Actions /\ SpecOf(jobs[j]) # None
      BY <2>1, <3>1, SpecFacts DEF JobStates
    <3>4. SpecOf(jobs[j]).kind # "K8sRunJob"
      <4>1. Worked(jobs[j])
        BY <2>3 DEF Worked
      <4>2. Task(jobs[j]).pc # "send"
        BY <2>1, <3>3, <4>1 DEF JobInv, Follows
      <4> QED
        BY <3>1, <4>2 DEF TaskIs, Creates, Scales, AwsJobs
    <3>5. ASSUME NEW t \in jobs[j].done,
                 \A k \in Jobs \ {j} : t \notin jobs[k].done \cup jobs[k].failed,
                 Fits(SpecOf(jobs[j]).actions[jobs[j].a])
          PROVE  state[t] # None /\ Asked(SpecOf(jobs[j]).actions[jobs[j].a], state[t])
      <4>1. state[t] = Setting(SpecOf(jobs[j]), jobs[j].a)
        BY <3>3, <3>4, <3>5 DEF SettingInv
      <4>2. Setting(SpecOf(jobs[j]), jobs[j].a) \in Settings
        BY <3>1, <3>3, <3>4, SettingTyped
      <4>3. Asked(SpecOf(jobs[j]).actions[jobs[j].a], Setting(SpecOf(jobs[j]), jobs[j].a))
        BY <3>1, <3>3, <3>4, <3>5, SettingAsked
      <4> QED
        BY <4>1, <4>2, <4>3, JobAssumption
    <3> QED
      BY <3>2, <3>5
  <2>4. ASSUME NEW j \in Jobs, jobs[j].result = "Failure"
        PROVE  /\ jobs[j].failed # {} \/ jobs[j].listErr
               /\ jobs[j].listErr \/ jobs[j].done \cup jobs[j].failed = Named(SpecOf(jobs[j]))
    <3>1. /\ jobs[j].failed # {} \/ jobs[j].listErr = TRUE
          /\ jobs[j].listErr = TRUE
                \/ jobs[j].done \cup jobs[j].failed = Named(SpecOf(jobs[j]))
      BY <2>1, <2>4, EndFacts
    <3> QED
      BY <3>1
  <2>5. ASSUME NEW j \in Jobs, jobs[j].sent, jobs[j].result \notin {"Success", "Failure"}
        PROVE  jobs[j].done \cup jobs[j].failed = {}
    <3>1. jobs[j].sent = TRUE
      <4>1. jobs[j].sent \in BOOLEAN
        BY <2>1 DEF JobStates
      <4> QED
        BY <2>5, <4>1
    <3>2. jobs[j].pc = "done"
      BY <2>1, <3>1 DEF GateInv
    <3>3. ~Worked(jobs[j])
      BY <2>5, <3>2 DEF Worked
    <3> QED
      BY <2>1, <3>3 DEF JobInv
  <2> SUFFICES ASSUME NEW j \in Jobs, jobs[j].sent
               PROVE  LET job == jobs[j]
                          action == SpecOf(job).actions[job.a]
                          Others(t) == {k \in Jobs \ {j} : t \in jobs[k].done \cup jobs[k].failed}
                          Owners(n) == {k \in Jobs : /\ jobs[k].name = job.name
                                                     /\ jobs[k].result = "Success"
                                                     /\ n \in CreatesIn(SpecOf(jobs[k]))}
                      IN  CASE job.result = "Success" /\ job.name # None ->
                                 \A n \in CreatesIn(SpecOf(job)) :
                                    <<n, job.name>> \in made /\ Owners(n) = {j}
                            [] job.result = "Success" /\ job.name = None ->
                                 /\ job.done = Named(SpecOf(job))
                                 /\ \A t \in job.done :
                                       \/ state[t] # None /\ Asked(action, state[t])
                                       \/ Others(t) # {} \/ ~Fits(action)
                            [] job.result = "Failure" ->
                                 /\ job.failed # {} \/ job.listErr
                                 /\ job.listErr \/ job.done \cup job.failed = Named(SpecOf(job))
                            [] OTHER -> job.done \cup job.failed = {}
    BY DEF ReportIsTrue
  <2>6. CASE jobs[j].result = "Success" /\ jobs[j].name # None
    BY <2>2, <2>6
  <2>7. CASE jobs[j].result = "Success" /\ jobs[j].name = None
    BY <2>3, <2>7
  <2>8. CASE jobs[j].result = "Failure"
    BY <2>4, <2>8
  <2>9. CASE jobs[j].result \notin {"Success", "Failure"}
    BY <2>5, <2>9
  <2> QED
    BY <2>6, <2>7, <2>8, <2>9
<1> QED
  BY <1>1, <1>2, PTL
=============================================================================
