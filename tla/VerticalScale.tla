---------------------------- MODULE VerticalScale ----------------------------
(***************************************************************************)
(* Vertical scaling of a database cluster: ActionExecution objects, their  *)
(* controller (actionexecution_controller.go), the phases of the handler   *)
(* (generic_scale.go, called through aurora_scale.go and docdb_scale.go),  *)
(* and the AWS cluster they act on (external).                             *)
(*                                                                         *)
(* One worker reconciles the executions.  It reads them from the informer  *)
(* cache, which lags behind the API server, and it acts on AWS before it   *)
(* saves the phase it has reached: a save that fails (the cached version   *)
(* was stale, the call failed, the process died) makes it act again.       *)
(***************************************************************************)
EXTENDS Integers, FiniteSets

CONSTANTS
    Executions,    \* ActionExecution objects, all for the same cluster
    Instances,     \* database instances
    Classes,       \* instance classes
    ClassOf,       \* ClassOf[e]: the class in e's parameters, None if missing
    Known,         \* executions whose ActionType the controller knows
    Blinds,        \* whether AWS may fail to name a cluster's members
    None,
    MaxCreates, MaxFaults, MaxRestarts  \* bounds

Phases == {"New", "Initialization", "ScalingReplicas", "WaitReplicas",
           "PerformingFailover", "WaitWriterFailover", "ScalingWriter", "WaitOldWriter"}
Outcomes == {"Success", "Error", "Timeout"}

(* An ActionExecution: resourceVersion, Status.Phase ("New" while it is the  *)
(* empty string) and Status.StateData.                                      *)
Objects == [ver : Nat, phase : Phases,
            writer : Instances \cup {None}, readers : SUBSET Instances]
NewObject == [ver |-> 0, phase |-> "New", writer |-> None, readers |-> {}]

ASSUME ScaleAssumption ==
    /\ IsFiniteSet(Instances)
    /\ None \notin Instances /\ None \notin Classes /\ None \notin Objects
    /\ ClassOf \in [Executions -> Classes \cup {None}]
    /\ Known \subseteq Executions /\ Blinds \subseteq BOOLEAN
    /\ {MaxCreates, MaxFaults, MaxRestarts} \subseteq Nat

VARIABLES
    exec,      \* the executions in the API server; None: not there
    cache,     \* ... in the informer cache
    created,   \* executions created so far
    expired,   \* executions older than ActionTimeout
    aborted,   \* executions a user deleted
    queue,     \* the controller's work queue
    w,         \* its worker
    sent,      \* outcomes handed to the notification service
    target,    \* the Action condition of the target resource
    members,   \* AWS: the instances of the cluster
    blind,     \* AWS: the description of the cluster names no members
    writer,    \* AWS: the one that is the writer
    class,     \* AWS: their classes
    want,      \* AWS: the class a pending modification asks for
    avail,     \* AWS: instances whose status is "available"
    failover,  \* AWS: a failover is under way
    faults, restarts

apiVars == <<exec, cache, created, expired, aborted>>
awsVars == <<members, blind, writer, class, want, avail, failover>>
vars == <<apiVars, queue, w, sent, target, awsVars, faults, restarts>>

Workers == [pc : {"idle", "execute", "persist", "report", "delete"},
            e : Executions \cup {None}, op : Objects, outcome : Outcomes \cup {None}]
IdleWorker == [pc |-> "idle", e |-> None, op |-> NewObject, outcome |-> None]

Init ==
    /\ exec = [e \in Executions |-> None] /\ cache = exec
    /\ created = {} /\ expired = {} /\ aborted = {} /\ queue = {}
    /\ w = IdleWorker
    /\ sent = [e \in Executions |-> {}] /\ target = None
    /\ members \in SUBSET Instances \ {{}} /\ writer \in members /\ blind \in Blinds
    /\ class \in [Instances -> Classes]
    /\ want = [i \in Instances |-> None] /\ avail = Instances /\ failover = FALSE
    /\ faults = 0 /\ restarts = 0

-----------------------------------------------------------------------------
(* AWS: the calls, and what becomes of them.                                *)

(* DescribeCluster: the writer and the readers.  Where AWS names no members  *)
(* the instances are listed, in any order, and the first is taken for the    *)
(* writer.                                                                   *)
Descriptions == {[writer |-> i, readers |-> members \ {i}] :
                     i \in IF blind THEN members ELSE {writer}}

(* ModifyDBInstance with ApplyImmediately, refused while a modification is   *)
(* being applied.  The instance stays "available" with its old class until   *)
(* AWS starts on it.                                                         *)
ModifyInstances(is, c) ==
    /\ is \subseteq avail
    /\ want' = [i \in Instances |-> IF i \notin is THEN want[i]
                                    ELSE IF class[i] = c THEN None ELSE c]
    /\ UNCHANGED <<members, blind, writer, class, avail, failover>>

\* Mutant: the class is not compared.
CheckStatusOnly(is, c) == is \subseteq avail

CheckInstancesAvailable(is, c) == \A i \in is : i \in avail /\ class[i] = c

FailoverCluster ==
    /\ ~failover
    /\ failover' = TRUE
    /\ UNCHANGED <<members, blind, writer, class, want, avail>>

AwsModify(i) ==
    /\ want[i] # None
    /\ \/ /\ i \in avail
          /\ avail' = avail \ {i}
          /\ UNCHANGED <<class, want>>
       \/ /\ i \notin avail
          /\ avail' = avail \cup {i}
          /\ class' = [class EXCEPT ![i] = want[i]]
          /\ want' = [want EXCEPT ![i] = None]
    /\ UNCHANGED <<members, blind, writer, failover>>

AwsFailover ==
    /\ failover
    /\ failover' = FALSE
    /\ writer' \in members \ {writer}
    /\ UNCHANGED <<members, blind, class, want, avail>>

(* The writer breaks down: AWS promotes a reader unasked. *)
AwsOutage ==
    /\ faults < MaxFaults
    /\ faults' = faults + 1
    /\ writer' \in members \ {writer}
    /\ UNCHANGED <<members, blind, class, want, avail, failover>>

Aws ==
    /\ \/ (\E i \in Instances : AwsModify(i)) /\ UNCHANGED faults
       \/ AwsFailover /\ UNCHANGED faults
       \/ AwsOutage
    /\ UNCHANGED <<apiVars, queue, w, sent, target, restarts>>

-----------------------------------------------------------------------------
(* The API server and the informer.                                         *)

(* The cron job of a "scale" action creates an execution. *)
Create(e) ==
    /\ e \notin created /\ Cardinality(created) < MaxCreates
    /\ created' = created \cup {e}
    /\ exec' = [exec EXCEPT ![e] = NewObject]
    /\ UNCHANGED <<cache, expired, aborted, queue, w, sent, target, awsVars, faults, restarts>>

UserDelete(e) ==
    /\ exec[e] # None
    /\ faults < MaxFaults
    /\ faults' = faults + 1
    /\ exec' = [exec EXCEPT ![e] = None]
    /\ aborted' = aborted \cup {e}
    /\ UNCHANGED <<cache, created, expired, queue, w, sent, target, awsVars, restarts>>

(* A watch event: every change is one, the controller has no predicate.     *)
CacheSync(e) ==
    /\ cache[e] # exec[e]
    /\ cache' = [cache EXCEPT ![e] = exec[e]]
    /\ queue' = queue \cup {e}
    /\ UNCHANGED <<exec, created, expired, aborted, w, sent, target, awsVars, faults, restarts>>

Expire(e) ==
    /\ e \in created \ expired
    /\ expired' = expired \cup {e}
    /\ UNCHANGED <<exec, cache, created, aborted, queue, w, sent, target, awsVars, faults, restarts>>

-----------------------------------------------------------------------------
(* The controller.                                                          *)

\* Mutant: an execution times out only once.
TimedOutOnce(e) == e \in expired /\ "Timeout" \notin sent[e]

(* time.Since(CreationTimestamp) > timeout *)
TimedOut(e) == e \in expired

(* Reconcile, up to the handler. *)
Fetch(e) ==
    LET at(pc, out) == w' = [pc |-> pc, e |-> e, op |-> cache[e], outcome |-> out]
    IN  /\ w.pc = "idle"
        /\ e \in queue
        /\ queue' = queue \ {e}
        /\ \/ cache[e] = None /\ UNCHANGED w
           \/ cache[e] # None /\ TimedOut(e) /\ at("report", "Timeout")
           \/ cache[e] # None /\ ~TimedOut(e) /\ e \notin Known /\ UNCHANGED w
           \/ cache[e] # None /\ ~TimedOut(e) /\ e \in Known /\ at("execute", None)
        /\ UNCHANGED <<apiVars, sent, target, awsVars, faults, restarts>>

Persist(op) == w' = [w EXCEPT !.pc = "persist", !.op = op]

\* Mutant: the execution is deleted without a report.
DoneUnreported(out) == w' = [w EXCEPT !.pc = "delete", !.outcome = out]

Done(out) == w' = [w EXCEPT !.pc = "report", !.outcome = out]

Executing == w.pc = "execute" /\ UNCHANGED <<apiVars, queue, sent, target, restarts>>
InPhase(p) == Executing /\ ClassOf[w.e] # None /\ w.op.phase \in p
Turn(op, p) == [op EXCEPT !.phase = p]

(* Parameters that do not parse, or name no class. *)
BadParameters ==
    /\ Executing
    /\ ClassOf[w.e] = None
    /\ Done("Error")
    /\ UNCHANGED <<awsVars, faults>>

(* The AWS configuration or the secret cannot be read: the execution fails. *)
ConfigError ==
    /\ Executing
    /\ faults < MaxFaults
    /\ faults' = faults + 1
    /\ Done("Error")
    /\ UNCHANGED awsVars

(* The target cannot be read: retried. *)
TargetError ==
    /\ Executing
    /\ Persist(w.op)
    /\ UNCHANGED <<awsVars, faults>>

(* The phase's first AWS call fails: retried. *)
CallError ==
    /\ InPhase(Phases)
    /\ Persist(IF w.op.phase = "New" THEN Turn(w.op, "Initialization") ELSE w.op)
    /\ UNCHANGED <<awsVars, faults>>

Initialization ==
    /\ InPhase({"New", "Initialization"})
    /\ \E d \in Descriptions :
          Persist([w.op EXCEPT !.writer = d.writer, !.readers = d.readers,
                      !.phase = IF d.readers = {} THEN "ScalingWriter" ELSE "ScalingReplicas"])
    /\ UNCHANGED <<awsVars, faults>>

(* The readers are modified in a loop, which an error may end early. *)
ScalingReplicas ==
    /\ InPhase({"ScalingReplicas"})
    /\ \E is \in SUBSET w.op.readers :
          /\ ModifyInstances(is, ClassOf[w.e])
          /\ Persist(IF is = w.op.readers THEN Turn(w.op, "WaitReplicas") ELSE w.op)
    /\ UNCHANGED faults

\* Mutant: the readers are not waited for.
WaitReplicasBlindly ==
    /\ InPhase({"WaitReplicas"})
    /\ Persist(Turn(w.op, "PerformingFailover"))
    /\ UNCHANGED <<awsVars, faults>>

WaitReplicas ==
    /\ InPhase({"WaitReplicas"})
    /\ Persist(IF CheckInstancesAvailable(w.op.readers, ClassOf[w.e])
               THEN Turn(w.op, "PerformingFailover") ELSE w.op)
    /\ UNCHANGED <<awsVars, faults>>

PerformingFailover ==
    /\ InPhase({"PerformingFailover"})
    /\ FailoverCluster
    /\ Persist(Turn(w.op, "WaitWriterFailover"))
    /\ UNCHANGED faults

(* The writer noted at the start, rediscovered should the note be missing.  *)
Rediscovered(op, d) == IF op.writer = None THEN d.writer ELSE op.writer

\* Mutant: the whole description is noted for the writer's name.
NotedDescription(op, d) == [op EXCEPT !.writer = d]

Noted(op, d) == [op EXCEPT !.writer = Rediscovered(op, d)]

WaitWriterFailover ==
    /\ InPhase({"WaitWriterFailover"})
    /\ \E d, now \in Descriptions :
          LET op == Noted(w.op, d)
          IN  Persist(IF now.writer # op.writer THEN Turn(op, "ScalingWriter") ELSE op)
    /\ UNCHANGED <<awsVars, faults>>

ScalingWriter ==
    /\ InPhase({"ScalingWriter"})
    /\ \E d \in Descriptions :
          LET op == Noted(w.op, d)
          IN  /\ ModifyInstances({op.writer}, ClassOf[w.e])
              /\ Persist(Turn(op, "WaitOldWriter"))
    /\ UNCHANGED faults

WaitOldWriter ==
    /\ InPhase({"WaitOldWriter"})
    /\ \E d \in Descriptions :
          LET op == Noted(w.op, d)
          IN  IF CheckInstancesAvailable({op.writer}, ClassOf[w.e])
              THEN Done("Success") ELSE Persist(op)
    /\ UNCHANGED <<awsVars, faults>>

Handler == \/ BadParameters \/ ConfigError \/ TargetError \/ CallError \/ Initialization
           \/ ScalingReplicas \/ WaitReplicas \/ PerformingFailover
           \/ WaitWriterFailover \/ ScalingWriter \/ WaitOldWriter

\* Mutant: the resourceVersion is not compared.
NeverStale(op, cur) == FALSE

Stale(op, cur) == op.ver # cur.ver

\* Mutant: the error of a reconcile is dropped.
NoRetry(e) == UNCHANGED queue

(* Reconcile returns an error: the execution is queued again. *)
Retry(e) == queue' = queue \cup {e}

(* Status().Update: refused for a stale version, and no new version if       *)
(* nothing changed.  Every result but "not found" has the object requeued.   *)
UpdateStatus ==
    LET cur == exec[w.e]
        saved == IF w.op = cur THEN cur ELSE [w.op EXCEPT !.ver = cur.ver + 1]
    IN  /\ w.pc = "persist"
        /\ \/ /\ cur = None
              /\ UNCHANGED <<exec, queue, faults>>
           \/ /\ cur # None /\ ~Stale(w.op, cur)
              /\ exec' = [exec EXCEPT ![w.e] = saved]
              /\ queue' = queue \cup {w.e}
              /\ UNCHANGED faults
           \/ /\ cur # None /\ Stale(w.op, cur)
              /\ Retry(w.e)
              /\ UNCHANGED <<exec, faults>>
           \/ /\ cur # None /\ faults < MaxFaults
              /\ faults' = faults + 1
              /\ Retry(w.e)
              /\ UNCHANGED exec
        /\ w' = IdleWorker
        /\ UNCHANGED <<cache, created, expired, aborted, sent, target, awsVars, restarts>>

(* finalizeAction: the notification, then the condition of the target; an    *)
(* update of the target that fails is logged and forgotten.                  *)
FinalizeAction ==
    /\ w.pc = "report"
    /\ sent' = [sent EXCEPT ![w.e] = @ \cup {w.outcome}]
    /\ target' \in {target, w.outcome}
    /\ w' = [w EXCEPT !.pc = "delete"]
    /\ UNCHANGED <<apiVars, queue, awsVars, faults, restarts>>

(* Delete has no precondition, and an object already gone is no error.      *)
Delete ==
    /\ w.pc = "delete"
    /\ \/ /\ exec' = [exec EXCEPT ![w.e] = None]
          /\ UNCHANGED <<queue, faults>>
       \/ /\ faults < MaxFaults
          /\ faults' = faults + 1
          /\ Retry(w.e)
          /\ UNCHANGED exec
    /\ w' = IdleWorker
    /\ UNCHANGED <<cache, created, expired, aborted, sent, target, awsVars, restarts>>

(* The operator dies; the next one lists the executions afresh. *)
Restart ==
    /\ restarts < MaxRestarts
    /\ restarts' = restarts + 1
    /\ w' = IdleWorker
    /\ cache' = exec
    /\ queue' = {e \in Executions : exec[e] # None}
    /\ UNCHANGED <<exec, created, expired, aborted, sent, target, awsVars, faults>>

Worker == (\E e \in Executions : Fetch(e)) \/ Handler \/ UpdateStatus \/ FinalizeAction \/ Delete

Next ==
    \/ Aws
    \/ \E e \in Executions : Create(e) \/ UserDelete(e) \/ CacheSync(e) \/ Expire(e)
    \/ Worker
    \/ Restart

Spec == Init /\ [][Next]_vars

(* Time passes, watch events arrive, the queue is FIFO and the worker does   *)
(* not stop half-way.  Nothing is assumed of AWS.                            *)
Fairness ==
    /\ \A e \in Executions : WF_vars(CacheSync(e)) /\ WF_vars(Expire(e)) /\ SF_vars(Fetch(e))
    /\ WF_vars(Handler \/ UpdateStatus \/ FinalizeAction \/ Delete)

FairSpec == Spec /\ Fairness

-----------------------------------------------------------------------------
TypeOK ==
    /\ exec \in [Executions -> Objects \cup {None}]
    /\ cache \in [Executions -> Objects \cup {None}]
    /\ created \subseteq Executions /\ expired \subseteq created
    /\ aborted \subseteq created /\ queue \subseteq Executions
    /\ w \in Workers
    /\ sent \in [Executions -> SUBSET Outcomes]
    /\ target \in Outcomes \cup {None}
    /\ members \subseteq Instances /\ writer \in members /\ blind \in BOOLEAN
    /\ class \in [Instances -> Classes] /\ want \in [Instances -> Classes \cup {None}]
    /\ avail \subseteq Instances /\ failover \in BOOLEAN
    /\ faults \in 0..MaxFaults /\ restarts \in 0..MaxRestarts

Rank(p) == CASE p = "New" -> 0
             [] p = "Initialization" -> 1
             [] p = "ScalingReplicas" -> 2
             [] p = "WaitReplicas" -> 3
             [] p = "PerformingFailover" -> 4
             [] p = "WaitWriterFailover" -> 5
             [] p = "ScalingWriter" -> 6
             [] p = "WaitOldWriter" -> 7

(* The saved phase only moves forward, whatever stale copy the worker acted  *)
(* on, and the writer and readers noted at the start are never overwritten:  *)
(* what holds of a retry after a lost save, a crash or a lagging cache       *)
(* (actionexecution_controller.go:130-136).                                  *)
SavedPhaseAdvances ==
    [][\A e \in Executions :
          exec[e] # None /\ exec'[e] # None =>
              /\ Rank(exec'[e].phase) >= Rank(exec[e].phase)
              /\ exec[e].writer # None =>
                    /\ exec'[e].writer = exec[e].writer
                    /\ exec'[e].readers = exec[e].readers]_vars

(* Success is reported only of a cluster whose every instance has the class  *)
(* asked for, if the executions under way agree on it: the readers were      *)
(* checked, then the old writer, across failovers, repeated or unasked       *)
(* (generic_scale.go:93-109, 168-187).                                       *)
Agreed == \A e, f \in created : ClassOf[e] = ClassOf[f] \/ ClassOf[e] = None \/ ClassOf[f] = None
SuccessMeansScaled ==
    Agreed /\ w.pc = "report" /\ w.outcome = "Success" =>
        \A i \in members : class[i] = ClassOf[w.e]

(* A failover is asked for only when every instance it can go to has been    *)
(* scaled, but for one: the writer noted at the start, and that only if it   *)
(* is the writer no more, because a failover came unasked or was asked for   *)
(* twice, or because it never was, AWS having named no members.  As long as  *)
(* it is the writer, the next one is never of the old size                   *)
(* (generic_scale.go:93-119).                                                *)
FailoverIsPrepared ==
    [][Agreed /\ failover' /\ ~failover =>
          \A i \in members \ {writer} : class[i] = ClassOf[w.e] \/ i = w.op.writer]_vars

(* Once an execution has reported Success or Timeout it changes nothing in   *)
(* AWS, though its Delete may have failed and the cache may still hold it    *)
(* (actionexecution_controller.go:80-95, 121-128).                           *)
ReportedIsInert ==
    [][\A e \in Executions :
          sent[e] \cap {"Success", "Timeout"} # {} /\ w.e = e /\ w.pc = "execute" /\ w' # w
              => UNCHANGED want /\ UNCHANGED failover]_vars

(* No execution disappears unreported, but for one a user deletes            *)
(* (actionexecution_controller.go:89-90, 122-123).                           *)
NoneEndsUnreported ==
    \A e \in created : exec[e] = None => sent[e] # {} \/ e \in aborted

(* Every execution of a known type ends: by its own success or error, or by  *)
(* the timeout, however AWS behaves (actionexecution_controller.go:80-95).   *)
EveryExecutionEnds == \A e \in Known : e \in created ~> exec[e] = None
=============================================================================
