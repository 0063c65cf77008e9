------------------------- MODULE VerticalScaleProofs -------------------------
(***************************************************************************)
(* Proofs about VerticalScale, for every set of executions, instances and  *)
(* classes and every bound.                                                *)
(***************************************************************************)
EXTENDS VerticalScale, TLAPS

(* What the worker holds: an execution that was created; when it reports, an *)
(* outcome; when it deletes, one that it has reported.                       *)
WorkerHolds ==
    /\ w.pc # "idle" => w.e \in created
    /\ w.pc = "report" => w.outcome \in Outcomes
    /\ w.pc = "delete" => sent[w.e] # {}

(* Objects exist, also in the cache, only after their creation. *)
OnlyCreated ==
    \A e \in Executions : exec[e] # None \/ cache[e] # None \/ sent[e] # {} => e \in created

(* Object n is what a later phase makes of object o: it is no less far, and  *)
(* what o has noted of the cluster is still there.                           *)
Advances(o, n) ==
    /\ Rank(n.phase) >= Rank(o.phase)
    /\ o.writer # None => n.writer = o.writer /\ n.readers = o.readers

(* o is a copy of n, perhaps an old one: a resourceVersion stands for one    *)
(* content.                                                                  *)
CopyOf(o, n) ==
    /\ o.ver <= n.ver
    /\ Rank(o.phase) <= Rank(n.phase)
    /\ o.ver = n.ver => o = n

(* The cache lags behind the API server, and what the worker has read behind *)
(* both; what it is about to save comes from the object it read.             *)
CopiesLag ==
    /\ \A e \in Executions :
          exec[e] # None /\ cache[e] # None => CopyOf(cache[e], exec[e])
    /\ w.pc \in {"execute", "report", "delete"} =>
          /\ cache[w.e] # None => Rank(w.op.phase) <= Rank(cache[w.e].phase)
          /\ exec[w.e] # None => CopyOf(w.op, exec[w.e])
    /\ w.pc = "persist" /\ exec[w.e] # None =>
          /\ w.op.ver <= exec[w.e].ver
          /\ w.op.ver = exec[w.e].ver => Advances(exec[w.e], w.op)

(* What the phase of an object says of it and of the cluster: nothing is     *)
(* noted before the initialization; after it the whole cluster is; and past  *)
(* WaitReplicas the readers have the class asked for.                        *)
Early == {"New", "Initialization"}
Late  == {"PerformingFailover", "WaitWriterFailover", "ScalingWriter", "WaitOldWriter"}
Sound(o, e) ==
    /\ o.phase \in Early => o.writer = None
    /\ o.phase \notin Early => /\ o.writer \in Instances /\ ClassOf[e] # None
                               /\ members \subseteq o.readers \cup {o.writer}
    /\ Agreed /\ o.phase \in Late => \A i \in o.readers : class[i] = ClassOf[e]

AllSound ==
    /\ \A e \in Executions : /\ exec[e] # None => Sound(exec[e], e)
                             /\ cache[e] # None => Sound(cache[e], e)
    /\ w.pc # "idle" => Sound(w.op, w.e)

(* AWS was asked only for classes some execution names. *)
WantsAsked ==
    \A i \in Instances : want[i] # None => \E e \in created : want[i] = ClassOf[e]

(* Every copy of an execution that has reported Success is in the last       *)
(* phase; one that reports, or has reported, a timeout has expired.          *)
InLastPhase(e) ==
    /\ exec[e] # None => exec[e].phase = "WaitOldWriter"
    /\ cache[e] # None => cache[e].phase = "WaitOldWriter"
    /\ w.pc # "idle" /\ w.e = e => w.op.phase = "WaitOldWriter"
OutcomesHold ==
    /\ \A e \in Executions : /\ "Success" \in sent[e] => InLastPhase(e)
                             /\ "Timeout" \in sent[e] => e \in expired
    /\ w.pc = "execute" => "Timeout" \notin sent[w.e]
    /\ w.pc = "report" /\ w.outcome = "Success" => w.op.phase = "WaitOldWriter"
    /\ w.pc = "report" /\ w.outcome = "Timeout" => w.e \in expired

ReportInv == TypeOK /\ WorkerHolds /\ OnlyCreated /\ NoneEndsUnreported
ScaleInv  == /\ ReportInv /\ CopiesLag /\ AllSound /\ WantsAsked /\ OutcomesHold
             /\ SuccessMeansScaled

-----------------------------------------------------------------------------
(* The values of Rank: it orders the phases as the handler takes them.      *)
LEMMA RankValues ==
    /\ Rank("New") = 0 /\ Rank("Initialization") = 1 /\ Rank("ScalingReplicas") = 2
    /\ Rank("WaitReplicas") = 3 /\ Rank("PerformingFailover") = 4
    /\ Rank("WaitWriterFailover") = 5 /\ Rank("ScalingWriter") = 6
    /\ Rank("WaitOldWriter") = 7
    /\ \A p \in Phases : Rank(p) \in 0..7 /\ (Rank(p) = 7 => p = "WaitOldWriter")
  BY DEF Rank, Phases

(* What a phase of the handler may leave behind: an object to save that is   *)
(* sound, no less far than the one it read and of the same version, or an    *)
(* outcome.  It asks AWS only for the class of its execution, only fails     *)
(* over from the phase for that, and asks for nothing in the last phase.     *)
LEMMA HandlerEffect ==
    ASSUME TypeOK, WorkerHolds, w.pc # "idle" => Sound(w.op, w.e), Handler
    PROVE  /\ w.pc = "execute" /\ w.e \in Executions
           /\ \/ \E op \in Objects :
                    /\ Persist(op)
                    /\ op.ver = w.op.ver /\ Advances(w.op, op) /\ Sound(op, w.e)
                    /\ w.op.phase = "WaitOldWriter" => op.phase = "WaitOldWriter"
              \/ Done("Error")
              \/ /\ Done("Success")
                 /\ w.op.phase = "WaitOldWriter" /\ class[w.op.writer] = ClassOf[w.e]
           /\ want' \in [Instances -> Classes \cup {None}]
           /\ \A i \in Instances : want'[i] \in {want[i], None, ClassOf[w.e]}
           /\ w.op.phase = "WaitOldWriter" => UNCHANGED <<want, failover>>
           /\ failover' \in BOOLEAN
           /\ failover' /\ ~failover => w.op.phase = "PerformingFailover"
           /\ faults' \in 0..MaxFaults
           /\ UNCHANGED <<apiVars, queue, sent, target, restarts, members, blind, writer, class, avail>>
<1> DEFINE Saves(op) == /\ op \in Objects /\ Persist(op)
                        /\ op.ver = w.op.ver /\ Advances(w.op, op) /\ Sound(op, w.e)
                        /\ w.op.phase = "WaitOldWriter" => op.phase = "WaitOldWriter"
           Keeps == UNCHANGED <<members, blind, writer, class, avail>>
           Asks  == /\ want' \in [Instances -> Classes \cup {None}]
                    /\ \A i \in Instances : want'[i] \in {want[i], None, ClassOf[w.e]}
                    /\ Keeps
<1>0. w.pc = "execute" /\ UNCHANGED <<apiVars, queue, sent, target, restarts>>
  BY DEF Handler, BadParameters, ConfigError, TargetError, CallError, Initialization,
         ScalingReplicas, WaitReplicas, PerformingFailover, WaitWriterFailover,
         ScalingWriter, WaitOldWriter, InPhase, Executing
<1>1. /\ w.e \in Executions /\ w.op \in Objects /\ writer \in members
      /\ members \subseteq Instances /\ faults \in 0..MaxFaults
      /\ w.op.phase \in Phases /\ w.op.ver \in Nat
      /\ want \in [Instances -> Classes \cup {None}] /\ failover \in BOOLEAN
      /\ ClassOf[w.e] \in Classes \cup {None}
  BY <1>0, ScaleAssumption DEF TypeOK, WorkerHolds, Workers, Objects
<1>2. Sound(w.op, w.e)
  BY <1>0
<1>3. UNCHANGED awsVars => Asks /\ UNCHANGED <<want, failover>>
  BY <1>1 DEF awsVars
<1>4. Rank(w.op.phase) \in 0..7 /\ MaxFaults \in Nat
  BY <1>1, RankValues, ScaleAssumption
<1>5. Persist(w.op) => Saves(w.op)
  BY <1>1, <1>2, <1>4 DEF Advances
<1>6. ASSUME w.op.phase \notin Early, NEW d PROVE Noted(w.op, d) = w.op
  BY <1>6, <1>1, <1>2, ScaleAssumption DEF Rediscovered, Noted, Sound, Objects
<1>7. ASSUME NEW p \in Phases, w.op.phase \notin Early, p \notin Early,
             Rank(p) >= Rank(w.op.phase), w.op.phase # "WaitOldWriter",
             Agreed /\ p \in Late => \A i \in w.op.readers : class[i] = ClassOf[w.e],
             Persist(Turn(w.op, p))
      PROVE  Saves(Turn(w.op, p))
  <2>1. /\ Turn(w.op, p) \in Objects /\ Turn(w.op, p).phase = p /\ Turn(w.op, p).ver = w.op.ver
        /\ Turn(w.op, p).writer = w.op.writer /\ Turn(w.op, p).readers = w.op.readers
    BY <1>1 DEF Turn, Objects
  <2>2. Sound(Turn(w.op, p), w.e)
    BY <1>7, <2>1, <1>2 DEF Sound
  <2> QED
    BY <1>7, <2>1, <2>2 DEF Advances
<1>8. ASSUME NEW is, ModifyInstances(is, ClassOf[w.e])
      PROVE  Asks /\ UNCHANGED failover
  BY <1>8, <1>1 DEF ModifyInstances
<1> DEFINE Goal == /\ \/ \E op : Saves(op)
                      \/ Done("Error")
                      \/ /\ Done("Success")
                         /\ w.op.phase = "WaitOldWriter" /\ class[w.op.writer] = ClassOf[w.e]
                   /\ Asks
                   /\ w.op.phase = "WaitOldWriter" => UNCHANGED <<want, failover>>
                   /\ failover' \in BOOLEAN
                   /\ failover' /\ ~failover => w.op.phase = "PerformingFailover"
                   /\ faults' \in 0..MaxFaults
<1> SUFFICES Goal
  BY <1>0, <1>1
<1> HIDE DEF Saves, Asks
<1>9. CASE BadParameters
  BY <1>9, <1>1, <1>3 DEF BadParameters
<1>10. CASE ConfigError
  BY <1>10, <1>1, <1>3, <1>4 DEF ConfigError
<1>11. CASE TargetError
  BY <1>11, <1>1, <1>3, <1>5 DEF TargetError
<1>12. CASE CallError
  <2>1. CASE w.op.phase # "New"
    <3>1. Persist(w.op) /\ UNCHANGED <<awsVars, faults>>
      BY <1>12, <2>1 DEF CallError, Persist
    <3> QED
      BY <3>1, <1>1, <1>3, <1>5
  <2>2. CASE w.op.phase = "New"
    <3> DEFINE op == Turn(w.op, "Initialization")
    <3>1. /\ op \in Objects /\ op.phase = "Initialization" /\ op.ver = w.op.ver
          /\ op.writer = w.op.writer /\ op.readers = w.op.readers
      BY <1>1 DEF Turn, Objects, Phases
    <3>2. Rank("Initialization") >= Rank(w.op.phase)
      BY <2>2 DEF Rank
    <3>3. Sound(op, w.e) /\ Advances(w.op, op)
      BY <3>1, <3>2, <2>2, <1>2 DEF Sound, Advances, Early, Late
    <3>4. Persist(op) /\ UNCHANGED <<awsVars, faults>>
      BY <1>12, <2>2 DEF CallError, Persist
    <3>5. Saves(op)
      BY <2>2, <3>1, <3>3, <3>4 DEF Saves
    <3> QED
      BY <3>4, <3>5, <1>1, <1>3
  <2> QED
    BY <2>1, <2>2
<1>13. CASE Initialization
  <2> DEFINE p(d) == IF d.readers = {} THEN "ScalingWriter" ELSE "ScalingReplicas"
             op(d) == [w.op EXCEPT !.writer = d.writer, !.readers = d.readers, !.phase = p(d)]
  <2>1. PICK d \in Descriptions : Persist(op(d))
    BY <1>13 DEF Initialization
  <2>2. /\ UNCHANGED <<awsVars, faults>>
        /\ w.op.phase \in {"New", "Initialization"} /\ ClassOf[w.e] # None
    BY <1>13 DEF Initialization, InPhase
  <2>3. d.writer \in members /\ d.readers = members \ {d.writer}
    BY <1>1 DEF Descriptions
  <2>4. /\ op(d) \in Objects /\ op(d).phase = p(d) /\ op(d).ver = w.op.ver
        /\ op(d).writer = d.writer /\ op(d).readers = d.readers
    BY <2>3, <1>1 DEF Objects, Phases
  <2>5. p(d) \notin Early /\ (p(d) \in Late => d.readers = {}) /\ p(d) \in Phases
    BY DEF Early, Late, Phases
  <2>6. Rank(p(d)) >= Rank(w.op.phase)
    <3>1. /\ Rank("ScalingWriter") >= Rank(w.op.phase)
          /\ Rank("ScalingReplicas") >= Rank(w.op.phase)
      BY <2>2 DEF Rank
    <3> QED
      BY <3>1
  <2>7. w.op.writer = None
    BY <2>2, <1>2 DEF Sound, Early
  <2> HIDE DEF p, op
  <2>8. Sound(op(d), w.e) /\ Advances(w.op, op(d))
    BY <2>2, <2>3, <2>4, <2>5, <2>6, <2>7, <1>1 DEF Sound, Advances
  <2>9. Saves(op(d))
    BY <2>1, <2>2, <2>4, <2>5, <2>8 DEF Saves, Early
  <2> QED
    BY <2>2, <2>9, <1>1, <1>3
<1>14. CASE ScalingReplicas
  <2>1. w.op.phase = "ScalingReplicas"
    BY <1>14 DEF ScalingReplicas, InPhase
  <2>2. w.op.phase \notin Early /\ Rank("WaitReplicas") >= Rank(w.op.phase)
    BY <2>1 DEF Rank, Early
  <2> PICK is \in SUBSET w.op.readers :
          /\ ModifyInstances(is, ClassOf[w.e])
          /\ Persist(IF is = w.op.readers THEN Turn(w.op, "WaitReplicas") ELSE w.op)
    BY <1>14 DEF ScalingReplicas
  <2>3. Persist(Turn(w.op, "WaitReplicas")) \/ Persist(w.op)
    BY DEF Persist
  <2>4. \E op : Saves(op)
    BY <2>1, <2>2, <2>3, <1>5, <1>7 DEF Phases, Early, Late
  <2> QED
    BY <1>14, <2>1, <2>4, <1>1, <1>8 DEF ScalingReplicas
<1>15. CASE WaitReplicas
  <2>1. w.op.phase = "WaitReplicas" /\ UNCHANGED <<awsVars, faults>>
    BY <1>15 DEF WaitReplicas, InPhase
  <2>2. w.op.phase \notin Early /\ Rank("PerformingFailover") >= Rank(w.op.phase)
    BY <2>1 DEF Rank, Early
  <2>3. \/ Persist(w.op)
        \/ /\ Persist(Turn(w.op, "PerformingFailover"))
           /\ \A i \in w.op.readers : class[i] = ClassOf[w.e]
    BY <1>15 DEF WaitReplicas, CheckInstancesAvailable, Persist
  <2>4. \E op : Saves(op)
    BY <2>1, <2>2, <2>3, <1>5, <1>7 DEF Phases, Early, Late
  <2> QED
    BY <2>1, <2>4, <1>1, <1>3
<1>16. CASE PerformingFailover
  <2>1. w.op.phase = "PerformingFailover" /\ Persist(Turn(w.op, "WaitWriterFailover"))
    BY <1>16 DEF PerformingFailover, InPhase
  <2>2. w.op.phase \notin Early /\ Rank("WaitWriterFailover") >= Rank(w.op.phase)
    BY <2>1 DEF Rank, Early
  <2>3. \E op : Saves(op)
    BY <2>1, <2>2, <1>2, <1>7 DEF Sound, Phases, Early, Late
  <2>4. Asks /\ failover' = TRUE
    BY <1>16, <1>1 DEF PerformingFailover, FailoverCluster, Asks
  <2> QED
    BY <1>16, <2>1, <2>3, <2>4, <1>1 DEF PerformingFailover
<1>17. CASE WaitWriterFailover
  <2>1. w.op.phase = "WaitWriterFailover" /\ UNCHANGED <<awsVars, faults>>
    BY <1>17 DEF WaitWriterFailover, InPhase
  <2>2. w.op.phase \notin Early /\ Rank("ScalingWriter") >= Rank(w.op.phase)
    BY <2>1 DEF Rank, Early
  <2>3. Persist(w.op) \/ Persist(Turn(w.op, "ScalingWriter"))
    BY <1>17, <2>2, <1>6 DEF WaitWriterFailover, Persist
  <2>4. \E op : Saves(op)
    BY <2>1, <2>2, <2>3, <1>2, <1>5, <1>7 DEF Sound, Phases, Early, Late
  <2> QED
    BY <2>1, <2>4, <1>1, <1>3
<1>18. CASE ScalingWriter
  <2>1. w.op.phase = "ScalingWriter"
    BY <1>18 DEF ScalingWriter, InPhase
  <2>2. w.op.phase \notin Early /\ Rank("WaitOldWriter") >= Rank(w.op.phase)
    BY <2>1 DEF Rank, Early
  <2> PICK d \in Descriptions : /\ ModifyInstances({Noted(w.op, d).writer}, ClassOf[w.e])
                                /\ Persist(Turn(Noted(w.op, d), "WaitOldWriter"))
    BY <1>18 DEF ScalingWriter
  <2>3. Persist(Turn(w.op, "WaitOldWriter"))
    BY <2>2, <1>6
  <2>4. \E op : Saves(op)
    BY <2>1, <2>2, <2>3, <1>2, <1>7 DEF Sound, Phases, Early, Late
  <2> QED
    BY <1>18, <2>1, <2>4, <1>1, <1>8 DEF ScalingWriter
<1>19. CASE WaitOldWriter
  <2>1. w.op.phase = "WaitOldWriter" /\ UNCHANGED <<awsVars, faults>>
    BY <1>19 DEF WaitOldWriter, InPhase
  <2>2. w.op.phase \notin Early
    BY <2>1 DEF Early
  <2>3. \/ Persist(w.op)
        \/ Done("Success") /\ class[w.op.writer] = ClassOf[w.e]
    BY <1>19, <2>2, <1>6 DEF WaitOldWriter, CheckInstancesAvailable, Persist
  <2> QED
    BY <2>1, <2>3, <1>1, <1>3, <1>5
<1> QED
  BY <1>9, <1>10, <1>11, <1>12, <1>13, <1>14, <1>15, <1>16, <1>17, <1>18, <1>19 DEF Handler

-----------------------------------------------------------------------------
(* The invariant holds when the operator starts. *)
LEMMA InvInit == Init => ScaleInv
<1> SUFFICES ASSUME Init PROVE ScaleInv
  OBVIOUS
<1> USE DEF Init, IdleWorker
<1>1. NewObject \in Objects
  BY DEF NewObject, Objects, Phases
<1>2. TypeOK
  <2>1. w \in Workers
    BY <1>1 DEF Workers
  <2>2. faults \in 0..MaxFaults /\ restarts \in 0..MaxRestarts
    BY ScaleAssumption
  <2>3. members \subseteq Instances /\ writer \in members /\ blind \in BOOLEAN
    BY ScaleAssumption
  <2> QED
    BY <2>1, <2>2, <2>3 DEF TypeOK
<1>3. WorkerHolds /\ OnlyCreated /\ NoneEndsUnreported
  BY DEF WorkerHolds, OnlyCreated, NoneEndsUnreported
<1>4. CopiesLag /\ AllSound /\ WantsAsked /\ OutcomesHold /\ SuccessMeansScaled
  BY DEF CopiesLag, AllSound, WantsAsked, OutcomesHold, SuccessMeansScaled
<1> QED
  BY <1>2, <1>3, <1>4 DEF ScaleInv, ReportInv

(* Whatever AWS does, at whatever time: as long as the executions agree on a *)
(* class, an instance that has it keeps it.                                  *)
LEMMA AwsKeepsInv == ScaleInv /\ Aws => ScaleInv'
<1> SUFFICES ASSUME ScaleInv, Aws PROVE ScaleInv'
  OBVIOUS
<1>0. UNCHANGED <<exec, cache, created, expired, aborted, queue, w, sent, target, restarts>>
  BY DEF Aws, apiVars
<1>1. UNCHANGED <<members, blind>>
  BY DEF Aws, AwsModify, AwsFailover, AwsOutage
<1>2. TypeOK'
  <2>1. CASE \E i \in Instances : AwsModify(i) /\ UNCHANGED faults
    BY <2>1, <1>0, <1>1 DEF AwsModify, TypeOK, ScaleInv, ReportInv
  <2>2. CASE AwsFailover /\ UNCHANGED faults
    BY <2>2, <1>0, <1>1 DEF AwsFailover, TypeOK, ScaleInv, ReportInv
  <2>3. CASE AwsOutage
    BY <2>3, <1>0, <1>1, ScaleAssumption DEF AwsOutage, TypeOK, ScaleInv, ReportInv
  <2> QED
    BY <2>1, <2>2, <2>3 DEF Aws
<1>3. WantsAsked'
  BY <1>0 DEF Aws, AwsModify, AwsFailover, AwsOutage, WantsAsked, TypeOK, ScaleInv, ReportInv
<1>4. ASSUME NEW e \in created, Agreed, NEW i \in Instances,
             class[i] = ClassOf[e]
      PROVE  class'[i] = ClassOf[e]
  <2>1. \/ class' = class
        \/ \E j \in Instances : want[j] # None /\ class' = [class EXCEPT ![j] = want[j]]
    BY DEF Aws, AwsModify, AwsFailover, AwsOutage
  <2>2. class[i] # None /\ e \in Executions /\ class \in [Instances -> Classes]
    BY ScaleAssumption DEF TypeOK, ScaleInv, ReportInv
  <2>3. want[i] # None => want[i] = ClassOf[e]
    BY <1>4, <2>2 DEF WantsAsked, ScaleInv, Agreed
  <2> QED
    BY <1>4, <2>1, <2>2, <2>3
<1>5. ASSUME NEW o \in Objects, NEW e \in created, Sound(o, e) PROVE Sound(o, e)'
  BY <1>5, <1>4, <1>0, <1>1 DEF Sound, Agreed, Objects
<1>6. AllSound'
  BY <1>5, <1>0 DEF AllSound, ScaleInv, ReportInv, TypeOK, OnlyCreated, WorkerHolds, Workers
<1>7. SuccessMeansScaled'
  BY <1>4, <1>0, <1>1 DEF SuccessMeansScaled, Agreed, ScaleInv, ReportInv, TypeOK, WorkerHolds
<1>8. (WorkerHolds /\ OnlyCreated /\ NoneEndsUnreported)'
  BY <1>0 DEF WorkerHolds, OnlyCreated, NoneEndsUnreported, ScaleInv, ReportInv
<1>9. (CopiesLag /\ OutcomesHold)'
  BY <1>0 DEF CopiesLag, OutcomesHold, InLastPhase, ScaleInv
<1> QED
  BY <1>2, <1>3, <1>6, <1>7, <1>8, <1>9 DEF ScaleInv, ReportInv

(* What users, watch events and time do keeps the invariant: objects are     *)
(* created once, and the cache only ever moves on.                           *)
LEMMA ApiKeepsInv ==
    ASSUME ScaleInv, NEW e \in Executions,
           Create(e) \/ UserDelete(e) \/ CacheSync(e) \/ Expire(e)
    PROVE  ScaleInv'
<1>0. UNCHANGED <<w, sent, target, members, blind, writer, class, want, avail, failover, restarts>>
  BY DEF Create, UserDelete, CacheSync, Expire, awsVars
<1>1. /\ TypeOK /\ WorkerHolds /\ OnlyCreated /\ NoneEndsUnreported /\ CopiesLag
      /\ AllSound /\ WantsAsked /\ OutcomesHold /\ SuccessMeansScaled
  BY DEF ScaleInv, ReportInv
<1>2. NewObject \in Objects /\ NewObject # None /\ NewObject.phase = "New" /\ NewObject.writer = None
  BY ScaleAssumption DEF NewObject, Objects, Phases
<1>3. CASE Create(e)
  <2>1. /\ e \notin created /\ created' = created \cup {e}
        /\ exec' = [exec EXCEPT ![e] = NewObject]
        /\ UNCHANGED <<cache, expired, aborted, queue, faults>>
    BY <1>3 DEF Create
  <2>2. cache[e] = None /\ sent[e] = {} /\ (w.pc # "idle" => w.e # e)
    BY <1>1, <2>1 DEF OnlyCreated, WorkerHolds
  <2>3. Agreed' => Agreed
    BY <2>1 DEF Agreed
  <2>4. TypeOK'
    BY <1>0, <1>1, <1>2, <2>1 DEF TypeOK
  <2>5. WorkerHolds' /\ OnlyCreated' /\ NoneEndsUnreported' /\ WantsAsked'
    BY <1>0, <1>1, <1>2, <2>1 DEF TypeOK, WorkerHolds, OnlyCreated, NoneEndsUnreported, WantsAsked
  <2>6. CopiesLag'
    BY <1>0, <1>1, <2>1, <2>2 DEF CopiesLag, TypeOK, WorkerHolds
  <2>7. AllSound'
    <3>1. Sound(NewObject, e)'
      BY <1>2 DEF Sound, Early, Late
    <3>2. ASSUME NEW o, NEW f, Sound(o, f) PROVE Sound(o, f)'
      BY <3>2, <2>3, <1>0 DEF Sound
    <3> QED
      BY <1>0, <1>1, <2>1, <3>1, <3>2 DEF AllSound, TypeOK
  <2>8. OutcomesHold'
    BY <1>0, <1>1, <2>1, <2>2 DEF OutcomesHold, InLastPhase, TypeOK
  <2>9. SuccessMeansScaled'
    BY <1>0, <1>1, <2>3 DEF SuccessMeansScaled
  <2> QED
    BY <2>4, <2>5, <2>6, <2>7, <2>8, <2>9 DEF ScaleInv, ReportInv
<1>4. CASE UserDelete(e)
  <2>1. /\ exec[e] # None /\ exec' = [exec EXCEPT ![e] = None]
        /\ aborted' = aborted \cup {e} /\ faults < MaxFaults /\ faults' = faults + 1
        /\ UNCHANGED <<cache, created, expired, queue>>
    BY <1>4 DEF UserDelete
  <2>2. TypeOK'
    BY <1>0, <1>1, <2>1, ScaleAssumption DEF TypeOK, OnlyCreated
  <2>3. WorkerHolds' /\ OnlyCreated' /\ NoneEndsUnreported' /\ WantsAsked'
    BY <1>0, <1>1, <2>1 DEF TypeOK, WorkerHolds, OnlyCreated, NoneEndsUnreported, WantsAsked
  <2>4. CopiesLag' /\ OutcomesHold'
    BY <1>0, <1>1, <2>1 DEF CopiesLag, OutcomesHold, InLastPhase, TypeOK, WorkerHolds
  <2>5. AllSound' /\ SuccessMeansScaled'
    BY <1>0, <1>1, <2>1 DEF AllSound, Sound, Agreed, SuccessMeansScaled, TypeOK
  <2> QED
    BY <2>2, <2>3, <2>4, <2>5 DEF ScaleInv, ReportInv
<1>5. CASE CacheSync(e)
  <2>1. /\ cache' = [cache EXCEPT ![e] = exec[e]] /\ queue' = queue \cup {e}
        /\ UNCHANGED <<exec, created, expired, aborted, faults>>
    BY <1>5 DEF CacheSync
  <2>2. TypeOK'
    BY <1>0, <1>1, <2>1 DEF TypeOK
  <2>3. WorkerHolds' /\ OnlyCreated' /\ NoneEndsUnreported' /\ WantsAsked'
    BY <1>0, <1>1, <2>1 DEF TypeOK, WorkerHolds, OnlyCreated, NoneEndsUnreported, WantsAsked
  <2>4. CopiesLag'
    <3>1. \A o \in Objects : CopyOf(o, o)
      BY RankValues DEF CopyOf, Objects
    <3> QED
      BY <1>0, <1>1, <2>1, <3>1 DEF CopiesLag, TypeOK, WorkerHolds, CopyOf
  <2>5. OutcomesHold'
    BY <1>0, <1>1, <2>1 DEF OutcomesHold, InLastPhase, TypeOK
  <2>6. AllSound' /\ SuccessMeansScaled'
    BY <1>0, <1>1, <2>1 DEF AllSound, Sound, Agreed, SuccessMeansScaled, TypeOK
  <2> QED
    BY <2>2, <2>3, <2>4, <2>5, <2>6 DEF ScaleInv, ReportInv
<1>6. CASE Expire(e)
  <2>1. /\ e \in created /\ expired' = expired \cup {e}
        /\ UNCHANGED <<exec, cache, created, aborted, queue, faults>>
    BY <1>6 DEF Expire
  <2>2. TypeOK'
    BY <1>0, <1>1, <2>1 DEF TypeOK
  <2>3. WorkerHolds' /\ OnlyCreated' /\ NoneEndsUnreported' /\ WantsAsked' /\ CopiesLag'
    BY <1>0, <1>1, <2>1 DEF WorkerHolds, OnlyCreated, NoneEndsUnreported, WantsAsked, CopiesLag
  <2>4. OutcomesHold' /\ AllSound' /\ SuccessMeansScaled'
    BY <1>0, <1>1, <2>1 DEF OutcomesHold, InLastPhase, AllSound, Sound, Agreed,
                            SuccessMeansScaled
  <2> QED
    BY <2>2, <2>3, <2>4 DEF ScaleInv, ReportInv
<1> QED
  BY <1>3, <1>4, <1>5, <1>6

(* The worker reads an execution from the cache, or finds nothing to do.    *)
LEMMA FetchKeepsInv == ASSUME ScaleInv, NEW e \in Executions, Fetch(e) PROVE ScaleInv'
<1>0. /\ UNCHANGED <<exec, cache, created, expired, aborted, sent, target>>
      /\ UNCHANGED <<members, blind, writer, class, want, avail, failover, faults, restarts>>
      /\ w.pc = "idle" /\ queue' = queue \ {e}
  BY DEF Fetch, apiVars, awsVars
<1>1. /\ TypeOK /\ WorkerHolds /\ OnlyCreated /\ NoneEndsUnreported /\ CopiesLag
      /\ AllSound /\ WantsAsked /\ OutcomesHold /\ SuccessMeansScaled
  BY DEF ScaleInv, ReportInv
<1>2. \/ w' = w
      \/ /\ w' = [pc |-> "report", e |-> e, op |-> cache[e], outcome |-> "Timeout"]
         /\ cache[e] # None /\ e \in expired
      \/ /\ w' = [pc |-> "execute", e |-> e, op |-> cache[e], outcome |-> None]
         /\ cache[e] # None /\ e \notin expired
  BY DEF Fetch, TimedOut
<1>3. cache[e] # None => cache[e] \in Objects /\ e \in created
  BY <1>1 DEF TypeOK, OnlyCreated
<1>4. TypeOK'
  <2>1. w' \in Workers
    BY <1>1, <1>2, <1>3 DEF TypeOK, Workers, Outcomes
  <2> QED
    BY <1>0, <1>1, <2>1 DEF TypeOK
<1>5. WorkerHolds' /\ OnlyCreated' /\ NoneEndsUnreported' /\ WantsAsked'
  BY <1>0, <1>1, <1>2, <1>3 DEF WorkerHolds, OnlyCreated, NoneEndsUnreported, WantsAsked, Outcomes
<1>6. CopiesLag'
  <2>1. cache[e] # None => Rank(cache[e].phase) <= Rank(cache[e].phase)
    BY <1>3, RankValues DEF Objects
  <2> QED
    BY <1>0, <1>1, <1>2, <2>1 DEF CopiesLag
<1>7. AllSound'
  BY <1>0, <1>1, <1>2 DEF AllSound, Sound, Agreed
<1>8. OutcomesHold'
  BY <1>0, <1>1, <1>2 DEF OutcomesHold, InLastPhase
<1>9. SuccessMeansScaled'
  BY <1>0, <1>1, <1>2 DEF SuccessMeansScaled, Agreed
<1> QED
  BY <1>4, <1>5, <1>6, <1>7, <1>8, <1>9 DEF ScaleInv, ReportInv

(* A phase of the handler keeps the invariant: what it makes of its copy is  *)
(* an advance on that copy, and it succeeds only where all is scaled.        *)
LEMMA HandlerKeepsInv == ScaleInv /\ Handler => ScaleInv'
<1> SUFFICES ASSUME ScaleInv, Handler PROVE ScaleInv'
  OBVIOUS
<1>1. /\ TypeOK /\ WorkerHolds /\ OnlyCreated /\ NoneEndsUnreported /\ CopiesLag
      /\ AllSound /\ WantsAsked /\ OutcomesHold /\ SuccessMeansScaled
  BY DEF ScaleInv, ReportInv
<1>2. Sound(w.op, w.e) /\ w.e \in created /\ w.pc = "execute"
  BY <1>1, HandlerEffect DEF AllSound, WorkerHolds
<1>3. /\ w.e \in Executions
      /\ want' \in [Instances -> Classes \cup {None}]
      /\ \A i \in Instances : want'[i] \in {want[i], None, ClassOf[w.e]}
      /\ failover' \in BOOLEAN /\ faults' \in 0..MaxFaults
      /\ UNCHANGED <<exec, cache, created, expired, aborted>>
      /\ UNCHANGED <<queue, sent, target, restarts, members, blind, writer, class, avail>>
  BY <1>1, HandlerEffect DEF AllSound, apiVars
<1>4. WantsAsked'
  BY <1>1, <1>2, <1>3 DEF WantsAsked
<1>5. OnlyCreated' /\ NoneEndsUnreported'
  BY <1>1, <1>3 DEF OnlyCreated, NoneEndsUnreported
<1>6. \/ \E op \in Objects :
            /\ Persist(op)
            /\ op.ver = w.op.ver /\ Advances(w.op, op) /\ Sound(op, w.e)
            /\ w.op.phase = "WaitOldWriter" => op.phase = "WaitOldWriter"
      \/ Done("Error")
      \/ /\ Done("Success")
         /\ w.op.phase = "WaitOldWriter" /\ class[w.op.writer] = ClassOf[w.e]
  BY <1>1, HandlerEffect DEF AllSound
<1>7. ASSUME NEW op \in Objects, Persist(op), op.ver = w.op.ver, Advances(w.op, op),
             Sound(op, w.e), w.op.phase = "WaitOldWriter" => op.phase = "WaitOldWriter"
      PROVE  ScaleInv'
  <2>1. w' = [w EXCEPT !.pc = "persist", !.op = op]
    BY <1>7 DEF Persist
  <2>2. w' \in Workers /\ w'.pc = "persist" /\ w'.e = w.e /\ w'.op = op
    BY <1>1, <2>1 DEF TypeOK, Workers
  <2>3. TypeOK' /\ WorkerHolds'
    BY <1>1, <1>2, <1>3, <2>2 DEF TypeOK, WorkerHolds
  <2>4. CopiesLag'
    <3>1. exec[w.e] # None => CopyOf(w.op, exec[w.e])
      BY <1>1, <1>2 DEF CopiesLag
    <3> QED
      BY <1>1, <1>3, <1>7, <2>2, <3>1 DEF CopiesLag, CopyOf
  <2>5. AllSound'
    BY <1>1, <1>3, <1>7, <2>2 DEF AllSound, Sound, Agreed
  <2>6. OutcomesHold' /\ SuccessMeansScaled'
    BY <1>1, <1>2, <1>3, <1>7, <2>2 DEF OutcomesHold, InLastPhase, SuccessMeansScaled
  <2> QED
    BY <1>4, <1>5, <2>3, <2>4, <2>5, <2>6 DEF ScaleInv, ReportInv
<1>8. ASSUME NEW out \in {"Error", "Success"}, Done(out),
             out = "Success" => /\ w.op.phase = "WaitOldWriter"
                                /\ class[w.op.writer] = ClassOf[w.e]
      PROVE  ScaleInv'
  <2>1. w' = [w EXCEPT !.pc = "report", !.outcome = out]
    BY <1>8 DEF Done
  <2>2. /\ w' \in Workers /\ w'.pc = "report" /\ w'.e = w.e /\ w'.op = w.op
        /\ w'.outcome = out /\ out \in Outcomes /\ out # "Timeout"
    BY <1>1, <2>1 DEF TypeOK, Workers, Outcomes
  <2>3. TypeOK' /\ WorkerHolds'
    BY <1>1, <1>2, <1>3, <2>2 DEF TypeOK, WorkerHolds
  <2>4. CopiesLag' /\ AllSound'
    BY <1>1, <1>2, <1>3, <2>2 DEF CopiesLag, AllSound, Sound, Agreed
  <2>5. OutcomesHold'
    BY <1>1, <1>2, <1>3, <1>8, <2>2 DEF OutcomesHold, InLastPhase
  <2>6. SuccessMeansScaled'
    <3>1. ASSUME Agreed, out = "Success", NEW i \in members
          PROVE  class[i] = ClassOf[w.e]
      BY <3>1, <1>2, <1>8 DEF Sound, Early, Late
    <3> QED
      BY <1>3, <2>2, <3>1 DEF SuccessMeansScaled, Agreed
  <2> QED
    BY <1>4, <1>5, <2>3, <2>4, <2>5, <2>6 DEF ScaleInv, ReportInv
<1> QED
  BY <1>6, <1>7, <1>8

(* Saving, reporting and deleting keep the invariant: a stale copy is        *)
(* refused, and what is deleted was reported.                                *)
LEMMA SaveKeepsInv == ScaleInv /\ (UpdateStatus \/ FinalizeAction \/ Delete) => ScaleInv'
<1> SUFFICES ASSUME ScaleInv, UpdateStatus \/ FinalizeAction \/ Delete PROVE ScaleInv'
  OBVIOUS
<1>0. /\ UNCHANGED <<cache, created, expired, aborted, restarts>>
      /\ UNCHANGED <<members, blind, writer, class, want, avail, failover>>
  BY DEF UpdateStatus, FinalizeAction, Delete, awsVars, apiVars
<1>1. /\ TypeOK /\ WorkerHolds /\ OnlyCreated /\ NoneEndsUnreported /\ CopiesLag
      /\ AllSound /\ WantsAsked /\ OutcomesHold /\ SuccessMeansScaled
  BY DEF ScaleInv, ReportInv
<1>2. w.e \in created /\ w.e \in Executions /\ w \in Workers /\ w.op \in Objects /\ w.pc # "idle"
  BY <1>1 DEF UpdateStatus, FinalizeAction, Delete, WorkerHolds, TypeOK, Workers
<1>3. WantsAsked'
  BY <1>0, <1>1 DEF WantsAsked
<1>4. IdleWorker \in Workers /\ IdleWorker.pc = "idle"
  BY DEF IdleWorker, Workers, NewObject, Objects, Phases
<1>5. CASE UpdateStatus
  <2> DEFINE cur == exec[w.e]
             saved == IF w.op = cur THEN cur ELSE [w.op EXCEPT !.ver = cur.ver + 1]
  <2>1. /\ w.pc = "persist" /\ w' = IdleWorker /\ UNCHANGED <<sent, target>>
        /\ queue' = queue \/ queue' = queue \cup {w.e}
        /\ faults' = faults \/ (faults < MaxFaults /\ faults' = faults + 1)
    BY <1>5 DEF UpdateStatus, Retry
  <2>2. \/ exec' = exec
        \/ cur # None /\ w.op.ver = cur.ver /\ exec' = [exec EXCEPT ![w.e] = saved]
    BY <1>5 DEF UpdateStatus, Stale
  <2>3. ASSUME cur # None, w.op.ver = cur.ver
        PROVE  /\ saved \in Objects /\ saved # None
               /\ saved.phase = w.op.phase /\ saved.writer = w.op.writer
               /\ saved.readers = w.op.readers
               /\ saved = cur \/ saved.ver = cur.ver + 1
               /\ Rank(saved.phase) >= Rank(cur.phase)
    <3>1. cur \in Objects
      BY <1>1, <1>2, <2>3 DEF TypeOK
    <3>2. saved \in Objects /\ saved.phase = w.op.phase /\ saved.writer = w.op.writer
          /\ saved.readers = w.op.readers /\ (saved = cur \/ saved.ver = cur.ver + 1)
      BY <3>1, <1>2 DEF Objects
    <3>3. Advances(cur, w.op)
      BY <1>1, <2>1, <2>3 DEF CopiesLag
    <3> QED
      BY <3>2, <3>3, ScaleAssumption DEF Advances
  <2> HIDE DEF saved
  <2>4. TypeOK'
    BY <1>0, <1>1, <1>2, <1>4, <2>1, <2>2, <2>3, ScaleAssumption DEF TypeOK
  <2>5. WorkerHolds' /\ OnlyCreated' /\ NoneEndsUnreported'
    BY <1>0, <1>1, <1>2, <1>4, <2>1, <2>2, <2>3
       DEF WorkerHolds, OnlyCreated, NoneEndsUnreported, TypeOK
  <2>6. CopiesLag'
    <3>1. ASSUME cur # None, w.op.ver = cur.ver, cache[w.e] # None
          PROVE  CopyOf(cache[w.e], saved)
      <4>1. /\ cur \in Objects /\ cache[w.e] \in Objects /\ saved \in Objects
            /\ CopyOf(cache[w.e], cur)
        BY <3>1, <2>3, <1>1, <1>2 DEF TypeOK, CopiesLag
      <4>2. /\ cur.ver \in Nat /\ cache[w.e].ver \in Nat /\ saved.ver \in Nat
            /\ Rank(cur.phase) \in 0..7 /\ Rank(cache[w.e].phase) \in 0..7
            /\ Rank(saved.phase) \in 0..7
        BY <4>1, RankValues DEF Objects
      <4> QED
        BY <4>1, <4>2, <3>1, <2>3 DEF CopyOf
    <3> QED
      BY <1>0, <1>1, <1>2, <1>4, <2>1, <2>2, <3>1 DEF CopiesLag, TypeOK
  <2>7. AllSound'
    <3>1. Sound(w.op, w.e)
      BY <1>1, <1>2 DEF AllSound
    <3>2. cur # None /\ w.op.ver = cur.ver => Sound(saved, w.e)
      BY <2>3, <3>1 DEF Sound
    <3>3. \A o, f : Sound(o, f)' <=> Sound(o, f)
      BY <1>0 DEF Sound, Agreed
    <3> QED
      BY <1>0, <1>1, <1>2, <1>4, <2>1, <2>2, <3>2, <3>3 DEF AllSound, TypeOK
  <2>8. OutcomesHold' /\ SuccessMeansScaled'
    BY <1>0, <1>1, <1>2, <1>4, <2>1, <2>2, <2>3
       DEF OutcomesHold, InLastPhase, SuccessMeansScaled, TypeOK
  <2> QED
    BY <1>3, <2>4, <2>5, <2>6, <2>7, <2>8 DEF ScaleInv, ReportInv
<1>6. CASE FinalizeAction
  <2>1. /\ w.pc = "report" /\ w' = [w EXCEPT !.pc = "delete"]
        /\ sent' = [sent EXCEPT ![w.e] = @ \cup {w.outcome}]
        /\ target' \in {target, w.outcome} /\ UNCHANGED <<exec, queue, faults>>
    BY <1>6 DEF FinalizeAction, apiVars
  <2>2. /\ w' \in Workers /\ w'.pc = "delete" /\ w'.e = w.e /\ w'.op = w.op
        /\ w.outcome \in Outcomes
    BY <1>1, <1>2, <2>1 DEF Workers, WorkerHolds
  <2>3. TypeOK'
    BY <1>0, <1>1, <1>2, <2>1, <2>2 DEF TypeOK
  <2>4. WorkerHolds' /\ OnlyCreated' /\ NoneEndsUnreported'
    BY <1>0, <1>1, <1>2, <2>1, <2>2
       DEF WorkerHolds, OnlyCreated, NoneEndsUnreported, TypeOK
  <2>5. CopiesLag' /\ AllSound'
    BY <1>0, <1>1, <1>2, <2>1, <2>2 DEF CopiesLag, AllSound, Sound, Agreed
  <2>6. ASSUME w.outcome = "Success" PROVE InLastPhase(w.e)
    <3>1. w.op.phase = "WaitOldWriter" /\ Rank(w.op.phase) = 7
      BY <2>6, <1>1, <2>1, RankValues DEF OutcomesHold
    <3>2. ASSUME NEW o \in Objects, Rank(w.op.phase) <= Rank(o.phase)
          PROVE  o.phase = "WaitOldWriter"
      <4>1. o.phase \in Phases /\ Rank(o.phase) \in 0..7
        BY RankValues DEF Objects
      <4>2. Rank(o.phase) = 7
        BY <3>1, <3>2, <4>1
      <4> QED
        BY <4>1, <4>2, RankValues
    <3>3. /\ cache[w.e] # None => Rank(w.op.phase) <= Rank(cache[w.e].phase)
          /\ exec[w.e] # None => Rank(w.op.phase) <= Rank(exec[w.e].phase)
      BY <1>1, <2>1 DEF CopiesLag, CopyOf
    <3> QED
      BY <3>1, <3>2, <3>3, <1>1, <1>2 DEF InLastPhase, TypeOK
  <2>7. OutcomesHold' /\ SuccessMeansScaled'
    BY <1>0, <1>1, <1>2, <2>1, <2>2, <2>6
       DEF OutcomesHold, InLastPhase, SuccessMeansScaled, TypeOK, Outcomes
  <2> QED
    BY <1>3, <2>3, <2>4, <2>5, <2>7 DEF ScaleInv, ReportInv
<1>7. CASE Delete
  <2>1. /\ w.pc = "delete" /\ w' = IdleWorker /\ UNCHANGED <<sent, target>>
        /\ exec' = exec \/ exec' = [exec EXCEPT ![w.e] = None]
        /\ queue' = queue \/ queue' = queue \cup {w.e}
        /\ faults' = faults \/ (faults < MaxFaults /\ faults' = faults + 1)
    BY <1>7 DEF Delete, Retry
  <2>2. TypeOK'
    BY <1>0, <1>1, <1>2, <1>4, <2>1, ScaleAssumption DEF TypeOK
  <2>3. WorkerHolds' /\ OnlyCreated' /\ NoneEndsUnreported'
    BY <1>0, <1>1, <1>2, <1>4, <2>1
       DEF WorkerHolds, OnlyCreated, NoneEndsUnreported, TypeOK
  <2>4. CopiesLag' /\ AllSound'
    BY <1>0, <1>1, <1>2, <1>4, <2>1 DEF CopiesLag, AllSound, Sound, Agreed, TypeOK
  <2>5. OutcomesHold' /\ SuccessMeansScaled'
    BY <1>0, <1>1, <1>2, <1>4, <2>1
       DEF OutcomesHold, InLastPhase, SuccessMeansScaled, TypeOK
  <2> QED
    BY <1>3, <2>2, <2>3, <2>4, <2>5 DEF ScaleInv, ReportInv
<1> QED
  BY <1>5, <1>6, <1>7

(* A crash loses the worker and renews the cache. *)
LEMMA RestartKeepsInv == ScaleInv /\ Restart => ScaleInv'
<1> SUFFICES ASSUME ScaleInv, Restart PROVE ScaleInv'
  OBVIOUS
<1>0. /\ UNCHANGED <<exec, created, expired, aborted, sent, target, faults>>
      /\ UNCHANGED <<members, blind, writer, class, want, avail, failover>>
      /\ w' = IdleWorker /\ cache' = exec /\ queue' = {e \in Executions : exec[e] # None}
      /\ restarts < MaxRestarts /\ restarts' = restarts + 1
  BY DEF Restart, awsVars
<1>1. /\ TypeOK /\ WorkerHolds /\ OnlyCreated /\ NoneEndsUnreported /\ CopiesLag
      /\ AllSound /\ WantsAsked /\ OutcomesHold /\ SuccessMeansScaled
  BY DEF ScaleInv, ReportInv
<1>2. IdleWorker \in Workers /\ IdleWorker.pc = "idle"
  BY DEF IdleWorker, Workers, NewObject, Objects, Phases
<1>3. TypeOK'
  BY <1>0, <1>1, <1>2, ScaleAssumption DEF TypeOK
<1>4. WorkerHolds' /\ OnlyCreated' /\ NoneEndsUnreported' /\ WantsAsked'
  BY <1>0, <1>1, <1>2 DEF WorkerHolds, OnlyCreated, NoneEndsUnreported, WantsAsked
<1>5. CopiesLag'
  <2>1. \A o \in Objects : CopyOf(o, o)
    BY RankValues DEF CopyOf, Objects
  <2> QED
    BY <1>0, <1>1, <1>2, <2>1 DEF CopiesLag, TypeOK
<1>6. AllSound' /\ OutcomesHold' /\ SuccessMeansScaled'
  BY <1>0, <1>1, <1>2 DEF AllSound, Sound, Agreed, OutcomesHold, InLastPhase,
                          SuccessMeansScaled
<1> QED
  BY <1>3, <1>4, <1>5, <1>6 DEF ScaleInv, ReportInv

(* Every step of the specification, and a stutter, keeps the invariant. *)
LEMMA InvStep == ScaleInv /\ [Next]_vars => ScaleInv'
<1> SUFFICES ASSUME ScaleInv, [Next]_vars PROVE ScaleInv'
  OBVIOUS
<1>1. CASE UNCHANGED vars
  <2>1. /\ UNCHANGED <<exec, cache, created, expired, aborted, queue, w, sent, target>>
        /\ UNCHANGED <<members, blind, writer, class, want, avail, failover, faults, restarts>>
    BY <1>1 DEF vars, apiVars, awsVars
  <2>2. ReportInv'
    BY <2>1 DEF ScaleInv, ReportInv, TypeOK, WorkerHolds, OnlyCreated, NoneEndsUnreported
  <2>3. (CopiesLag /\ AllSound /\ WantsAsked)'
    BY <2>1 DEF ScaleInv, CopiesLag, AllSound, Sound, Agreed, WantsAsked
  <2>4. (OutcomesHold /\ SuccessMeansScaled)'
    BY <2>1 DEF ScaleInv, OutcomesHold, InLastPhase, SuccessMeansScaled, Agreed
  <2> QED
    BY <2>2, <2>3, <2>4 DEF ScaleInv
<1>2. CASE Worker
  BY <1>2, FetchKeepsInv, HandlerKeepsInv, SaveKeepsInv DEF Worker
<1> QED
  BY <1>1, <1>2, AwsKeepsInv, ApiKeepsInv, RestartKeepsInv DEF Next

-----------------------------------------------------------------------------
(* The invariant holds always. *)
THEOREM InvAlways == Spec => []ScaleInv
  BY InvInit, InvStep, PTL DEF Spec

(* Type correctness of the controller, the cache and the cluster. *)
THEOREM TypeCorrect == Spec => []TypeOK
<1>1. ScaleInv => TypeOK
  BY DEF ScaleInv, ReportInv
<1> QED
  BY <1>1, InvAlways, PTL

(* No execution disappears unreported, but for one a user deletes: the       *)
(* worker deletes only what finalizeAction has reported                      *)
(* (actionexecution_controller.go:89-90, 122-123).                           *)
THEOREM NoneUnreported == Spec => []NoneEndsUnreported
<1>1. ScaleInv => NoneEndsUnreported
  BY DEF ScaleInv, ReportInv
<1> QED
  BY <1>1, InvAlways, PTL

(* Success is reported only of a cluster all of which has the class asked    *)
(* for, if the executions agree on it (generic_scale.go:93-109, 168-187).    *)
THEOREM SuccessIsTrue == Spec => []SuccessMeansScaled
<1>1. ScaleInv => SuccessMeansScaled
  BY DEF ScaleInv
<1> QED
  BY <1>1, InvAlways, PTL

(* Where a step may write the objects: a creation, of an execution that has  *)
(* none; a deletion; or a save, which follows from the saved version.        *)
LEMMA WritesAdvance ==
    ASSUME ScaleInv, [Next]_vars, NEW e \in Executions, exec[e] # None, exec'[e] # None
    PROVE  Advances(exec[e], exec'[e])
<1>1. TypeOK /\ WorkerHolds /\ OnlyCreated /\ CopiesLag /\ exec[e] \in Objects
  BY DEF ScaleInv, ReportInv, TypeOK
<1>2. \A o \in Objects : Advances(o, o)
  BY RankValues DEF Advances, Objects
<1>3. CASE exec'[e] = exec[e]
  BY <1>1, <1>2, <1>3
<1>4. CASE UpdateStatus
  <2>1. w.pc = "persist" /\ w.op \in Objects
    BY <1>1, <1>4 DEF UpdateStatus, TypeOK, Workers
  <2>2. CASE exec' = exec
    BY <2>2, <1>3
  <2>3. CASE /\ w.op.ver = exec[w.e].ver
             /\ exec' = [exec EXCEPT ![w.e] = IF w.op = exec[w.e] THEN exec[w.e]
                                              ELSE [w.op EXCEPT !.ver = exec[w.e].ver + 1]]
    <3>1. CASE e # w.e
      BY <1>1, <1>3, <2>3, <3>1 DEF TypeOK
    <3>2. CASE e = w.e
      <4>1. /\ exec'[e].phase = w.op.phase /\ exec'[e].writer = w.op.writer
            /\ exec'[e].readers = w.op.readers
        BY <1>1, <2>1, <2>3, <3>2 DEF TypeOK, Objects
      <4>2. Advances(exec[e], w.op)
        BY <1>1, <2>1, <2>3, <3>2 DEF CopiesLag
      <4> QED
        BY <4>1, <4>2 DEF Advances
    <3> QED
      BY <3>1, <3>2
  <2> QED
    BY <2>2, <2>3, <1>4 DEF UpdateStatus, Stale
<1>5. CASE Delete
  BY <1>1, <1>3, <1>5 DEF Delete, TypeOK
<1>6. ASSUME NEW f \in Executions, Create(f) \/ UserDelete(f) PROVE exec'[e] = exec[e]
  BY <1>1, <1>6 DEF Create, UserDelete, OnlyCreated, TypeOK
<1>7. CASE Aws \/ Restart \/ FinalizeAction \/ UNCHANGED vars
  BY <1>7, <1>3 DEF Aws, Restart, FinalizeAction, vars, apiVars
<1>8. ASSUME NEW f \in Executions, CacheSync(f) \/ Expire(f) \/ Fetch(f) PROVE exec' = exec
  BY <1>8 DEF CacheSync, Expire, Fetch, apiVars
<1>9. CASE Handler
  <2>1. exec' = exec
    BY <1>9, HandlerEffect DEF ScaleInv, ReportInv, AllSound, apiVars
  <2> QED
    BY <2>1, <1>3
<1> QED
  BY <1>3, <1>4, <1>5, <1>6, <1>7, <1>8, <1>9 DEF Next, Worker

(* The saved phase only moves forward, and what was noted of the cluster is  *)
(* never overwritten: the resourceVersion refuses whatever a lagging cache,  *)
(* a lost save or a crash made stale (actionexecution_controller.go:130-136).*)
THEOREM PhaseAdvances == Spec => SavedPhaseAdvances
<1>1. ScaleInv /\ [Next]_vars =>
          [\A e \in Executions :
              exec[e] # None /\ exec'[e] # None =>
                  /\ Rank(exec'[e].phase) >= Rank(exec[e].phase)
                  /\ exec[e].writer # None =>
                        /\ exec'[e].writer = exec[e].writer
                        /\ exec'[e].readers = exec[e].readers]_vars
  BY WritesAdvance DEF Advances
<1> QED
  BY <1>1, InvAlways, PTL DEF Spec, SavedPhaseAdvances

(* Only the handler asks for a failover. *)
LEMMA OnlyHandlerFailsOver ==
    ASSUME [Next]_vars, failover', ~failover
    PROVE  Handler
  BY DEF Next, vars, awsVars, Aws, AwsModify, AwsFailover, AwsOutage, Create, UserDelete,
         CacheSync, Expire, Worker, Fetch, UpdateStatus, FinalizeAction, Delete, Restart

(* A failover is asked for only once every instance it can go to has the     *)
(* class asked for, the noted writer excepted: WaitReplicas saw it of all    *)
(* the others, and no execution asks for another class                       *)
(* (generic_scale.go:93-119).                                                *)
THEOREM FailoverPrepared == Spec => FailoverIsPrepared
<1>1. ASSUME ScaleInv, [Next]_vars, Agreed, failover', ~failover
      PROVE  \A i \in members \ {writer} : class[i] = ClassOf[w.e] \/ i = w.op.writer
  <2>1. Handler
    BY <1>1, OnlyHandlerFailsOver
  <2>2. w.pc = "execute" /\ w.op.phase = "PerformingFailover"
    BY <1>1, <2>1, HandlerEffect DEF ScaleInv, ReportInv, AllSound
  <2>3. /\ members \subseteq w.op.readers \cup {w.op.writer}
        /\ \A i \in w.op.readers : class[i] = ClassOf[w.e]
    BY <1>1, <2>2 DEF ScaleInv, AllSound, Sound, Early, Late
  <2> QED
    BY <2>3
<1>2. ScaleInv /\ [Next]_vars =>
          [Agreed /\ failover' /\ ~failover =>
              \A i \in members \ {writer} : class[i] = ClassOf[w.e] \/ i = w.op.writer]_vars
  BY <1>1
<1> QED
  BY <1>2, InvAlways, PTL DEF Spec, FailoverIsPrepared

(* In "execute" the worker moves only by a phase of the handler or a crash. *)
LEMMA ExecutingMoves ==
    ASSUME [Next]_vars, w.pc = "execute", w' # w
    PROVE  Handler \/ UNCHANGED <<want, failover>>
<1>1. CASE Worker
  BY <1>1 DEF Worker, Fetch, UpdateStatus, FinalizeAction, Delete
<1>2. CASE Restart
  BY <1>2 DEF Restart, awsVars
<1> QED
  BY <1>1, <1>2 DEF Next, vars, Aws, Create, UserDelete, CacheSync, Expire

(* Once an execution has reported Success or Timeout it changes nothing in   *)
(* AWS: it has expired, or all copies of it are in the last phase            *)
(* (actionexecution_controller.go:80-95, 121-128).                           *)
THEOREM ReportedInert == Spec => ReportedIsInert
<1>1. ASSUME ScaleInv, [Next]_vars, NEW e \in Executions,
             sent[e] \cap {"Success", "Timeout"} # {}, w.e = e, w.pc = "execute", w' # w
      PROVE  UNCHANGED <<want, failover>>
  <2>1. w.op.phase = "WaitOldWriter"
    BY <1>1 DEF ScaleInv, OutcomesHold, InLastPhase
  <2>2. CASE Handler
    BY <1>1, <2>1, <2>2, HandlerEffect DEF ScaleInv, ReportInv, AllSound
  <2> QED
    BY <1>1, <2>2, ExecutingMoves
<1>2. ScaleInv /\ [Next]_vars =>
          [\A e \in Executions :
              sent[e] \cap {"Success", "Timeout"} # {} /\ w.e = e /\ w.pc = "execute" /\ w' # w
                  => UNCHANGED want /\ UNCHANGED failover]_vars
  BY <1>1
<1> QED
  BY <1>2, InvAlways, PTL DEF Spec, ReportedIsInert
=============================================================================
