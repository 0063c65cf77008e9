-------------------------- MODULE ReconcilersProofs --------------------------
(***************************************************************************)
(* Proofs about Reconcilers, for every set of schedules, actions,          *)
(* resources, kinds and specs, and every bound.                            *)
(***************************************************************************)
EXTENDS Reconcilers, ScheduleServiceProofs

(* The status of a resource that was disabled. *)
DisabledStatus == [NewStatus EXCEPT !.ready = "Disabled"]

(* What a worker that is not idle holds. *)
ResourceWorkersHold ==
    \A k \in Kinds : rw[k].pc # "idle" =>
        /\ rw[k].r \in Resources /\ KindOf[rw[k].r] = k /\ rw[k].spec \in ResourceSpecs
        /\ rw[k].pc # "status" => /\ rw[k].spec.active /\ ~rw[k].err
                                  /\ rw[k].plan \in ScheduleSpecs
        /\ rw[k].pc = "snapshot" => rw[k].scheduled = {}
        /\ rw[k].pc = "status" => rw[k].todo = {}
ScheduleWorkerHolds ==
    sw.pc # "idle" => /\ sw.s \in Schedules /\ sw.spec \in ScheduleSpecs
                      /\ \A x \in sw.todo : x[1] = sw.s
WorkersHold == ResourceWorkersHold /\ ScheduleWorkerHolds

(* An entry that Add has put in the cron and not yet in the map is that of   *)
(* an action that is on, of a resource whose worker is in that very call.    *)
AddsAreOwned ==
    /\ \A e \in adding :
          LET w == rw[KindOf[e.key[3]]]
          IN  /\ w.pc = "record" /\ e.key = Key(w, e.key[2])
              /\ w.spec.actions[e.key[2]] = "on"
    /\ \A e, f \in adding : KindOf[e.key[3]] = KindOf[f.key[3]] => e = f

(* A worker whose resource is not queued again has read its current spec. *)
SpecIsCurrent(r) == r \notin resQ => rw[KindOf[r]].spec = res[r]

(* What the worker of r has done so far.  A resource that is off has no job  *)
(* left; after the snapshot one that is on has none under another schedule;  *)
(* what the prune loop has counted is scheduled; an action that the action   *)
(* loop is done with is scheduled if it is on, unless the schedule lacks it  *)
(* or Add is about to record it, and not if it is off.                       *)
DoneSoFar(r) ==
    LET w == rw[KindOf[r]]
    IN  /\ ~w.spec.active =>
              /\ w.status = DisabledStatus
              /\ ~w.err /\ \A x \in Keys : x[3] = r => ~Tracked(x)
        /\ w.pc = "prune" =>
              /\ \A a \in w.todo \cup w.scheduled : Tracked(Key(w, a))
              /\ \A a \in w.scheduled : w.spec.actions[a] # "absent"
        /\ w.spec.active /\ ~w.err /\ w.pc # "snapshot" =>
              \A x \in Keys : x[3] = r /\ Tracked(x) => x[1] = w.spec.schedule
        /\ w.spec.active /\ ~w.err /\ w.pc \in {"schedule", "record", "status"} =>
              \A a \in Actions \ w.todo :
                 /\ w.spec.actions[a] = "off" => ~Tracked(Key(w, a))
                 /\ w.spec.actions[a] = "on" =>
                       \/ Tracked(Key(w, a)) \/ w.status.cond[a] = "MissingAction"
                       \/ \E e \in adding : e.key = Key(w, a)
        /\ w.spec.active /\ ~w.err /\ w.pc = "status" => w.status.ready = "Active"

(* What is left when it is done: the four properties, of one resource.  The  *)
(* status may since have been written by runs.                               *)
ScaleReasons == RunReasons \cup {"Timeout"}
Settled(r) ==
    /\ Retired(r) => \A x \in Keys : x[3] = r => ~Tracked(x)
    /\ ~Retired(r) => \A x \in Keys : x[3] = r /\ Tracked(x) =>
                          x[1] = res[r].schedule /\ res[r].actions[x[2]] # "off"
    /\ ~Retired(r) => \A a \in Actions : res[r].actions[a] = "on" =>
                          \/ Tracked(<<res[r].schedule, a, r>>)
                          \/ resStatus[r].cond[a] \in RunReasons \cup {"MissingAction"}
    /\ res[r] # None =>
          IF res[r].active THEN resStatus[r].ready = "Active"
          ELSE /\ resStatus[r].ready = "Disabled"
               /\ \A a \in Actions : resStatus[r].cond[a] \in RunReasons \cup {"none"}
               /\ resStatus[r].scale \in ScaleReasons \cup {"none"}

(* The status its worker leaves, before any run writes to it. *)
Reported(r) ==
    /\ ~Retired(r) => \A a \in Actions : res[r].actions[a] = "on" =>
                          \/ Tracked(<<res[r].schedule, a, r>>)
                          \/ resStatus[r].cond[a] = "MissingAction"
    /\ res[r] # None /\ ~res[r].active => resStatus[r] = DisabledStatus

ResourceInv(r) ==
    /\ Busy(r) => SpecIsCurrent(r) /\ DoneSoFar(r)
    /\ ~Busy(r) /\ r \notin resQ => Settled(r)

(* The refresh: a job the worker saw is still to be refreshed, or is being   *)
(* swapped, or is gone; what is put in the map in the meantime is newer than *)
(* what it saw, and every cron expression it has was validated.              *)
RefreshInv ==
    /\ \A i \in sw.seen : i < nextId
    /\ \A e \in adding : e.id \notin sw.seen
    /\ \A u \in swapping : sw.pc = "swap" /\ u.new \notin sw.seen /\ u.key[1] = sw.s
    /\ sw.pc \in {"refresh", "swap"} =>
          /\ \A a \in Actions : sw.spec.actions[a] # None => sw.spec.actions[a].cron \in ValidCrons
          /\ \A x \in Keys : m[x] \in sw.seen =>
                x \in sw.todo \/ \E u \in swapping : u.key = x
    /\ ReadyMeansRefreshed

ReconcilersInv ==
    /\ TypeOK /\ WorkersHold /\ ServiceInv
    /\ AddsAreOwned /\ (\A r \in Resources : ResourceInv(r)) /\ RefreshInv

-----------------------------------------------------------------------------
(* The fields of specs, statuses and keys. *)
LEMMA SpecTypes ==
    /\ \A s \in ResourceSpecs : /\ s.active \in BOOLEAN /\ s.schedule \in Schedules
                                /\ s.actions \in [Actions -> {"absent", "on", "off"}]
    /\ \A s \in ScheduleSpecs :
          /\ s.active \in BOOLEAN
          /\ \A a \in Actions : s.actions[a] # None => s.actions[a].cron \in Crons
    /\ None \notin ResourceSpecs /\ None \notin ScheduleSpecs
    /\ NewStatus \in Status /\ NoConditions \in [Actions -> Reasons]
    /\ DisabledStatus \in Status /\ DisabledStatus.ready = "Disabled"
    /\ DisabledStatus.cond = NoConditions /\ DisabledStatus.scale = "none"
<1>1. NewStatus \in Status /\ NoConditions \in [Actions -> Reasons]
  BY DEF NewStatus, NoConditions, Status, Reasons
<1>2. /\ DisabledStatus \in Status /\ DisabledStatus.ready = "Disabled"
      /\ DisabledStatus.cond = NoConditions /\ DisabledStatus.scale = "none"
  BY <1>1 DEF DisabledStatus, NewStatus, Status, Reasons
<1> QED
  BY <1>1, <1>2, SpecsAssumption DEF ResourceSpec, ScheduleSpec

(* What ActionLoop and PruneLoop leave of a worker's state. *)
Same(n, w) == /\ n.r = w.r /\ n.spec = w.spec /\ n.plan = w.plan
              /\ n.scheduled = w.scheduled /\ n.err = w.err
              /\ n.status.cond = w.status.cond

(* The action loop goes on, or ends with the resource reported as active. *)
LEMMA ActionLoopEffect ==
    ASSUME NEW w \in RWorkers
    PROVE  /\ ActionLoop(w) \in RWorkers /\ Same(ActionLoop(w), w)
           /\ ActionLoop(w).todo = w.todo
           /\ \/ ActionLoop(w).pc = "schedule" /\ w.todo # {}
              \/ /\ ActionLoop(w).pc = "status" /\ w.todo = {}
                 /\ ActionLoop(w).status.ready = "Active"
<1>1. w.status \in Status
  BY DEF RWorkers
<1>2. CASE w.todo # {}
  BY <1>2 DEF ActionLoop, RWorkers, Same
<1>3. CASE w.todo = {}
  <2> DEFINE s == [w.status EXCEPT !.ready = "Active"]
  <2>1. s \in Status /\ s.cond = w.status.cond /\ s.ready = "Active"
    BY <1>1 DEF Status, Reasons
  <2>2. ActionLoop(w) = [w EXCEPT !.pc = "status", !.status = s]
    BY <1>1, <1>3 DEF ActionLoop, RWorkers
  <2> HIDE DEF s
  <2> QED
    BY <1>3, <2>1, <2>2 DEF RWorkers, Same
<1> QED
  BY <1>2, <1>3

(* The prune loop goes on, or ends where the action loop begins. *)
LEMMA PruneLoopEffect ==
    ASSUME NEW w \in RWorkers
    PROVE  /\ PruneLoop(w) \in RWorkers /\ Same(PruneLoop(w), w)
           /\ \/ PruneLoop(w).pc = "prune" /\ PruneLoop(w).todo = w.todo
              \/ /\ PruneLoop(w).pc = "schedule" /\ w.todo = {}
                 /\ PruneLoop(w).todo = Unsettled(w)
              \/ /\ PruneLoop(w).pc = "status" /\ w.todo = {}
                 /\ PruneLoop(w).todo = Unsettled(w) /\ Unsettled(w) = {}
                 /\ PruneLoop(w).status.ready = "Active"
<1>1. CASE w.todo # {}
  BY <1>1 DEF PruneLoop, RWorkers, Same
<1>2. CASE w.todo = {}
  <2> DEFINE v == [w EXCEPT !.ids = NoIds, !.todo = Unsettled(w)]
  <2>1. v \in RWorkers /\ Same(v, w) /\ v.todo = Unsettled(w)
    BY DEF RWorkers, Same, NoIds, Unsettled
  <2>2. PruneLoop(w) = ActionLoop(v)
    BY <1>2 DEF PruneLoop
  <2> HIDE DEF v
  <2> QED
    BY <1>2, <2>1, <2>2, ActionLoopEffect DEF Same
<1> QED
  BY <1>1, <1>2

(* The Schedule controller's loop. *)
LEMMA RefreshLoopEffect ==
    ASSUME NEW w \in SWorkers
    PROVE  /\ RefreshLoop(w) \in SWorkers
           /\ RefreshLoop(w).s = w.s /\ RefreshLoop(w).spec = w.spec
           /\ RefreshLoop(w).todo = w.todo /\ RefreshLoop(w).seen = w.seen
           /\ \/ RefreshLoop(w).pc = "refresh"
              \/ RefreshLoop(w).pc = "status" /\ w.todo = {}
<1>1. w.status \in Status
  BY DEF SWorkers
<1>2. CASE w.todo # {}
  BY <1>2 DEF RefreshLoop, SWorkers
<1>3. CASE w.todo = {}
  <2> DEFINE s == [w.status EXCEPT !.ready = IF w.spec.active THEN "Active" ELSE "Disabled"]
  <2>1. s \in Status
    BY <1>1 DEF Status, Reasons
  <2>2. RefreshLoop(w) = [w EXCEPT !.pc = "status", !.cur = None, !.status = s]
    BY <1>1, <1>3 DEF RefreshLoop, SWorkers
  <2> HIDE DEF s
  <2> QED
    BY <1>3, <2>1, <2>2 DEF SWorkers
<1> QED
  BY <1>2, <1>3

-----------------------------------------------------------------------------
(* What each step of a resource controller's worker does: n is the worker's  *)
(* state after it.  Moves: what all the steps between the first and the last *)
(* have in common.                                                           *)
Others == <<apiVars, schedQ, resQ, sw, runVars, cntVars>>
Moves(k, w, n) ==
    /\ n \in RWorkers /\ n.r = w.r /\ n.spec = w.spec /\ n.plan = w.plan
    /\ rw' = [rw EXCEPT ![k] = n] /\ UNCHANGED Others
InLoop(n) == /\ n.pc \in {"schedule", "status"}
             /\ n.pc = "status" => n.todo = {} /\ n.status.ready = "Active"

(* The fields of a worker that is not idle. *)
LEMMA WorkerFacts ==
    ASSUME TypeOK, WorkersHold, NEW k \in Kinds, rw[k].pc # "idle"
    PROVE  /\ rw[k] \in RWorkers /\ rw[k].r \in Resources /\ KindOf[rw[k].r] = k
           /\ rw[k].spec \in ResourceSpecs /\ rw[k].spec.schedule \in Schedules
           /\ rw[k].todo \subseteq Actions
           /\ rw[k].status \in Status
           /\ \A a \in Actions : Key(rw[k], a) \in Keys
<1>1. /\ rw[k] \in RWorkers /\ rw[k].r \in Resources /\ KindOf[rw[k].r] = k
      /\ rw[k].spec \in ResourceSpecs
  BY DEF TypeOK, WorkersHold, ResourceWorkersHold
<1>2. rw[k].spec.schedule \in Schedules /\ rw[k].todo \subseteq Actions /\ rw[k].status \in Status
  BY <1>1, SpecTypes DEF RWorkers
<1> QED
  BY <1>1, <1>2 DEF Key, Keys

(* The reasons the code writes are reasons. *)
LEMMA ReasonsUsed == {"none", "Disabled", "MissingAction", "Error", "Active"} \subseteq Reasons
  BY DEF Reasons

(* A worker that has written one Action condition in its copy of the status. *)
SetCond(w, a, c) == [w EXCEPT !.status.cond[a] = c]

(* A condition is set in the status the worker holds. *)
LEMMA CondSet ==
    ASSUME NEW w \in RWorkers, NEW a \in Actions, NEW c \in Reasons
    PROVE  /\ SetCond(w, a, c) \in RWorkers
           /\ SetCond(w, a, c).pc = w.pc /\ SetCond(w, a, c).r = w.r
           /\ SetCond(w, a, c).spec = w.spec /\ SetCond(w, a, c).plan = w.plan
           /\ SetCond(w, a, c).todo = w.todo /\ SetCond(w, a, c).scheduled = w.scheduled
           /\ SetCond(w, a, c).err = w.err
           /\ SetCond(w, a, c).status.cond = [w.status.cond EXCEPT ![a] = c]
           /\ w.status.cond \in [Actions -> Reasons]
<1> DEFINE cond == [w.status.cond EXCEPT ![a] = c]
           s == [w.status EXCEPT !.cond = cond]
<1>1. w.status \in Status /\ w.status.cond \in [Actions -> Reasons]
  BY DEF RWorkers, Status
<1>2. cond \in [Actions -> Reasons]
  BY <1>1
<1>3. SetCond(w, a, c) = [w EXCEPT !.status = s]
  BY DEF RWorkers, SetCond
<1> HIDE DEF cond
<1>4. s \in Status /\ s.cond = cond
  BY <1>1, <1>2 DEF Status
<1> HIDE DEF s
<1>5. [w EXCEPT !.status = s] \in RWorkers /\ [w EXCEPT !.status = s].status = s
  BY <1>4 DEF RWorkers
<1> QED
  BY <1>1, <1>3, <1>4, <1>5 DEF RWorkers, cond

(* The snapshot, field by field. *)
LEMMA SnapshotEffect ==
    ASSUME TypeOK, WorkersHold, NEW k \in Kinds, Snapshot(k)
    PROVE  LET w == rw[k]
               n == rw'[k]
           IN  /\ w.pc = "snapshot" /\ Moves(k, w, n) /\ n.err = w.err /\ n.scheduled = {}
               /\ RemoveLocked(NonCurrent(w.spec.schedule, w.r))
               /\ \/ n.pc = "prune" /\ \A a \in n.todo : Tracked(Key(w, a))
                  \/ /\ InLoop(n) /\ \A a \in Actions : ~Tracked(Key(w, a))
                     /\ n.todo = {a \in Actions : w.spec.actions[a] \in {"on", "off"}}
<1> DEFINE w == rw[k]
           ids == GetActionsOfResource(w.spec.schedule, w.r)
           removed == {a \in Actions : \E x \in NonCurrent(w.spec.schedule, w.r) :
                                           x[2] = a /\ Tracked(x)}
           cond == [a \in Actions |-> IF a \in removed THEN "none" ELSE w.status.cond[a]]
           v == [w EXCEPT !.ids = ids,
                          !.todo = {a \in Actions : ids[a] # 0},
                          !.status.cond = cond]
<1>1. /\ w.pc = "snapshot" /\ rw' = [rw EXCEPT ![k] = PruneLoop(v)] /\ UNCHANGED Others
      /\ RemoveLocked(NonCurrent(w.spec.schedule, w.r))
  BY DEF Snapshot, Goto, Others, RemoveActionsOfResourceFromNonCurrentSchedule
<1>2. /\ w \in RWorkers /\ w.scheduled = {} /\ w.status \in Status
      /\ \A a \in Actions : Key(w, a) \in Keys
  BY <1>1, WorkerFacts DEF WorkersHold, ResourceWorkersHold
<1>3. ids \in [Actions -> Nat] /\ \A a \in Actions : ids[a] = m[Key(w, a)]
  BY <1>2 DEF GetActionsOfResource, Key, TypeOK, ServiceTypeOK
<1>4. [w.status EXCEPT !.cond = cond] \in Status
  BY <1>2 DEF Status, Reasons
<1>5. v = [w EXCEPT !.ids = ids, !.todo = {a \in Actions : ids[a] # 0},
                    !.status = [w.status EXCEPT !.cond = cond]]
  BY <1>2 DEF RWorkers
<1> HIDE DEF ids, cond
<1>6. /\ v \in RWorkers /\ v.r = w.r /\ v.spec = w.spec /\ v.plan = w.plan /\ v.err = w.err
      /\ v.scheduled = {} /\ v.todo = {a \in Actions : ids[a] # 0}
  BY <1>2, <1>3, <1>4, <1>5 DEF RWorkers
<1> HIDE DEF v
<1>7. rw'[k] = PruneLoop(v) /\ rw' = [rw EXCEPT ![k] = rw'[k]]
  BY <1>1 DEF TypeOK
<1>8. Unsettled(v) = {a \in Actions : w.spec.actions[a] \in {"on", "off"}}
  BY <1>6 DEF Unsettled
<1>9. \A a \in Actions : Tracked(Key(w, a)) <=> ids[a] # 0
  BY <1>3 DEF Tracked
<1> QED
  BY <1>1, <1>6, <1>7, <1>8, <1>9, PruneLoopEffect DEF Moves, InLoop, Same

(* A turn of the prune loop, field by field. *)
LEMMA PruneEffect ==
    ASSUME TypeOK, WorkersHold, NEW k \in Kinds, NEW a \in Actions, Prune(k, a)
    PROVE  LET w == rw[k]
               n == rw'[k]
           IN  /\ w.pc = "prune" /\ a \in w.todo /\ Moves(k, w, n) /\ n.err = w.err
               /\ \/ /\ Remove(Key(w, a))
                     /\ w.spec.actions[a] = "absent" /\ n.scheduled = w.scheduled
                  \/ /\ UNCHANGED svcVars
                     /\ \/ n.scheduled = w.scheduled
                        \/ n.scheduled = w.scheduled \cup {a} /\ w.spec.actions[a] # "absent"
               /\ \/ n.pc = "prune" /\ n.todo = w.todo \ {a}
                  \/ InLoop(n) /\ n.todo = Unsettled(n)
<1> DEFINE w == rw[k]
           next == [w EXCEPT !.todo = @ \ {a}]
           gone == SetCond(next, a, "none")
           kept == [next EXCEPT !.scheduled = IF Live(w.ids[a]) THEN @ \cup {a} ELSE @]
<1>1. /\ w.pc = "prune" /\ a \in w.todo /\ UNCHANGED Others
      /\ \/ /\ Remove(Key(w, a)) /\ w.spec.actions[a] = "absent"
            /\ rw' = [rw EXCEPT ![k] = PruneLoop(gone)]
         \/ /\ UNCHANGED svcVars /\ (Live(w.ids[a]) => w.spec.actions[a] # "absent")
            /\ rw' = [rw EXCEPT ![k] = PruneLoop(kept)]
  BY DEF Prune, Goto, Others, SetCond
<1>2. w \in RWorkers
  BY <1>1, WorkerFacts
<1>3. /\ next \in RWorkers /\ next.r = w.r /\ next.spec = w.spec /\ next.plan = w.plan
      /\ next.err = w.err /\ next.scheduled = w.scheduled /\ next.todo = w.todo \ {a}
  BY <1>2 DEF RWorkers
<1> HIDE DEF next
<1>5. /\ gone \in RWorkers /\ gone.r = w.r /\ gone.spec = w.spec /\ gone.plan = w.plan
      /\ gone.err = w.err /\ gone.scheduled = w.scheduled /\ gone.todo = w.todo \ {a}
  <2>1. /\ gone \in RWorkers /\ gone.r = next.r /\ gone.spec = next.spec
        /\ gone.plan = next.plan /\ gone.err = next.err
        /\ gone.scheduled = next.scheduled /\ gone.todo = next.todo
        /\ gone.status.cond = [next.status.cond EXCEPT ![a] = "none"]
    BY <1>3, CondSet, ReasonsUsed
  <2> QED
    BY <1>3, <2>1
<1>6. /\ kept \in RWorkers /\ kept.r = w.r /\ kept.spec = w.spec /\ kept.plan = w.plan
      /\ kept.err = w.err /\ kept.todo = w.todo \ {a}
      /\ kept.scheduled = IF Live(w.ids[a]) THEN w.scheduled \cup {a} ELSE w.scheduled
  BY <1>3 DEF RWorkers
<1> HIDE DEF gone, kept
<1>7. \A u, v \in RWorkers : Same(u, v) => Unsettled(u) = Unsettled(v)
  BY DEF Same, Unsettled
<1>8. CASE Remove(Key(w, a)) /\ rw' = [rw EXCEPT ![k] = PruneLoop(gone)]
           /\ w.spec.actions[a] = "absent"
  <2> DEFINE n == PruneLoop(gone)
  <2>1. rw'[k] = n
    BY <1>8 DEF TypeOK
  <2>2. /\ n \in RWorkers /\ Same(n, gone)
        /\ \/ n.pc = "prune" /\ n.todo = w.todo \ {a}
           \/ InLoop(n) /\ n.todo = Unsettled(gone)
    BY <1>5, PruneLoopEffect DEF InLoop
  <2> HIDE DEF n
  <2>3. n.err = w.err /\ n.scheduled = gone.scheduled /\ Unsettled(n) = Unsettled(gone)
    BY <1>5, <1>7, <2>2 DEF Same
  <2>4. Moves(k, w, n)
    BY <1>1, <1>5, <1>8, <2>1, <2>2 DEF Moves, Same
  <2> QED
    BY <1>1, <1>5, <1>8, <2>1, <2>2, <2>3, <2>4
<1>9. CASE /\ UNCHANGED svcVars /\ (Live(w.ids[a]) => w.spec.actions[a] # "absent")
           /\ rw' = [rw EXCEPT ![k] = PruneLoop(kept)]
  <2> DEFINE n == PruneLoop(kept)
  <2>1. rw'[k] = n
    BY <1>9 DEF TypeOK
  <2>2. /\ n \in RWorkers /\ Same(n, kept)
        /\ \/ n.pc = "prune" /\ n.todo = w.todo \ {a}
           \/ InLoop(n) /\ n.todo = Unsettled(kept)
    BY <1>6, PruneLoopEffect DEF InLoop
  <2> HIDE DEF n
  <2>3. n.err = w.err /\ n.scheduled = kept.scheduled /\ Unsettled(n) = Unsettled(kept)
    BY <1>6, <1>7, <2>2 DEF Same
  <2>4. Moves(k, w, n)
    BY <1>1, <1>6, <1>9, <2>1, <2>2 DEF Moves, Same
  <2> QED
    BY <1>1, <1>6, <1>9, <2>1, <2>2, <2>3, <2>4
<1> QED
  BY <1>1, <1>8, <1>9

(* A turn of the action loop for an action that is off, field by field. *)
LEMMA TurnOffEffect ==
    ASSUME TypeOK, WorkersHold, NEW k \in Kinds, NEW a \in Actions, TurnOff(k, a)
    PROVE  LET w == rw[k]
               n == rw'[k]
           IN  /\ w.pc = "schedule" /\ w.spec.actions[a] = "off"
               /\ Moves(k, w, n) /\ n.err = w.err /\ Remove(Key(w, a))
               /\ InLoop(n) /\ n.todo = w.todo \ {a}
               /\ \A b \in Actions \ {a} : n.status.cond[b] = w.status.cond[b]
<1> DEFINE w == rw[k]
           next == [w EXCEPT !.todo = @ \ {a}]
           v == SetCond(next, a, "Disabled")
           n == ActionLoop(v)
<1>1. /\ w.pc = "schedule" /\ w.spec.actions[a] = "off" /\ UNCHANGED Others /\ Remove(Key(w, a))
      /\ rw' = [rw EXCEPT ![k] = ActionLoop([w EXCEPT !.todo = @ \ {a}, !.status.cond[a] = "Disabled"])]
  BY DEF TurnOff, Goto, Others
<1>2. w \in RWorkers
  BY <1>1, WorkerFacts
<1>3. [w EXCEPT !.todo = @ \ {a}, !.status.cond[a] = "Disabled"] = v
  BY <1>2 DEF RWorkers, SetCond
<1>4. /\ next \in RWorkers /\ next.r = w.r /\ next.spec = w.spec /\ next.plan = w.plan
      /\ next.err = w.err /\ next.todo = w.todo \ {a} /\ next.status = w.status
  BY <1>2 DEF RWorkers
<1> HIDE DEF next
<1>6. /\ v \in RWorkers /\ v.r = w.r /\ v.spec = w.spec /\ v.plan = w.plan
      /\ v.err = w.err /\ v.todo = w.todo \ {a}
      /\ v.status.cond = [w.status.cond EXCEPT ![a] = "Disabled"]
      /\ w.status.cond \in [Actions -> Reasons]
  BY <1>4, CondSet, ReasonsUsed
<1>8. rw' = [rw EXCEPT ![k] = n] /\ rw'[k] = n
  BY <1>1, <1>3 DEF TypeOK
<1> HIDE DEF v
<1>9. n \in RWorkers /\ Same(n, v) /\ InLoop(n) /\ n.todo = w.todo \ {a}
  BY <1>6, ActionLoopEffect DEF InLoop
<1> HIDE DEF n
<1>10. \A b \in Actions \ {a} : n.status.cond[b] = w.status.cond[b]
  BY <1>6, <1>9 DEF Same
<1>11. Moves(k, w, n) /\ n.err = w.err
  BY <1>1, <1>6, <1>8, <1>9 DEF Moves, Same
<1> QED
  BY <1>1, <1>8, <1>9, <1>10, <1>11

(* A turn of it for an action that is on, field by field. *)
LEMMA TurnOnEffect ==
    ASSUME TypeOK, WorkersHold, NEW k \in Kinds, NEW a \in Actions, TurnOn(k, a)
    PROVE  LET w == rw[k]
               n == rw'[k]
           IN  /\ w.pc = "schedule" /\ w.spec.actions[a] = "on" /\ Moves(k, w, n)
               /\ \/ /\ UNCHANGED svcVars /\ InLoop(n) /\ n.err = w.err
                     /\ n.todo = w.todo \ {a} /\ n.status.cond[a] = "MissingAction"
                     /\ \A b \in Actions \ {a} : n.status.cond[b] = w.status.cond[b]
                  \/ UNCHANGED svcVars /\ n.pc = "status" /\ n.todo = {} /\ n.err
                  \/ /\ \E c \in ValidCrons : AddFunc(Key(w, a), c)
                     /\ n.pc = "record" /\ n.err = w.err /\ n.todo = w.todo \ {a}
                     /\ n.status = w.status
<1> DEFINE w == rw[k]
           next == [w EXCEPT !.todo = @ \ {a}]
           v == SetCond(next, a, "MissingAction")
           stopped == [w EXCEPT !.pc = "status", !.todo = {}, !.err = TRUE]
           failed == SetCond(stopped, a, "Error")
           issued == [w EXCEPT !.todo = @ \ {a}, !.pc = "record"]
<1>0. w.pc = "schedule" /\ w.spec.actions[a] = "on" /\ UNCHANGED Others
  BY DEF TurnOn, Others
<1>1. w \in RWorkers
  BY <1>0, WorkerFacts
<1>2. /\ MissingAction(w, a) = ActionLoop(v)
      /\ AddError(w, a) = failed
  BY <1>1 DEF MissingAction, AddError, RWorkers, SetCond
<1>3. \/ UNCHANGED svcVars /\ rw' = [rw EXCEPT ![k] = ActionLoop(v)]
      \/ UNCHANGED svcVars /\ rw' = [rw EXCEPT ![k] = failed]
      \/ /\ \E c \in ValidCrons : AddFunc(Key(w, a), c)
         /\ rw' = [rw EXCEPT ![k] = issued]
  BY <1>2 DEF TurnOn, Goto, AddFunc, CronAdd
<1>4. /\ next \in RWorkers /\ next.r = w.r /\ next.spec = w.spec /\ next.plan = w.plan
      /\ next.err = w.err /\ next.todo = w.todo \ {a} /\ next.status = w.status
  BY <1>1 DEF RWorkers
<1>5. /\ issued \in RWorkers /\ issued.r = w.r /\ issued.spec = w.spec /\ issued.plan = w.plan
      /\ issued.err = w.err /\ issued.todo = w.todo \ {a} /\ issued.status = w.status
      /\ issued.pc = "record"
  BY <1>1 DEF RWorkers
<1>6. /\ failed \in RWorkers /\ failed.r = w.r /\ failed.spec = w.spec /\ failed.plan = w.plan
      /\ failed.err /\ failed.todo = {} /\ failed.pc = "status"
  <2>1. /\ stopped \in RWorkers /\ stopped.r = w.r /\ stopped.spec = w.spec
        /\ stopped.plan = w.plan /\ stopped.err /\ stopped.todo = {} /\ stopped.pc = "status"
    BY <1>1 DEF RWorkers
  <2> HIDE DEF stopped
  <2>3. stopped \in RWorkers
    BY <2>1
  <2>2. /\ failed \in RWorkers /\ failed.r = stopped.r /\ failed.spec = stopped.spec
        /\ failed.plan = stopped.plan /\ failed.err = stopped.err
        /\ failed.todo = stopped.todo /\ failed.pc = stopped.pc
        /\ failed.status.cond = [stopped.status.cond EXCEPT ![a] = "Error"]
    BY <2>3, CondSet, ReasonsUsed
  <2> QED
    BY <2>1, <2>2
<1> HIDE DEF next, issued, failed
<1>7. CASE UNCHANGED svcVars /\ rw' = [rw EXCEPT ![k] = ActionLoop(v)]
  <2> DEFINE n == ActionLoop(v)
  <2>2. /\ v \in RWorkers /\ v.r = w.r /\ v.spec = w.spec /\ v.plan = w.plan
        /\ v.err = w.err /\ v.todo = w.todo \ {a}
        /\ v.status.cond = [w.status.cond EXCEPT ![a] = "MissingAction"]
        /\ w.status.cond \in [Actions -> Reasons]
    BY <1>4, CondSet, ReasonsUsed
  <2>4. rw'[k] = n
    BY <1>7 DEF TypeOK
  <2> HIDE DEF v
  <2>5. n \in RWorkers /\ Same(n, v) /\ InLoop(n) /\ n.todo = w.todo \ {a}
    BY <2>2, ActionLoopEffect DEF InLoop
  <2>6. Moves(k, w, n) /\ n.err = w.err
    BY <1>0, <1>7, <2>2, <2>5 DEF Moves, Same
  <2> HIDE DEF n
  <2>7. /\ n.status.cond[a] = "MissingAction"
        /\ \A b \in Actions \ {a} : n.status.cond[b] = w.status.cond[b]
    BY <2>2, <2>5 DEF Same
  <2> QED
    BY <1>0, <1>7, <2>4, <2>5, <2>6, <2>7
<1>8. CASE UNCHANGED svcVars /\ rw' = [rw EXCEPT ![k] = failed]
  <2>1. rw'[k] = failed
    BY <1>8 DEF TypeOK
  <2> QED
    BY <1>0, <1>6, <1>8, <2>1 DEF Moves
<1>9. CASE (\E c \in ValidCrons : AddFunc(Key(w, a), c)) /\ rw' = [rw EXCEPT ![k] = issued]
  <2>1. rw'[k] = issued
    BY <1>9 DEF TypeOK
  <2> QED
    BY <1>0, <1>5, <1>9, <2>1 DEF Moves
<1> QED
  BY <1>3, <1>7, <1>8, <1>9

(* The end of a call of Add, field by field. *)
LEMMA RecordEffect ==
    ASSUME TypeOK, WorkersHold, NEW k \in Kinds, Record(k)
    PROVE  LET w == rw[k]
               n == rw'[k]
           IN  /\ w.pc = "record" /\ Moves(k, w, n) /\ n.err = w.err
               /\ InLoop(n) /\ n.todo = w.todo
               /\ \E e \in adding :
                     /\ KindOf[e.key[3]] = k /\ AddRecord(e)
                     /\ \A b \in Actions \ {e.key[2]} : n.status.cond[b] = w.status.cond[b]
<1> DEFINE w == rw[k]
<1>1. w.pc = "record" /\ UNCHANGED Others
  BY DEF Record, Others
<1>2. w \in RWorkers
  BY <1>1, WorkerFacts
<1>3. PICK e \in adding :
         /\ KindOf[e.key[3]] = k /\ AddRecord(e)
         /\ rw' = [rw EXCEPT ![k] = ActionLoop([w EXCEPT !.status.cond[e.key[2]] = "Active"])]
  BY DEF Record, Goto
<1>4. e.key[2] \in Actions
  BY DEF TypeOK, ServiceTypeOK, Entries, Keys
<1> DEFINE v == SetCond(w, e.key[2], "Active")
           n == ActionLoop(v)
<1>6. /\ v \in RWorkers /\ v.r = w.r /\ v.spec = w.spec /\ v.plan = w.plan
      /\ v.err = w.err /\ v.todo = w.todo
      /\ v.status.cond = [w.status.cond EXCEPT ![e.key[2]] = "Active"]
      /\ w.status.cond \in [Actions -> Reasons]
  BY <1>2, <1>4, CondSet, ReasonsUsed
<1>8. rw' = [rw EXCEPT ![k] = n] /\ rw'[k] = n
  BY <1>3 DEF TypeOK, SetCond
<1> HIDE DEF v
<1>9. n \in RWorkers /\ Same(n, v) /\ InLoop(n) /\ n.todo = w.todo
  BY <1>6, ActionLoopEffect DEF InLoop
<1> HIDE DEF n
<1>10. \A b \in Actions \ {e.key[2]} : n.status.cond[b] = w.status.cond[b]
  BY <1>6, <1>9 DEF Same
<1>11. Moves(k, w, n) /\ n.err = w.err
  BY <1>1, <1>6, <1>8, <1>9 DEF Moves, Same
<1> QED
  BY <1>1, <1>3, <1>8, <1>9, <1>10, <1>11

(* The first step of a worker that has something to do. *)
LEMMA StartEffect ==
    ASSUME TypeOK, NEW r \in Resources, ReconcileInactive(r) \/ ReconcileActive(r)
    PROVE  LET n == rw'[KindOf[r]]
           IN  /\ Begin(r) /\ res[r] \in ResourceSpecs
               /\ n \in RWorkers /\ n.r = r /\ n.spec = res[r]
               /\ n.todo = {} /\ n.scheduled = {}
               /\ rw' = [rw EXCEPT ![KindOf[r]] = n]
               /\ \/ /\ ~res[r].active /\ RemoveResource(r) /\ n.pc = "status" /\ ~n.err
                     /\ n.status = DisabledStatus
                  \/ res[r].active /\ UNCHANGED svcVars /\ n.pc = "status" /\ n.err
                  \/ /\ res[r].active /\ UNCHANGED svcVars /\ n.pc = "snapshot"
                     /\ ~n.err /\ n.plan \in ScheduleSpecs
<1> DEFINE w == Reading(r)
           off == [w EXCEPT !.pc = "status", !.status = DisabledStatus]
           lost == [w EXCEPT !.pc = "status", !.err = TRUE, !.status.ready = "ScheduleNotExist"]
           begun == [w EXCEPT !.pc = "snapshot", !.plan = sched[res[r].schedule]]
<1>1. /\ Begin(r) /\ res[r] \in ResourceSpecs /\ KindOf[r] \in Kinds
      /\ resStatus[r] \in Status /\ rw \in [Kinds -> RWorkers]
  BY SpecsAssumption DEF ReconcileInactive, ReconcileActive, TypeOK
<1>2. res[r].schedule \in Schedules /\ sched[res[r].schedule] \in ScheduleSpecs \cup {None}
  BY <1>1, SpecTypes DEF TypeOK
<1>3. RIdle \in RWorkers /\ ~RIdle.err /\ RIdle.todo = {} /\ RIdle.scheduled = {}
  BY SpecTypes DEF RIdle, RWorkers, NoIds
<1>4. /\ w \in RWorkers /\ w.r = r /\ w.spec = res[r] /\ w.todo = {} /\ w.scheduled = {}
      /\ ~w.err /\ w.status = resStatus[r]
  BY <1>1, <1>3 DEF Reading, RWorkers
<1> HIDE DEF w
<1>5. DisabledStatus \in Status
  BY SpecTypes
<1>6. /\ off \in RWorkers /\ off.r = r /\ off.spec = res[r] /\ off.todo = {}
      /\ off.scheduled = {} /\ off.pc = "status" /\ ~off.err
      /\ off.status = DisabledStatus
  BY <1>4, <1>5 DEF RWorkers
<1>7. /\ lost \in RWorkers /\ lost.r = r /\ lost.spec = res[r] /\ lost.todo = {}
      /\ lost.scheduled = {} /\ lost.pc = "status" /\ lost.err
  <2> DEFINE s == [w.status EXCEPT !.ready = "ScheduleNotExist"]
  <2>1. s \in Status
    BY <1>1, <1>4 DEF Status, Reasons
  <2>2. lost = [w EXCEPT !.pc = "status", !.err = TRUE, !.status = s]
    BY <1>4 DEF RWorkers
  <2> HIDE DEF s
  <2> QED
    BY <1>4, <2>1, <2>2 DEF RWorkers
<1>8. sched[res[r].schedule] # None =>
         /\ begun \in RWorkers /\ begun.r = r /\ begun.spec = res[r] /\ begun.todo = {}
         /\ begun.scheduled = {} /\ begun.pc = "snapshot" /\ ~begun.err
         /\ begun.plan \in ScheduleSpecs
  BY <1>2, <1>4 DEF RWorkers
<1>9. \/ ~res[r].active /\ RemoveResource(r) /\ rw' = [rw EXCEPT ![KindOf[r]] = off]
      \/ res[r].active /\ UNCHANGED svcVars /\ rw' = [rw EXCEPT ![KindOf[r]] = lost]
      \/ /\ res[r].active /\ UNCHANGED svcVars /\ rw' = [rw EXCEPT ![KindOf[r]] = begun]
         /\ sched[res[r].schedule] # None
  BY DEF ReconcileInactive, ReconcileActive, Goto, w, DisabledStatus
<1> HIDE DEF off, lost, begun
<1>10. ASSUME NEW v, rw' = [rw EXCEPT ![KindOf[r]] = v] PROVE rw'[KindOf[r]] = v
  BY <1>1, <1>10
<1> QED
  BY <1>1, <1>6, <1>7, <1>8, <1>9, <1>10

(* The steps of the Schedule controller. *)
LEMMA StartScheduleEffect ==
    ASSUME TypeOK, NEW s \in Schedules, ReconcileSchedule(s)
    PROVE  /\ UNCHANGED <<svcVars, apiVars, resQ, rw, runVars, cntVars>>
           /\ schedQ' \subseteq schedQ /\ sw.pc = "idle"
           /\ \/ sw' = sw
              \/ /\ sw' \in SWorkers /\ sw'.s = s /\ sw'.spec \in ScheduleSpecs
                 /\ \/ /\ sw'.pc = "status" /\ sw'.todo = {} /\ sw'.seen = {}
                    \/ /\ sw'.todo = GetActions(s) /\ sw'.seen = {m[x] : x \in GetActions(s)}
                       /\ sw'.pc = "refresh" \/ (sw'.pc = "status" /\ sw'.todo = {})
                       /\ \A a \in Actions : sw'.spec.actions[a] # None =>
                                                sw'.spec.actions[a].cron \in ValidCrons
<1> DEFINE conds == ValidatedConditions(sched[s])
           w == [SIdle EXCEPT !.s = s, !.spec = sched[s], !.status = schedStatus[s]]
           noted == [w EXCEPT !.todo = GetActions(s), !.seen = {m[x] : x \in GetActions(s)},
                              !.status.cond = conds]
           bad == [w EXCEPT !.pc = "status", !.status.ready = "InvalidPeriod"]
           worse == [w EXCEPT !.pc = "status", !.status.ready = "InvalidCronExpression",
                                               !.status.cond = conds]
<1>1. /\ UNCHANGED <<svcVars, apiVars, resQ, rw, runVars, cntVars>> /\ sw.pc = "idle"
      /\ schedQ' \subseteq schedQ
  BY DEF ReconcileSchedule
<1>2. CASE sw' = sw
  BY <1>1, <1>2
<1>3. CASE sw' # sw
  <2>1. sched[s] \in ScheduleSpecs /\ schedStatus[s] \in Status
    BY <1>3 DEF ReconcileSchedule, TypeOK
  <2>2. SIdle \in SWorkers /\ SIdle.todo = {} /\ SIdle.seen = {}
    BY SpecTypes DEF SIdle, SWorkers
  <2>3. /\ w \in SWorkers /\ w.s = s /\ w.spec = sched[s] /\ w.todo = {} /\ w.seen = {}
        /\ w.status = schedStatus[s]
    BY <2>1, <2>2 DEF SWorkers
  <2>4. conds \in [Actions -> Reasons]
    BY DEF ValidatedConditions, Reasons
  <2>5. \/ sw' = bad \/ sw' = worse
        \/ /\ sw' = RefreshLoop(noted)
           /\ \A a \in Actions : conds[a] # "InvalidCronExpression"
    BY <1>3 DEF ReconcileSchedule
  <2> HIDE DEF w
  <2>6. /\ bad \in SWorkers /\ bad.s = s /\ bad.spec = sched[s] /\ bad.todo = {}
        /\ bad.seen = {} /\ bad.pc = "status"
    <3> DEFINE st == [w.status EXCEPT !.ready = "InvalidPeriod"]
    <3>1. st \in Status
      BY <2>1, <2>3 DEF Status, Reasons
    <3>2. bad = [w EXCEPT !.pc = "status", !.status = st]
      BY <2>3 DEF SWorkers
    <3> HIDE DEF st
    <3> QED
      BY <2>3, <3>1, <3>2 DEF SWorkers
  <2>8. /\ worse \in SWorkers /\ worse.s = s /\ worse.spec = sched[s] /\ worse.todo = {}
        /\ worse.seen = {} /\ worse.pc = "status"
    <3> DEFINE st == [w.status EXCEPT !.ready = "InvalidCronExpression", !.cond = conds]
    <3>1. st \in Status
      BY <2>1, <2>3, <2>4 DEF Status, Reasons
    <3>2. worse = [w EXCEPT !.pc = "status", !.status = st]
      BY <2>3 DEF SWorkers
    <3> HIDE DEF st
    <3> QED
      BY <2>3, <3>1, <3>2 DEF SWorkers
  <2>9. /\ noted \in SWorkers /\ noted.s = s /\ noted.spec = sched[s]
        /\ noted.todo = GetActions(s) /\ noted.seen = {m[x] : x \in GetActions(s)}
    <3> DEFINE st == [w.status EXCEPT !.cond = conds]
    <3>1. st \in Status
      BY <2>1, <2>3, <2>4 DEF Status
    <3>2. noted = [w EXCEPT !.todo = GetActions(s), !.seen = {m[x] : x \in GetActions(s)},
                            !.status = st]
      BY <2>3 DEF SWorkers
    <3> HIDE DEF st
    <3>3. GetActions(s) \subseteq Keys /\ {m[x] : x \in GetActions(s)} \subseteq Ids
      BY DEF GetActions, Tracked, TypeOK, ServiceTypeOK, Ids
    <3> QED
      BY <2>3, <3>1, <3>2, <3>3 DEF SWorkers
  <2>10. (\A a \in Actions : conds[a] # "InvalidCronExpression") =>
            \A a \in Actions : sched[s].actions[a] # None =>
                                  sched[s].actions[a].cron \in ValidCrons
    BY DEF ValidatedConditions
  <2> HIDE DEF bad, worse, noted, conds
  <2>11. CASE sw' = RefreshLoop(noted) /\ \A a \in Actions : conds[a] # "InvalidCronExpression"
    BY <1>1, <2>1, <2>9, <2>10, <2>11, RefreshLoopEffect
  <2> QED
    BY <1>1, <2>1, <2>5, <2>6, <2>8, <2>11
<1> QED
  BY <1>2, <1>3

(* A turn of the refresh loop, field by field. *)
LEMMA RefreshEffect ==
    ASSUME TypeOK, NEW x \in Keys, Refresh(x)
    PROVE  LET planned == sw.spec.actions[x[2]]
           IN  /\ sw.pc = "refresh" /\ x \in sw.todo
               /\ sw' \in SWorkers /\ sw'.s = sw.s /\ sw'.spec = sw.spec /\ sw'.seen = sw.seen
               /\ UNCHANGED <<apiVars, schedQ, resQ, rw, runVars, cntVars>>
               /\ \/ /\ UNCHANGED svcVars /\ sw'.pc = "status" /\ sw'.todo = {}
                     /\ sw'.status.ready = "MissingAction"
                  \/ /\ UNCHANGED svcVars /\ planned # None /\ ~CanUpdate(x, planned.cron)
                     /\ sw'.todo = sw.todo \ {x}
                     /\ sw'.pc = "refresh" \/ (sw'.pc = "status" /\ sw'.todo = {})
                  \/ /\ planned # None /\ UpdateAdd(x, planned.cron)
                     /\ sw'.pc = "swap" /\ sw'.todo = sw.todo \ {x}
<1> DEFINE planned == sw.spec.actions[x[2]]
           next == [sw EXCEPT !.todo = @ \ {x}, !.cur = x[2]]
           ended == [next EXCEPT !.pc = "status", !.todo = {}, !.cur = None,
                                 !.status.ready = "MissingAction"]
           swaps == [next EXCEPT !.pc = "swap"]
<1>1. /\ sw.pc = "refresh" /\ x \in sw.todo /\ UNCHANGED <<apiVars, schedQ, resQ, rw, runVars, cntVars>>
      /\ \/ UNCHANGED svcVars /\ sw' = ended
         \/ /\ UNCHANGED svcVars /\ planned # None /\ ~CanUpdate(x, planned.cron)
            /\ sw' = RefreshLoop(next)
         \/ planned # None /\ UpdateAdd(x, planned.cron) /\ sw' = swaps
  BY DEF Refresh
<1>2. sw \in SWorkers /\ x[2] \in Actions
  BY DEF TypeOK, Keys
<1>3. /\ next \in SWorkers /\ next.s = sw.s /\ next.spec = sw.spec /\ next.seen = sw.seen
      /\ next.todo = sw.todo \ {x} /\ next.status \in Status
  BY <1>2 DEF SWorkers
<1> HIDE DEF next
<1>4. /\ ended \in SWorkers /\ ended.s = sw.s /\ ended.spec = sw.spec /\ ended.seen = sw.seen
      /\ ended.todo = {} /\ ended.pc = "status" /\ ended.status.ready = "MissingAction"
  <2> DEFINE st == [next.status EXCEPT !.ready = "MissingAction"]
  <2>1. st \in Status /\ st.ready = "MissingAction"
    BY <1>3 DEF Status, Reasons
  <2>2. ended = [next EXCEPT !.pc = "status", !.todo = {}, !.cur = None, !.status = st]
    BY <1>3 DEF SWorkers
  <2> HIDE DEF st
  <2> QED
    BY <1>3, <2>1, <2>2 DEF SWorkers
<1>5. /\ swaps \in SWorkers /\ swaps.s = sw.s /\ swaps.spec = sw.spec /\ swaps.seen = sw.seen
      /\ swaps.todo = sw.todo \ {x} /\ swaps.pc = "swap"
  BY <1>3 DEF SWorkers
<1> HIDE DEF ended, swaps
<1> QED
  BY <1>1, <1>3, <1>4, <1>5, RefreshLoopEffect

(* The end of a call of UpdateCronSpec, field by field. *)
LEMMA SwapEffect ==
    ASSUME TypeOK, Swap
    PROVE  /\ sw.pc = "swap" /\ UpdateReplace
           /\ sw' \in SWorkers /\ sw'.s = sw.s /\ sw'.spec = sw.spec
           /\ sw'.todo = sw.todo /\ sw'.seen = sw.seen
           /\ sw'.pc = "refresh" \/ (sw'.pc = "status" /\ sw'.todo = {})
           /\ UNCHANGED <<apiVars, schedQ, resQ, rw, runVars, cntVars>>
<1>1. sw \in SWorkers
  BY DEF TypeOK
<1> QED
  BY <1>1, RefreshLoopEffect DEF Swap

-----------------------------------------------------------------------------
(* Types, what the workers hold, and that whatever the reconcilers do to the *)
(* registry is a call the registry offers.                                   *)
Typed == TypeOK' /\ WorkersHold' /\ [ServiceNext]_svcVars

(* The idle workers are workers. *)
LEMMA IdleWorkers == RIdle \in RWorkers /\ RIdle.pc = "idle" /\ SIdle \in SWorkers /\ SIdle.pc = "idle"
  BY SpecTypes DEF RIdle, RWorkers, SIdle, SWorkers, NoIds

(* What users write is well typed. *)
LEMMA UserTyped == ASSUME TypeOK, WorkersHold, User PROVE Typed
<1>1. /\ UNCHANGED <<svcVars, sw, rw, runs, outdated, fires, faults, restarts>>
      /\ edits < MaxEdits /\ edits' = edits + 1
  BY DEF User, WriteSecret, WriteSchedule, WriteResource, runVars
<1>2. /\ WorkersHold' /\ ServiceTypeOK' /\ sw' \in SWorkers /\ rw' \in [Kinds -> RWorkers]
      /\ edits' \in 0..MaxEdits /\ faults' \in 0..MaxFaults /\ restarts' \in 0..MaxRestarts
  <2>1. UNCHANGED <<m, entries, nextId, gauge, adding, swapping>>
    BY <1>1 DEF svcVars
  <2> QED
    BY <1>1, <2>1, SpecsAssumption
       DEF TypeOK, WorkersHold, ResourceWorkersHold, ScheduleWorkerHolds, ServiceTypeOK
<1>3. /\ sched' \in [Schedules -> ScheduleSpecs \cup {None}]
      /\ res' \in [Resources -> ResourceSpecs \cup {None}] /\ secret' \in BOOLEAN
      /\ schedStatus' \in [Schedules -> Status] /\ resStatus' \in [Resources -> Status]
      /\ schedQ' \subseteq Schedules /\ resQ' \subseteq Resources
  <2>1. CASE WriteSecret
    BY <2>1 DEF WriteSecret, TypeOK
  <2>2. ASSUME NEW s \in Schedules, NEW spec \in ScheduleSpecs \cup {None}, WriteSchedule(s, spec)
        PROVE  <1>3!:
    BY <2>2, SpecTypes DEF WriteSchedule, TypeOK
  <2>3. ASSUME NEW r \in Resources, NEW spec \in ResourceSpecs \cup {None}, WriteResource(r, spec)
        PROVE  <1>3!:
    BY <2>3, SpecTypes DEF WriteResource, TypeOK
  <2> QED
    BY <2>1, <2>2, <2>3 DEF User
<1> QED
  BY <1>1, <1>2, <1>3 DEF Typed, TypeOK

(* So is what a reconcile starts with. *)
LEMMA StartTyped ==
    ASSUME TypeOK, WorkersHold, NEW r \in Resources, ReconcileResource(r) PROVE Typed
<1>1. /\ UNCHANGED <<sched, schedStatus, res, resStatus, secret, schedQ, sw>>
      /\ UNCHANGED <<runs, outdated, fires, edits, faults, restarts>>
      /\ resQ' \subseteq Resources /\ KindOf[r] \in Kinds
  BY SpecsAssumption DEF ReconcileResource, ReconcileDeleted, ReconcileWithoutSecret,
         ReconcileInactive, ReconcileActive, Begin, apiVars, runVars, cntVars, TypeOK, Retry
<1>2. [ServiceNext]_svcVars
  BY DEF ReconcileResource, ReconcileDeleted, ReconcileWithoutSecret,
         ReconcileInactive, ReconcileActive, ServiceNext
<1>3. ServiceTypeOK'
  BY <1>2, TypeStep DEF TypeOK
<1>4. ScheduleWorkerHolds'
  BY <1>1 DEF WorkersHold, ScheduleWorkerHolds
<1>5. CASE rw' = rw
  BY <1>1, <1>2, <1>3, <1>4, <1>5 DEF Typed, TypeOK, WorkersHold, ResourceWorkersHold
<1>6. CASE ReconcileInactive(r) \/ ReconcileActive(r)
  <2> DEFINE n == rw'[KindOf[r]]
  <2>1. /\ res[r] \in ResourceSpecs
        /\ n \in RWorkers /\ n.r = r /\ n.spec = res[r]
        /\ n.todo = {} /\ n.scheduled = {}
        /\ rw' = [rw EXCEPT ![KindOf[r]] = n]
        /\ n.pc \in {"status", "snapshot"}
        /\ n.pc = "snapshot" => res[r].active /\ ~n.err /\ n.plan \in ScheduleSpecs
    BY <1>6, StartEffect
  <2> HIDE DEF n
  <2>2. rw' \in [Kinds -> RWorkers] /\ rw'[KindOf[r]] = n
        /\ \A k \in Kinds \ {KindOf[r]} : rw'[k] = rw[k]
    BY <1>1, <2>1 DEF TypeOK
  <2>3. ResourceWorkersHold'
    BY <2>1, <2>2 DEF WorkersHold, ResourceWorkersHold
  <2>4. TypeOK'
    BY <1>1, <1>3, <2>2 DEF TypeOK
  <2> QED
    BY <1>2, <1>4, <2>3, <2>4 DEF Typed, WorkersHold
<1> QED
  BY <1>5, <1>6 DEF ReconcileResource, ReconcileDeleted, ReconcileWithoutSecret

(* The middle steps of a worker. *)
LEMMA MoveTyped ==
    ASSUME TypeOK, WorkersHold, [ServiceNext]_svcVars,
           NEW k \in Kinds, rw[k].pc \notin {"idle", "status"}, Moves(k, rw[k], rw'[k]),
           rw'[k].pc \notin {"idle", "snapshot"},
           rw'[k].pc # "status" => ~rw'[k].err, rw'[k].pc = "status" => rw'[k].todo = {}
    PROVE  Typed
<1>1. /\ UNCHANGED <<sched, schedStatus, res, resStatus, secret, schedQ, sw, resQ>>
      /\ UNCHANGED <<runs, outdated, fires, edits, faults, restarts>>
      /\ rw'[k] \in RWorkers /\ rw'[k].r = rw[k].r /\ rw'[k].spec = rw[k].spec
      /\ rw'[k].plan = rw[k].plan
      /\ rw' \in [Kinds -> RWorkers] /\ \A j \in Kinds \ {k} : rw'[j] = rw[j]
  BY DEF Moves, Others, apiVars, runVars, cntVars, TypeOK
<1>2. TypeOK'
  BY <1>1, TypeStep DEF TypeOK
<1>3. ResourceWorkersHold'
  BY <1>1 DEF WorkersHold, ResourceWorkersHold
<1>4. ScheduleWorkerHolds'
  BY <1>1 DEF WorkersHold, ScheduleWorkerHolds
<1> QED
  BY <1>2, <1>3, <1>4 DEF Typed, WorkersHold

(* The calls a worker makes are calls of the registry. *)
LEMMA ContinueCalls ==
    ASSUME TypeOK, WorkersHold, NEW k \in Kinds, Continue(k) PROVE [ServiceNext]_svcVars
<1>1. CASE Snapshot(k)
  <2>1. rw[k].pc # "idle" /\ RemoveActionsOfResourceFromNonCurrentSchedule(rw[k].spec.schedule, rw[k].r)
    BY <1>1 DEF Snapshot
  <2> QED
    BY <2>1, WorkerFacts DEF ServiceNext
<1>2. CASE Record(k)
  BY <1>2 DEF Record, ServiceNext
<1>3. CASE UpdateStatus(k)
  BY <1>3 DEF UpdateStatus
<1>4. ASSUME NEW a \in Actions, Prune(k, a) \/ TurnOff(k, a) PROVE [ServiceNext]_svcVars
  <2>1. rw[k].pc # "idle" /\ (Remove(Key(rw[k], a)) \/ UNCHANGED svcVars)
    BY <1>4 DEF Prune, TurnOff
  <2> QED
    BY <2>1, WorkerFacts DEF ServiceNext
<1>5. ASSUME NEW a \in Actions, TurnOn(k, a) PROVE [ServiceNext]_svcVars
  <2>1. /\ rw[k].pc # "idle"
        /\ UNCHANGED svcVars \/ \E c \in ValidCrons : AddFunc(Key(rw[k], a), c)
    BY <1>5, TurnOnEffect
  <2> QED
    BY <2>1, WorkerFacts, NamesAssumption DEF ServiceNext
<1> QED
  BY <1>1, <1>2, <1>3, <1>4, <1>5 DEF Continue

(* So is what its steps make of it. *)
LEMMA ContinueTyped ==
    ASSUME TypeOK, WorkersHold, NEW k \in Kinds, Continue(k) PROVE Typed
<1>0. [ServiceNext]_svcVars
  BY ContinueCalls
<1>h. rw[k].pc \notin {"idle", "status"} => ~rw[k].err
  BY DEF WorkersHold, ResourceWorkersHold
<1>1. CASE Snapshot(k)
  BY <1>0, <1>1, <1>h, SnapshotEffect, MoveTyped DEF InLoop
<1>2. CASE Record(k)
  BY <1>0, <1>2, <1>h, RecordEffect, MoveTyped DEF InLoop
<1>3. CASE UpdateStatus(k)
  <2>1. /\ UNCHANGED <<sched, schedStatus, res, secret, schedQ, sw, runs, fires, edits, restarts>>
        /\ outdated' \subseteq outdated
        /\ rw' = [rw EXCEPT ![k] = RIdle] /\ rw[k].pc = "status"
        /\ resStatus' = resStatus \/ resStatus' = [resStatus EXCEPT ![rw[k].r] = rw[k].status]
        /\ resQ' = resQ \/ resQ' = resQ \cup {rw[k].r}
        /\ faults' = faults \/ (faults < MaxFaults /\ faults' = faults + 1)
    BY <1>3 DEF UpdateStatus, Goto, Retry
  <2>2. rw[k].r \in Resources /\ rw[k].status \in Status
    BY <2>1, WorkerFacts
  <2>3. TypeOK'
    BY <1>0, <2>1, <2>2, TypeStep, IdleWorkers, SpecsAssumption DEF TypeOK
  <2>4. rw'[k] = RIdle /\ \A j \in Kinds \ {k} : rw'[j] = rw[j]
    BY <2>1 DEF TypeOK
  <2>5. WorkersHold'
    BY <2>1, <2>4, IdleWorkers DEF WorkersHold, ResourceWorkersHold, ScheduleWorkerHolds
  <2> QED
    BY <1>0, <2>3, <2>5 DEF Typed
<1>4. ASSUME NEW a \in Actions, Prune(k, a) PROVE Typed
  <2>1. /\ rw[k].pc = "prune" /\ Moves(k, rw[k], rw'[k]) /\ rw'[k].err = rw[k].err
        /\ rw'[k].pc = "prune" \/ InLoop(rw'[k])
    BY <1>4, PruneEffect
  <2> QED
    BY <1>0, <1>h, <2>1, MoveTyped DEF InLoop
<1>5. ASSUME NEW a \in Actions, TurnOff(k, a) PROVE Typed
  BY <1>0, <1>5, <1>h, TurnOffEffect, MoveTyped DEF InLoop
<1>6. ASSUME NEW a \in Actions, TurnOn(k, a) PROVE Typed
  <2>1. /\ rw[k].pc = "schedule" /\ Moves(k, rw[k], rw'[k])
        /\ \/ InLoop(rw'[k]) /\ rw'[k].err = rw[k].err
           \/ rw'[k].pc = "status" /\ rw'[k].todo = {}
           \/ rw'[k].pc = "record" /\ rw'[k].err = rw[k].err
    BY <1>6, TurnOnEffect
  <2> QED
    BY <1>0, <1>h, <2>1, MoveTyped DEF InLoop
<1> QED
  BY <1>1, <1>2, <1>3, <1>4, <1>5, <1>6 DEF Continue

(* So are the steps of the Schedule controller. *)
LEMMA ScheduleTyped ==
    ASSUME TypeOK, WorkersHold, (\E s \in Schedules : ReconcileSchedule(s)) \/ ContinueSchedule
    PROVE  Typed
<1>1. ASSUME NEW s \in Schedules, ReconcileSchedule(s) PROVE Typed
  <2>1. /\ UNCHANGED <<m, entries, nextId, gauge, adding, swapping>> /\ UNCHANGED svcVars
        /\ UNCHANGED <<sched, schedStatus, res, resStatus, secret, resQ, rw>>
        /\ UNCHANGED <<runs, outdated, fires, edits, faults, restarts>>
        /\ schedQ' \subseteq schedQ /\ sw.pc = "idle"
    BY <1>1, StartScheduleEffect DEF svcVars, apiVars, runVars, cntVars
  <2>2. \/ sw' = sw
        \/ /\ sw' \in SWorkers /\ sw'.s = s /\ sw'.spec \in ScheduleSpecs
           /\ sw'.todo = {} \/ sw'.todo = GetActions(s)
    BY <1>1, StartScheduleEffect
  <2>3. TypeOK'
    BY <2>1, <2>2 DEF TypeOK, ServiceTypeOK
  <2>4. WorkersHold'
    BY <2>1, <2>2 DEF WorkersHold, ResourceWorkersHold, ScheduleWorkerHolds, GetActions
  <2> QED
    BY <2>1, <2>3, <2>4 DEF Typed
<1>2. ASSUME [ServiceNext]_svcVars, UNCHANGED <<apiVars, schedQ, resQ, rw, runVars, cntVars>>,
             sw.pc # "idle", sw' \in SWorkers, sw'.s = sw.s, sw'.spec = sw.spec,
             sw'.todo \subseteq sw.todo
      PROVE  Typed
  <2>1. /\ UNCHANGED <<sched, schedStatus, res, resStatus, secret, schedQ, resQ, rw>>
        /\ UNCHANGED <<runs, outdated, fires, edits, faults, restarts>>
    BY <1>2 DEF apiVars, runVars, cntVars
  <2>2. TypeOK'
    BY <1>2, <2>1, TypeStep DEF TypeOK
  <2>3. WorkersHold'
    BY <1>2, <2>1 DEF WorkersHold, ResourceWorkersHold, ScheduleWorkerHolds
  <2> QED
    BY <1>2, <2>2, <2>3 DEF Typed
<1>3. ASSUME NEW x \in Keys, Refresh(x) PROVE Typed
  <2>1. /\ sw.pc = "refresh" /\ UNCHANGED <<apiVars, schedQ, resQ, rw, runVars, cntVars>>
        /\ sw' \in SWorkers /\ sw'.s = sw.s /\ sw'.spec = sw.spec /\ sw'.todo \subseteq sw.todo
        /\ \/ UNCHANGED svcVars
           \/ sw.spec.actions[x[2]] # None /\ UpdateAdd(x, sw.spec.actions[x[2]].cron)
    BY <1>3, RefreshEffect
  <2>2. x[2] \in Actions /\ sw.spec \in ScheduleSpecs
    BY <2>1 DEF Keys, WorkersHold, ScheduleWorkerHolds
  <2>3. [ServiceNext]_svcVars
    BY <2>1, <2>2, SpecTypes DEF ServiceNext
  <2> QED
    BY <2>1, <2>3, <1>2
<1>4. CASE Swap
  <2>1. [ServiceNext]_svcVars /\ sw.pc # "idle"
    BY <1>4, SwapEffect DEF ServiceNext
  <2> QED
    BY <1>2, <1>4, <2>1, SwapEffect
<1>5. CASE UpdateScheduleStatus
  <2>1. /\ UNCHANGED <<sched, res, resStatus, secret, resQ, rw, edits, restarts>>
        /\ UNCHANGED <<runs, outdated, fires>>
        /\ sw' = SIdle /\ sw.pc = "status" /\ UNCHANGED svcVars
        /\ UNCHANGED <<m, entries, nextId, gauge, adding, swapping>>
        /\ schedStatus' = schedStatus \/ schedStatus' = [schedStatus EXCEPT ![sw.s] = sw.status]
        /\ schedQ' = schedQ \/ schedQ' = schedQ \cup {sw.s}
        /\ faults' = faults \/ (faults < MaxFaults /\ faults' = faults + 1)
    BY <1>5 DEF UpdateScheduleStatus, Retry, svcVars, runVars
  <2>2. sw.s \in Schedules /\ sw.status \in Status
    BY <2>1 DEF WorkersHold, ScheduleWorkerHolds, TypeOK, SWorkers
  <2>3. TypeOK'
    BY <2>1, <2>2, IdleWorkers, SpecsAssumption DEF TypeOK, ServiceTypeOK
  <2>4. WorkersHold'
    BY <2>1, IdleWorkers DEF WorkersHold, ResourceWorkersHold, ScheduleWorkerHolds
  <2> QED
    BY <2>1, <2>3, <2>4 DEF Typed
<1> QED
  BY <1>1, <1>3, <1>4, <1>5 DEF ContinueSchedule

(* So is what a restart leaves. *)
LEMMA RestartTyped == ASSUME TypeOK, WorkersHold, OperatorRestart PROVE Typed
<1>1. /\ UNCHANGED <<sched, schedStatus, res, resStatus, secret, fires, edits, faults>>
      /\ runs' \subseteq runs /\ outdated' = {}
      /\ schedQ' = Existing(sched) /\ resQ' = Existing(res)
      /\ sw' = SIdle /\ rw' = [k \in Kinds |-> RIdle]
      /\ restarts < MaxRestarts /\ restarts' = restarts + 1
  BY DEF OperatorRestart, apiVars
<1>2. [ServiceNext]_svcVars
  BY DEF OperatorRestart, ServiceNext
<1>3. Existing(sched) \subseteq Schedules /\ Existing(res) \subseteq Resources
  BY DEF TypeOK, Existing
<1>4. TypeOK'
  BY <1>1, <1>2, <1>3, TypeStep, IdleWorkers, SpecsAssumption DEF TypeOK
<1>5. WorkersHold'
  BY <1>1, IdleWorkers DEF WorkersHold, ResourceWorkersHold, ScheduleWorkerHolds
<1> QED
  BY <1>2, <1>4, <1>5 DEF Typed

(* A run changes one condition in the status of a resource, or nothing; what *)
(* it writes is well typed.                                                  *)
StatusKept(r) ==
    /\ resStatus'[r].ready = resStatus[r].ready
    /\ \A a \in Actions : resStatus'[r].cond[a] \in RunReasons \cup {resStatus[r].cond[a]}
    /\ resStatus'[r].scale \in ScaleReasons \cup {resStatus[r].scale}

(* What the runs may write to. *)
RunsMayWrite ==
    /\ UNCHANGED <<svcVars, sched, schedStatus, res, secret, schedQ, resQ, sw, rw>>
    /\ UNCHANGED <<edits, restarts>>
    /\ runs' \subseteq Runs /\ outdated' \subseteq Resources /\ fires' \in 0..MaxFires
    /\ faults' \in 0..MaxFaults /\ resStatus' \in [Resources -> Status]
    /\ \A r \in Resources : StatusKept(r)

LEMMA RunEffect == ASSUME TypeOK, Run PROVE RunsMayWrite
<1>0. /\ runs \subseteq Runs /\ outdated \subseteq Resources /\ fires \in 0..MaxFires
      /\ faults \in 0..MaxFaults /\ resStatus \in [Resources -> Status]
      /\ MaxFires \in Nat /\ MaxFaults \in Nat
  BY SpecsAssumption DEF TypeOK
<1>1. resStatus' = resStatus => \A r \in Resources : StatusKept(r)
  BY DEF StatusKept
<1>2. ASSUME NEW e \in entries, Fire(e) PROVE RunsMayWrite
  <2>1. [n |-> fires, key |-> e.key, at |-> "fired"] \in Runs
    BY <1>0 DEF Runs, TypeOK, ServiceTypeOK, Entries
  <2> QED
    BY <1>0, <1>1, <1>2, <2>1 DEF Fire, RunsMayWrite, apiVars, cntVars
<1>3. ASSUME NEW j \in runs, StartAction(j) PROVE RunsMayWrite
  <2>1. [j EXCEPT !.at = "running"] \in Runs
    BY <1>0 DEF Runs
  <2> QED
    BY <1>0, <1>1, <1>3, <2>1 DEF StartAction, RunsMayWrite, apiVars, cntVars
<1>4. ASSUME NEW j \in runs, RunEnds(j) PROVE RunsMayWrite
  BY <1>0, <1>1, <1>4 DEF RunEnds, RunsMayWrite, apiVars, cntVars
<1>5. ASSUME NEW r \in Resources, NEW a \in Actions, NEW reason \in RunReasons,
             RunWrites(r, [resStatus[r] EXCEPT !.cond[a] = reason])
      PROVE  /\ resStatus' \in [Resources -> Status] /\ outdated' \subseteq Resources
             /\ \A q \in Resources : StatusKept(q)
  <2> DEFINE cond == [resStatus[r].cond EXCEPT ![a] = reason]
             st == [resStatus[r] EXCEPT !.cond = cond]
  <2>1. resStatus[r] \in Status /\ resStatus[r].cond \in [Actions -> Reasons]
    BY <1>0 DEF Status
  <2>2. cond \in [Actions -> Reasons] /\ \A b \in Actions : cond[b] \in RunReasons \cup {resStatus[r].cond[b]}
    BY <2>1 DEF Reasons
  <2>3. resStatus' = [resStatus EXCEPT ![r] = st] /\ outdated' \subseteq Resources
    BY <1>0, <1>5 DEF RunWrites
  <2> HIDE DEF cond
  <2>4. /\ st \in Status /\ st.ready = resStatus[r].ready /\ st.cond = cond
        /\ st.scale = resStatus[r].scale
    BY <2>1, <2>2 DEF Status
  <2> HIDE DEF st
  <2> QED
    BY <1>0, <2>2, <2>3, <2>4 DEF StatusKept
<1>6. ASSUME NEW r \in Resources, NEW reason \in ScaleReasons,
             RunWrites(r, [resStatus[r] EXCEPT !.scale = reason])
      PROVE  /\ resStatus' \in [Resources -> Status] /\ outdated' \subseteq Resources
             /\ \A q \in Resources : StatusKept(q)
  <2> DEFINE st == [resStatus[r] EXCEPT !.scale = reason]
  <2>1. resStatus[r] \in Status /\ reason \in Reasons
    BY <1>0 DEF ScaleReasons, Reasons, RunReasons
  <2>2. resStatus' = [resStatus EXCEPT ![r] = st] /\ outdated' \subseteq Resources
    BY <1>0, <1>6 DEF RunWrites
  <2>3. /\ st \in Status /\ st.ready = resStatus[r].ready /\ st.cond = resStatus[r].cond
        /\ st.scale = reason
    BY <2>1 DEF Status
  <2> HIDE DEF st
  <2> QED
    BY <1>0, <2>2, <2>3 DEF StatusKept
<1>7. ASSUME NEW j \in runs
      PROVE  j.key[3] \in Resources /\ j.key[2] \in Actions /\ [j EXCEPT !.at = "execution"] \in Runs
  BY <1>0 DEF Runs, Keys
<1>8. \A r, st : RunWrites(r, st) =>
         /\ UNCHANGED <<svcVars, sched, schedStatus, res, secret, schedQ, resQ, sw, rw>>
         /\ UNCHANGED <<fires, edits, restarts>>
  BY DEF RunWrites
<1>9. ASSUME NEW j \in runs, JobReports(j) PROVE RunsMayWrite
  BY <1>0, <1>5, <1>7, <1>8, <1>9 DEF JobReports, RunsMayWrite
<1>10. ASSUME NEW j \in runs, JobScales(j) PROVE RunsMayWrite
  <2>1. CASE RunWrites(j.key[3], [resStatus[j.key[3]] EXCEPT !.cond[j.key[2]] = "Ran"])
    BY <1>0, <1>5, <1>7, <1>8, <1>10, <2>1 DEF JobScales, RunReasons, RunsMayWrite
  <2>2. CASE UNCHANGED <<svcVars, apiVars, schedQ, resQ, sw, rw, outdated, fires, edits, restarts>>
    BY <1>0, <1>1, <1>7, <1>10, <2>2 DEF JobScales, apiVars, RunsMayWrite
  <2> QED
    BY <1>10, <2>1, <2>2 DEF JobScales
<1>11. ASSUME NEW j \in runs, ExecutionReports(j) PROVE RunsMayWrite
  <2>1. PICK reason \in ScaleReasons :
           RunWrites(j.key[3], [resStatus[j.key[3]] EXCEPT !.scale = reason])
    BY <1>11 DEF ExecutionReports, ScaleReasons
  <2>2. runs' \subseteq runs /\ faults' \in 0..MaxFaults
    BY <1>0, <1>11 DEF ExecutionReports
  <2> QED
    BY <1>0, <1>6, <1>7, <1>8, <2>1, <2>2 DEF RunsMayWrite
<1> QED
  BY <1>2, <1>3, <1>4, <1>9, <1>10, <1>11 DEF Run

(* What runs do is well typed. *)
LEMMA RunTyped == ASSUME TypeOK, WorkersHold, Run PROVE Typed
<1>1. /\ UNCHANGED <<m, entries, nextId, gauge, adding, swapping>> /\ UNCHANGED svcVars
      /\ UNCHANGED <<sched, schedStatus, res, secret, schedQ, resQ, sw, rw, edits, restarts>>
      /\ runs' \subseteq Runs /\ outdated' \subseteq Resources /\ fires' \in 0..MaxFires
      /\ faults' \in 0..MaxFaults /\ resStatus' \in [Resources -> Status]
  BY RunEffect DEF RunsMayWrite, svcVars
<1> QED
  BY <1>1 DEF Typed, TypeOK, ServiceTypeOK, WorkersHold, ResourceWorkersHold,
              ScheduleWorkerHolds

(* Every step keeps the types. *)
LEMMA NextTyped == ASSUME TypeOK, WorkersHold, [Next]_vars PROVE Typed
<1>1. CASE UNCHANGED vars
  <2>1. /\ UNCHANGED <<m, entries, nextId, gauge, adding, swapping>> /\ UNCHANGED svcVars
        /\ UNCHANGED <<sched, schedStatus, res, resStatus, secret, schedQ, resQ, sw, rw>>
        /\ UNCHANGED <<runs, outdated, fires, edits, faults, restarts>>
    BY <1>1 DEF vars, svcVars, apiVars, runVars, cntVars
  <2> QED
    BY <2>1 DEF Typed, TypeOK, ServiceTypeOK, WorkersHold, ResourceWorkersHold,
                ScheduleWorkerHolds
<1> QED
  BY <1>1, UserTyped, StartTyped, ContinueTyped, ScheduleTyped, RunTyped, RestartTyped DEF Next

-----------------------------------------------------------------------------
(* What a step leaves alone of a resource that it is not about: it is in its *)
(* worker's hands as before, its spec is unchanged and its status written by *)
(* runs at most, or it is queued, and the same keys of it are tracked.       *)
SameTracked(r) == \A x \in Keys : x[3] = r => (m'[x] = 0 <=> m[x] = 0)

Frame(r) ==
    /\ Busy(r)' <=> Busy(r)
    /\ Busy(r) => rw'[KindOf[r]] = rw[KindOf[r]]
    /\ r \notin resQ' => r \notin resQ /\ res'[r] = res[r] /\ StatusKept(r)
    /\ SameTracked(r)
    /\ \A e \in adding : e.key[3] = r => e \in adding'

(* What every step keeps of a resource; and it comes to rest only with the   *)
(* status its worker has written.                                            *)
Kept(r) ==
    /\ ResourceInv(r)'
    /\ Quiet(r)' => Reported(r)' \/ (Quiet(r) /\ SameTracked(r))

(* A step that does not touch a resource, its worker or its keys keeps what  *)
(* holds of it.                                                              *)
LEMMA FrameKeeps ==
    ASSUME TypeOK, WorkersHold, NEW r \in Resources, ResourceInv(r), Frame(r)
    PROVE  Kept(r)
<1>1. CASE Busy(r)
  <2> DEFINE w == rw[KindOf[r]]
  <2>1. Busy(r)' /\ rw'[KindOf[r]] = w /\ SpecIsCurrent(r) /\ DoneSoFar(r)
    BY <1>1 DEF Frame, ResourceInv
  <2>2. w \in RWorkers /\ w.r = r /\ w.todo \subseteq Actions /\ w.scheduled \subseteq Actions
        /\ \A a \in Actions : Key(w, a) \in Keys /\ Key(w, a)[3] = r
    <3>1. KindOf[r] \in Kinds /\ w.pc # "idle" /\ w.r = r
      BY <1>1, SpecsAssumption DEF Busy
    <3> QED
      BY <3>1, WorkerFacts DEF Key, RWorkers
  <2>3. \A x \in Keys : x[3] = r => (Tracked(x)' <=> Tracked(x))
    BY DEF Frame, SameTracked, Tracked
  <2>4. \A a \in Actions : (\E e \in adding : e.key = Key(w, a)) =>
                               \E e \in adding' : e.key = Key(w, a)
    BY <2>2 DEF Frame
  <2>5. SpecIsCurrent(r)'
    BY <2>1 DEF SpecIsCurrent, Frame
  <2>6. DoneSoFar(r)'
    <3>1. \A a \in Actions : Key(w, a)' = Key(w, a)
      BY <2>1 DEF Key
    <3>2. \A a \in Actions : Tracked(Key(w, a))' <=> Tracked(Key(w, a))
      BY <2>2, <2>3, <3>1 DEF Tracked
    <3> QED
      BY <2>1, <2>2, <2>3, <2>4, <3>1, <3>2 DEF DoneSoFar
  <2> QED
    BY <2>1, <2>5, <2>6 DEF ResourceInv, Kept, Quiet
<1>2. CASE ~Busy(r)
  <2>1. ~Busy(r)'
    BY <1>2 DEF Frame
  <2>2. ASSUME r \notin resQ' PROVE Settled(r)'
    <3>1. Settled(r) /\ res'[r] = res[r] /\ StatusKept(r)
      BY <1>2, <2>2 DEF Frame, ResourceInv
    <3>2. Retired(r)' <=> Retired(r)
      BY <3>1 DEF Retired
    <3>3. ~Retired(r) => \A a \in Actions : <<res[r].schedule, a, r>> \in Keys
      <4>1. ~Retired(r) => res[r] \in ResourceSpecs
        BY DEF Retired, TypeOK
      <4> QED
        BY <4>1, SpecTypes DEF Keys
    <3>4. \A x \in Keys : x[3] = r => (Tracked(x)' <=> Tracked(x))
      BY DEF Frame, SameTracked, Tracked
    <3>5. ~Retired(r) => \A a \in Actions :
             Tracked(<<res[r].schedule, a, r>>)' <=> Tracked(<<res[r].schedule, a, r>>)
      BY <3>1, <3>3 DEF Frame, SameTracked, Tracked
    <3>6. CASE Retired(r)
      BY <3>1, <3>2, <3>4, <3>6 DEF Settled, StatusKept, Retired
    <3>7. CASE ~Retired(r)
      BY <3>1, <3>2, <3>4, <3>5, <3>7 DEF Settled, StatusKept, Retired
    <3> QED
      BY <3>6, <3>7
  <2>3. Quiet(r)' => Quiet(r) /\ SameTracked(r)
    BY <1>2 DEF Frame, Quiet
  <2> QED
    BY <2>1, <2>2, <2>3 DEF ResourceInv, Kept
<1> QED
  BY <1>1, <1>2

(* A middle step of a worker, for the resource in its hands. *)
LEMMA MoveKeeps ==
    ASSUME TypeOK, WorkersHold, NEW k \in Kinds, NEW r, r = rw[k].r, ResourceInv(r),
           rw[k].pc \notin {"idle", "status"}, Moves(k, rw[k], rw'[k]), rw'[k].pc # "idle",
           rw'[k].pc = "prune" =>
              /\ \A a \in rw'[k].todo \cup rw'[k].scheduled : m'[Key(rw[k], a)] # 0
              /\ \A a \in rw'[k].scheduled : rw[k].spec.actions[a] # "absent",
           ~rw'[k].err => \A x \in Keys : x[3] = r /\ m'[x] # 0 => x[1] = rw[k].spec.schedule,
           ~rw'[k].err /\ rw'[k].pc \in {"schedule", "record", "status"} =>
              \A a \in Actions \ rw'[k].todo :
                 /\ rw[k].spec.actions[a] = "off" => m'[Key(rw[k], a)] = 0
                 /\ rw[k].spec.actions[a] = "on" =>
                       \/ m'[Key(rw[k], a)] # 0 \/ rw'[k].status.cond[a] = "MissingAction"
                       \/ \E e \in adding' : e.key = Key(rw[k], a),
           ~rw'[k].err /\ rw'[k].pc = "status" => rw'[k].status.ready = "Active"
    PROVE  Kept(r)
<1> DEFINE w == rw[k]
           n == rw'[k]
<1>1. KindOf[r] = k /\ r \in Resources /\ w.spec.active
  BY DEF WorkersHold, ResourceWorkersHold
<1>2. n.r = r /\ n.spec = w.spec /\ res' = res /\ resQ' = resQ
  BY DEF Moves, Others, apiVars
<1>3. Busy(r) /\ Busy(r)'
  BY <1>1, <1>2 DEF Busy
<1>4. SpecIsCurrent(r)'
  BY <1>1, <1>2, <1>3 DEF ResourceInv, SpecIsCurrent
<1>5. \A a \in Actions : Key(n, a) = Key(w, a)
  BY <1>2 DEF Key
<1>6. n.todo \subseteq Actions /\ n.scheduled \subseteq Actions
  BY DEF Moves, RWorkers
<1>7. DoneSoFar(r)'
  <2>1. \A x : Tracked(x)' <=> m'[x] # 0
    BY DEF Tracked
  <2>2. \A a \in Actions : Tracked(Key(rw[KindOf[r]], a))' <=> m'[Key(w, a)] # 0
    BY <1>1, <1>5 DEF Tracked, Key
  <2>3. \A a \in Actions : Key(rw[KindOf[r]], a)' = Key(w, a)
    BY <1>1, <1>5 DEF Key
  <2> QED
    BY <1>1, <1>2, <1>6, <2>1, <2>2, <2>3 DEF DoneSoFar
<1> QED
  BY <1>3, <1>4, <1>7 DEF ResourceInv, Kept, Quiet

(* ... and for every other resource. *)
LEMMA MoveFrames ==
    ASSUME TypeOK, WorkersHold, NEW k \in Kinds,
           rw[k].pc \notin {"idle", "status"}, Moves(k, rw[k], rw'[k]), rw'[k].pc # "idle",
           NEW r \in Resources, r # rw[k].r,
           \A x \in Keys : x[3] = r => (m'[x] = 0 <=> m[x] = 0),
           \A e \in adding : e.key[3] = r => e \in adding'
    PROVE  Frame(r)
<1>1. /\ res' = res /\ resStatus' = resStatus /\ resQ' = resQ /\ rw'[k].r = rw[k].r
      /\ \A j \in Kinds \ {k} : rw'[j] = rw[j]
  BY DEF Moves, Others, apiVars, TypeOK
<1>2. KindOf[r] \in Kinds
  BY SpecsAssumption
<1> QED
  BY <1>1, <1>2 DEF Frame, Busy, StatusKept, SameTracked

-----------------------------------------------------------------------------
(* Every step keeps ResourceInv of every resource. *)
AllResourceInv == \A r \in Resources : ResourceInv(r)

(* Removed keys are not tracked, others are as they were. *)
LEMMA RemovedKeys ==
    ASSUME NEW ks, RemoveLocked(ks)
    PROVE  /\ \A x \in Keys : m'[x] = IF x \in ks THEN 0 ELSE m[x]
           /\ UNCHANGED <<nextId, adding, swapping>>
  BY DEF RemoveLocked

(* After the snapshot no job is left under another schedule. *)
LEMMA SnapshotKeeps ==
    ASSUME TypeOK, WorkersHold, AllResourceInv, NEW k \in Kinds, Snapshot(k),
           NEW r \in Resources
    PROVE  Kept(r)
<1> DEFINE w == rw[k]
           n == rw'[k]
<1>1. /\ w.pc = "snapshot" /\ Moves(k, w, n) /\ n.scheduled = {}
      /\ RemoveLocked(NonCurrent(w.spec.schedule, w.r))
      /\ \/ n.pc = "prune" /\ \A a \in n.todo : Tracked(Key(w, a))
         \/ InLoop(n) /\ n.todo = {a \in Actions : w.spec.actions[a] \in {"on", "off"}}
  BY SnapshotEffect
<1>2. /\ \A x \in Keys : m'[x] = IF x[1] # w.spec.schedule /\ x[3] = w.r THEN 0 ELSE m[x]
      /\ UNCHANGED adding
  BY <1>1, RemovedKeys DEF NonCurrent
<1>3. n.pc \in {"prune", "schedule", "status"}
  BY <1>1 DEF InLoop
<1>4. CASE r # w.r
  BY <1>1, <1>2, <1>3, <1>4, MoveFrames, FrameKeeps DEF AllResourceInv
<1>5. CASE r = w.r
  <2>1. \A a \in Actions : Key(w, a) \in Keys /\ Key(w, a)[1] = w.spec.schedule
    BY <1>1, WorkerFacts DEF Key
  <2>2. n.pc = "prune" => \A a \in n.todo \cup n.scheduled : m'[Key(w, a)] # 0
    <3>1. n.todo \subseteq Actions
      BY <1>1 DEF Moves, RWorkers
    <3> QED
      BY <1>1, <1>2, <2>1, <3>1 DEF Tracked, InLoop
  <2>3. \A x \in Keys : x[3] = r /\ m'[x] # 0 => x[1] = w.spec.schedule
    BY <1>2, <1>5
  <2>4. n.pc = "status" => n.status.ready = "Active"
    BY <1>1 DEF InLoop
  <2>5. n.pc \in {"schedule", "record", "status"} =>
           \A a \in Actions \ n.todo : w.spec.actions[a] \notin {"off", "on"}
    BY <1>1, <1>3
  <2> QED
    BY <1>1, <1>3, <1>5, <2>2, <2>3, <2>4, <2>5, MoveKeeps DEF AllResourceInv
<1> QED
  BY <1>4, <1>5

(* A job is pruned, or counted as scheduled. *)
LEMMA PruneKeeps ==
    ASSUME TypeOK, WorkersHold, AllResourceInv, NEW k \in Kinds, NEW a \in Actions, Prune(k, a),
           NEW r \in Resources
    PROVE  Kept(r)
<1> DEFINE w == rw[k]
           n == rw'[k]
<1>1. /\ w.pc = "prune" /\ a \in w.todo /\ Moves(k, w, n) /\ n.err = w.err
      /\ \/ /\ Remove(Key(w, a))
            /\ w.spec.actions[a] = "absent" /\ n.scheduled = w.scheduled
         \/ /\ UNCHANGED svcVars
            /\ \/ n.scheduled = w.scheduled
               \/ n.scheduled = w.scheduled \cup {a} /\ w.spec.actions[a] # "absent"
      /\ \/ n.pc = "prune" /\ n.todo = w.todo \ {a}
         \/ InLoop(n) /\ n.todo = Unsettled(n)
  BY PruneEffect
<1>2. /\ KindOf[w.r] = k /\ w.r \in Resources /\ \A b \in Actions : Key(w, b) \in Keys
      /\ w.todo \subseteq Actions /\ w.scheduled \subseteq Actions /\ ~w.err /\ w.spec.active
      /\ n.spec = w.spec
  BY <1>1, WorkerFacts DEF RWorkers, WorkersHold, ResourceWorkersHold, Moves
<1>3. \/ /\ w.spec.actions[a] = "absent"
         /\ \A x \in Keys : m'[x] = IF x = Key(w, a) THEN 0 ELSE m[x]
         /\ UNCHANGED adding
      \/ UNCHANGED <<m, adding>>
  BY <1>1, RemovedKeys DEF Remove, svcVars
<1>4. n.pc \in {"prune", "schedule", "status"}
  BY <1>1 DEF InLoop
<1>5. CASE r # w.r
  <2>1. \A x \in Keys : x[3] = r => m'[x] = m[x]
    BY <1>3, <1>5 DEF Key
  <2> QED
    BY <1>1, <1>3, <1>4, <1>5, <2>1, MoveFrames, FrameKeeps DEF AllResourceInv
<1>6. CASE r = w.r
  <2>1. Busy(r) /\ DoneSoFar(r)
    BY <1>1, <1>2, <1>6 DEF Busy, AllResourceInv, ResourceInv
  <2>2. /\ \A b \in w.todo \cup w.scheduled : m[Key(w, b)] # 0
        /\ \A b \in w.scheduled : w.spec.actions[b] # "absent"
        /\ \A x \in Keys : x[3] = r /\ m[x] # 0 => x[1] = w.spec.schedule
    BY <1>1, <1>2, <1>6, <2>1 DEF DoneSoFar, Tracked
  <2>3. \A b \in Actions : b # a => m'[Key(w, b)] = m[Key(w, b)]
    BY <1>2, <1>3 DEF Key
  <2>4. \A b \in n.scheduled : m'[Key(w, b)] # 0 /\ w.spec.actions[b] # "absent"
    BY <1>1, <1>2, <1>3, <2>2, <2>3
  <2>5. n.pc = "prune" => \A b \in n.todo \cup n.scheduled : m'[Key(w, b)] # 0
    BY <1>1, <1>2, <2>2, <2>3, <2>4 DEF InLoop
  <2>6. \A x \in Keys : x[3] = r /\ m'[x] # 0 => x[1] = w.spec.schedule
    BY <1>3, <2>2
  <2>7. n.pc = "status" => n.status.ready = "Active"
    BY <1>1 DEF InLoop
  <2>8. n.pc \in {"schedule", "record", "status"} =>
           \A b \in Actions \ n.todo : /\ w.spec.actions[b] # "off"
                                       /\ w.spec.actions[b] = "on" => b \in n.scheduled
    BY <1>1, <1>2 DEF Unsettled
  <2> QED
    BY <1>1, <1>4, <1>6, <2>4, <2>5, <2>6, <2>7, <2>8, MoveKeeps DEF AllResourceInv
<1> QED
  BY <1>5, <1>6

(* What the worker of k has done when it is in the action loop. *)
LEMMA LoopSoFar ==
    ASSUME TypeOK, WorkersHold, AllResourceInv, NEW k \in Kinds, rw[k].pc \in {"schedule", "record"}
    PROVE  /\ \A x \in Keys : x[3] = rw[k].r /\ m[x] # 0 => x[1] = rw[k].spec.schedule
           /\ \A b \in Actions \ rw[k].todo :
                 /\ rw[k].spec.actions[b] = "off" => m[Key(rw[k], b)] = 0
                 /\ rw[k].spec.actions[b] = "on" =>
                       \/ m[Key(rw[k], b)] # 0 \/ rw[k].status.cond[b] = "MissingAction"
                       \/ \E e \in adding : e.key = Key(rw[k], b)
<1> DEFINE w == rw[k]
<1>1. KindOf[w.r] = k /\ w.r \in Resources /\ ~w.err /\ w.spec.active
  BY DEF WorkersHold, ResourceWorkersHold
<1>2. DoneSoFar(w.r)
  BY <1>1 DEF Busy, AllResourceInv, ResourceInv
<1>3. /\ w.spec.active /\ ~w.err /\ w.pc # "snapshot" =>
            \A x \in Keys : x[3] = w.r /\ Tracked(x) => x[1] = w.spec.schedule
      /\ w.spec.active /\ ~w.err /\ w.pc \in {"schedule", "record", "status"} =>
              \A a \in Actions \ w.todo :
                 /\ w.spec.actions[a] = "off" => ~Tracked(Key(w, a))
                 /\ w.spec.actions[a] = "on" =>
                       \/ Tracked(Key(w, a)) \/ w.status.cond[a] = "MissingAction"
                       \/ \E e \in adding : e.key = Key(w, a)
  <2> HIDE DEF w
  <2>1. w = rw[KindOf[w.r]]
    BY <1>1 DEF w
  <2> QED
    BY <1>2, <2>1, Zenon DEF DoneSoFar
<1> QED
  BY <1>1, <1>3 DEF Tracked

(* An action that is off loses its job. *)
LEMMA TurnOffKeeps ==
    ASSUME TypeOK, WorkersHold, AllResourceInv, NEW k \in Kinds, NEW a \in Actions, TurnOff(k, a),
           NEW r \in Resources
    PROVE  Kept(r)
<1> DEFINE w == rw[k]
           n == rw'[k]
<1>1. /\ w.pc = "schedule" /\ w.spec.actions[a] = "off"
      /\ Moves(k, w, n) /\ n.err = w.err /\ Remove(Key(w, a))
      /\ InLoop(n) /\ n.todo = w.todo \ {a}
      /\ \A b \in Actions \ {a} : n.status.cond[b] = w.status.cond[b]
  BY TurnOffEffect
<1>2. /\ KindOf[w.r] = k /\ w.r \in Resources /\ \A b \in Actions : Key(w, b) \in Keys
      /\ w.todo \subseteq Actions /\ ~w.err /\ w.spec.active /\ n.spec = w.spec
  BY <1>1, WorkerFacts DEF WorkersHold, ResourceWorkersHold, Moves
<1>3. /\ \A x \in Keys : m'[x] = IF x = Key(w, a) THEN 0 ELSE m[x]
      /\ UNCHANGED adding
  BY <1>1, RemovedKeys DEF Remove
<1>4. n.pc \in {"schedule", "status"}
  BY <1>1 DEF InLoop
<1>5. CASE r # w.r
  <2>1. \A x \in Keys : x[3] = r => m'[x] = m[x]
    BY <1>3, <1>5 DEF Key
  <2> QED
    BY <1>1, <1>3, <1>4, <1>5, <2>1, MoveFrames, FrameKeeps DEF AllResourceInv
<1>6. CASE r = w.r
  <2>2. /\ \A x \in Keys : x[3] = r /\ m[x] # 0 => x[1] = w.spec.schedule
        /\ \A b \in Actions \ w.todo :
              /\ w.spec.actions[b] = "off" => m[Key(w, b)] = 0
              /\ w.spec.actions[b] = "on" =>
                    \/ m[Key(w, b)] # 0 \/ w.status.cond[b] = "MissingAction"
                    \/ \E e \in adding : e.key = Key(w, b)
    BY <1>1, <1>6, LoopSoFar
  <2>3. /\ \A b \in Actions : b # a => m'[Key(w, b)] = m[Key(w, b)]
        /\ m'[Key(w, a)] = 0
    BY <1>2, <1>3 DEF Key
  <2>4. \A x \in Keys : x[3] = r /\ m'[x] # 0 => x[1] = w.spec.schedule
    BY <1>3, <2>2
  <2>5. n.pc = "status" => n.status.ready = "Active"
    BY <1>1 DEF InLoop
  <2>6. \A b \in Actions \ n.todo :
           /\ w.spec.actions[b] = "off" => m'[Key(w, b)] = 0
           /\ w.spec.actions[b] = "on" =>
                 \/ m'[Key(w, b)] # 0 \/ n.status.cond[b] = "MissingAction"
                 \/ \E e \in adding' : e.key = Key(w, b)
    <3> TAKE b \in Actions \ n.todo
    <3>1. CASE b = a
      BY <1>1, <2>3, <3>1
    <3>2. CASE b # a
      BY <1>1, <1>3, <2>2, <2>3, <3>2
    <3> QED
      BY <3>1, <3>2
  <2> QED
    BY <1>1, <1>4, <1>6, <2>4, <2>5, <2>6, MoveKeeps DEF AllResourceInv
<1> QED
  BY <1>5, <1>6

(* An action that is on has its job, or Add is called for it, or it is       *)
(* missing.                                                                  *)
LEMMA TurnOnKeeps ==
    ASSUME TypeOK, WorkersHold, AllResourceInv, NEW k \in Kinds, NEW a \in Actions, TurnOn(k, a),
           NEW r \in Resources
    PROVE  Kept(r)
<1> DEFINE w == rw[k]
           n == rw'[k]
<1>1. /\ w.pc = "schedule" /\ w.spec.actions[a] = "on" /\ Moves(k, w, n)
      /\ \/ /\ UNCHANGED svcVars /\ InLoop(n) /\ n.err = w.err
            /\ n.todo = w.todo \ {a} /\ n.status.cond[a] = "MissingAction"
            /\ \A b \in Actions \ {a} : n.status.cond[b] = w.status.cond[b]
         \/ UNCHANGED svcVars /\ n.pc = "status" /\ n.todo = {} /\ n.err
         \/ /\ \E c \in ValidCrons : AddFunc(Key(w, a), c)
            /\ n.pc = "record" /\ n.err = w.err /\ n.todo = w.todo \ {a}
            /\ n.status = w.status
  BY TurnOnEffect
<1>2. m' = m /\ adding \subseteq adding'
  BY <1>1 DEF svcVars, AddFunc
<1>3. n.pc \in {"schedule", "record", "status"}
  BY <1>1 DEF InLoop
<1>4. CASE r # w.r
  <2>1. Frame(r)
    BY <1>1, <1>2, <1>3, <1>4, MoveFrames
  <2> QED
    BY <2>1, FrameKeeps DEF AllResourceInv
<1>5. CASE r = w.r
  <2>1. /\ \A x \in Keys : x[3] = r /\ m[x] # 0 => x[1] = w.spec.schedule
        /\ \A b \in Actions \ w.todo :
              /\ w.spec.actions[b] = "off" => m[Key(w, b)] = 0
              /\ w.spec.actions[b] = "on" =>
                    \/ m[Key(w, b)] # 0 \/ w.status.cond[b] = "MissingAction"
                    \/ \E e \in adding : e.key = Key(w, b)
    BY <1>1, <1>5, LoopSoFar
  <2>2. CASE n.err
    BY <1>1, <1>3, <1>5, <2>2, MoveKeeps DEF AllResourceInv
  <2>3. CASE ~n.err
    <3>1. n.pc = "status" => n.status.ready = "Active"
      BY <1>1, <2>3 DEF InLoop
    <3>2. n.todo = w.todo \ {a}
      BY <1>1, <2>3
    <3>3. \A b \in Actions \ {a} : n.status.cond[b] = w.status.cond[b]
      BY <1>1, <2>3
    <3>4. n.status.cond[a] = "MissingAction" \/ \E e \in adding' : e.key = Key(w, a)
      <4>1. ASSUME NEW c, AddFunc(Key(w, a), c) PROVE \E e \in adding' : e.key = Key(w, a)
        <5>1. [id |-> nextId, key |-> Key(w, a), spec |-> c] \in adding'
          BY <4>1 DEF AddFunc
        <5> QED
          BY <5>1
      <4> QED
        BY <1>1, <2>3, <4>1
    <3>5. \A b \in Actions \ n.todo :
             /\ w.spec.actions[b] = "off" => m'[Key(w, b)] = 0
             /\ w.spec.actions[b] = "on" =>
                   \/ m'[Key(w, b)] # 0 \/ n.status.cond[b] = "MissingAction"
                   \/ \E e \in adding' : e.key = Key(w, b)
      <4> TAKE b \in Actions \ n.todo
      <4>1. CASE b = a
        BY <1>1, <3>4, <4>1
      <4>2. CASE b # a
        BY <1>2, <2>1, <3>2, <3>3, <4>2
      <4> QED
        BY <4>1, <4>2
    <3>6. \A x \in Keys : x[3] = r /\ m'[x] # 0 => x[1] = w.spec.schedule
      BY <1>2, <2>1
    <3> QED
      BY <1>1, <1>3, <1>5, <3>1, <3>5, <3>6, MoveKeeps DEF AllResourceInv
  <2> QED
    BY <2>2, <2>3
<1> QED
  BY <1>4, <1>5

(* What Add was called for is in the map. *)
LEMMA RecordKeeps ==
    ASSUME TypeOK, WorkersHold, AllResourceInv, AddsAreOwned, NEW k \in Kinds, Record(k),
           NEW r \in Resources
    PROVE  Kept(r)
<1> DEFINE w == rw[k]
           n == rw'[k]
<1>1. /\ w.pc = "record" /\ Moves(k, w, n) /\ n.err = w.err
      /\ InLoop(n) /\ n.todo = w.todo
  BY RecordEffect
<1>2. PICK e \in adding :
         /\ KindOf[e.key[3]] = k /\ AddRecord(e)
         /\ \A b \in Actions \ {e.key[2]} : n.status.cond[b] = w.status.cond[b]
  BY RecordEffect
<1> DEFINE a == e.key[2]
<1>3. /\ e.key = Key(w, a) /\ w.spec.actions[a] = "on"
  BY <1>2 DEF AddsAreOwned
<1>4. e.key \in Keys /\ e.id # 0 /\ a \in Actions /\ m \in [Keys -> Nat]
  BY DEF TypeOK, ServiceTypeOK, Entries, Ids, Keys
<1>5. /\ \A x \in Keys : m'[x] = IF x = Key(w, a) THEN e.id ELSE m[x]
      /\ adding' = adding \ {e}
  BY <1>2, <1>3, <1>4 DEF AddRecord
<1>6. n.pc \in {"schedule", "status"}
  BY <1>1 DEF InLoop
<1>7. e.key[3] = w.r /\ e.key[1] = w.spec.schedule
  BY <1>3 DEF Key
<1>8. CASE r # w.r
  <2>1. \A x \in Keys : x[3] = r => m'[x] = m[x]
    BY <1>3, <1>5, <1>7, <1>8
  <2>2. \A f \in adding : f.key[3] = r => f \in adding'
    BY <1>5, <1>7, <1>8
  <2>3. Frame(r)
    BY <1>1, <1>6, <1>8, <2>1, <2>2, MoveFrames
  <2> QED
    BY <2>3, FrameKeeps DEF AllResourceInv
<1>9. CASE r = w.r
  <2>1. /\ \A x \in Keys : x[3] = r /\ m[x] # 0 => x[1] = w.spec.schedule
        /\ \A b \in Actions \ w.todo :
              /\ w.spec.actions[b] = "off" => m[Key(w, b)] = 0
              /\ w.spec.actions[b] = "on" =>
                    \/ m[Key(w, b)] # 0 \/ w.status.cond[b] = "MissingAction"
                    \/ \E f \in adding : f.key = Key(w, b)
    BY <1>1, <1>9, LoopSoFar
  <2>2. \A b \in Actions : Key(w, b) \in Keys /\ (b # a => Key(w, b) # Key(w, a))
    BY <1>1, WorkerFacts DEF Key
  <2>3. n.pc = "status" => n.status.ready = "Active"
    BY <1>1 DEF InLoop
  <2>4. \A x \in Keys : x[3] = r /\ m'[x] # 0 => x[1] = w.spec.schedule
    BY <1>3, <1>5, <1>7, <2>1
  <2>5. \A b \in Actions \ n.todo :
           /\ w.spec.actions[b] = "off" => m'[Key(w, b)] = 0
           /\ w.spec.actions[b] = "on" =>
                 \/ m'[Key(w, b)] # 0 \/ n.status.cond[b] = "MissingAction"
                 \/ \E f \in adding' : f.key = Key(w, b)
    <3> TAKE b \in Actions \ n.todo
    <3>1. CASE b = a
      BY <1>3, <1>4, <1>5, <2>2, <3>1
    <3>2. CASE b # a
      <4>1. m'[Key(w, b)] = m[Key(w, b)] /\ n.status.cond[b] = w.status.cond[b]
        BY <1>2, <1>5, <2>2, <3>2
      <4>2. \A f \in adding : f.key = Key(w, b) => f \in adding'
        BY <1>3, <1>5, <2>2, <3>2
      <4> QED
        BY <1>1, <2>1, <4>1, <4>2
    <3> QED
      BY <3>1, <3>2
  <2> QED
    BY <1>1, <1>6, <1>9, <2>3, <2>4, <2>5, MoveKeeps DEF AllResourceInv
<1> QED
  BY <1>8, <1>9

(* With the status written, the resource is settled; or it is queued again. *)
LEMMA UpdateStatusKeeps ==
    ASSUME TypeOK, WorkersHold, AllResourceInv, AddsAreOwned, NEW k \in Kinds, UpdateStatus(k),
           NEW r \in Resources
    PROVE  Kept(r)
<1> DEFINE w == rw[k]
<1>1. /\ w.pc = "status" /\ rw' = [rw EXCEPT ![k] = RIdle] /\ UNCHANGED <<m, adding, res>>
      /\ \/ /\ w.r \notin resQ /\ resStatus' = [resStatus EXCEPT ![w.r] = w.status]
            /\ \/ w.err /\ resQ' = resQ \cup {w.r}
               \/ ~w.err /\ resQ' = resQ
         \/ w.r \in resQ' /\ resStatus' = resStatus /\ resQ' = resQ \cup {w.r}
  <2>1. w.err \in BOOLEAN
    BY DEF TypeOK, RWorkers
  <2> QED
    BY <2>1 DEF UpdateStatus, Goto, Retry, svcVars
<1>2. /\ KindOf[w.r] = k /\ w.r \in Resources /\ w.todo = {} /\ KindOf[r] \in Kinds
      /\ rw'[k] = RIdle /\ \A j \in Kinds \ {k} : rw'[j] = rw[j]
  BY <1>1, SpecsAssumption DEF WorkersHold, ResourceWorkersHold, TypeOK
<1>3. CASE r # w.r
  <2>1. r \in resQ' <=> r \in resQ
    BY <1>1, <1>3
  <2>2. resStatus'[r] = resStatus[r]
    BY <1>1, <1>3 DEF TypeOK
  <2>3. Frame(r)
    BY <1>1, <1>2, <1>3, <2>1, <2>2, IdleWorkers DEF Frame, Busy, StatusKept, SameTracked
  <2> QED
    BY <2>3, FrameKeeps DEF AllResourceInv
<1>4. CASE r = w.r
  <2>1. ~Busy(r)'
    BY <1>2, <1>4, IdleWorkers DEF Busy
  <2>2. ASSUME r \notin resQ' PROVE Settled(r)' /\ Reported(r)'
    <3>1. ~w.err /\ r \notin resQ /\ resStatus'[r] = w.status
      BY <1>1, <1>4, <2>2 DEF TypeOK
    <3>2. SpecIsCurrent(r) /\ DoneSoFar(r)
      BY <1>1, <1>2, <1>4 DEF AllResourceInv, ResourceInv, Busy
    <3>3. w.spec = res[r] /\ res[r] \in ResourceSpecs /\ res[r] # None
      BY <1>1, <1>2, <1>4, <3>1, <3>2, SpecTypes
         DEF SpecIsCurrent, WorkersHold, ResourceWorkersHold
    <3>4. \A a \in Actions : Key(w, a) = <<res[r].schedule, a, r>>
      BY <1>4, <3>3 DEF Key
    <3>5. \A x : Tracked(x)' <=> Tracked(x)
      BY <1>1 DEF Tracked
    <3>6. CASE ~res[r].active
      <4>1. /\ w.status = DisabledStatus
            /\ \A x \in Keys : x[3] = r => ~Tracked(x)
        BY <1>2, <1>4, <3>2, <3>3, <3>6 DEF DoneSoFar
      <4> QED
        BY <1>1, <3>1, <3>3, <3>5, <3>6, <4>1, SpecTypes
           DEF Settled, Reported, Retired, NoConditions
    <3>7. CASE res[r].active
      <4>1. w.status.ready = "Active"
        BY <1>1, <1>2, <1>4, <3>1, <3>2, <3>3, <3>7 DEF DoneSoFar
      <4>a. /\ w.spec.active /\ ~w.err /\ w.pc # "snapshot" =>
                  \A x \in Keys : x[3] = r /\ Tracked(x) => x[1] = w.spec.schedule
            /\ w.spec.active /\ ~w.err /\ w.pc \in {"schedule", "record", "status"} =>
                  \A a \in Actions \ w.todo :
                     /\ w.spec.actions[a] = "off" => ~Tracked(Key(w, a))
                     /\ w.spec.actions[a] = "on" =>
                           \/ Tracked(Key(w, a)) \/ w.status.cond[a] = "MissingAction"
                           \/ \E e \in adding : e.key = Key(w, a)
        <5> HIDE DEF w
        <5>1. w = rw[KindOf[r]]
          BY <1>2, <1>4 DEF w
        <5> QED
          BY <3>2, <5>1, Zenon DEF DoneSoFar
      <4>2. \A x \in Keys : x[3] = r /\ Tracked(x) => x[1] = res[r].schedule
        BY <1>1, <3>1, <3>3, <3>7, <4>a
      <4>3. \A a \in Actions :
               /\ res[r].actions[a] = "off" => ~Tracked(Key(w, a))
               /\ res[r].actions[a] = "on" =>
                     \/ Tracked(Key(w, a)) \/ w.status.cond[a] = "MissingAction"
                     \/ \E e \in adding : e.key = Key(w, a)
        <5>1. Actions \ w.todo = Actions
          BY <1>2
        <5> QED
          BY <1>1, <3>1, <3>3, <3>7, <4>a, <5>1
      <4>4. ~ \E e \in adding : e.key[3] = r
        BY <1>1, <1>2, <1>4 DEF AddsAreOwned
      <4>5. \A x \in Keys : x[3] = r /\ Tracked(x) => res[r].actions[x[2]] # "off"
        <5> TAKE x \in Keys
        <5>1. x[3] = r /\ Tracked(x) => x = Key(w, x[2]) /\ x[2] \in Actions
          BY <3>4, <4>2 DEF Keys
        <5> QED
          BY <4>3, <5>1
      <4>6. \A a \in Actions : res[r].actions[a] = "on" =>
               Tracked(<<res[r].schedule, a, r>>) \/ w.status.cond[a] = "MissingAction"
        <5> TAKE a \in Actions
        <5>1. Key(w, a)[3] = r
          BY <1>4 DEF Key
        <5> QED
          BY <3>4, <4>3, <4>4, <5>1
      <4>7. ~Retired(r) /\ ~Retired(r)' /\ res' = res
        BY <1>1, <3>3, <3>7 DEF Retired
      <4>8. \A a \in Actions : Tracked(<<res[r].schedule, a, r>>)' <=> Tracked(<<res[r].schedule, a, r>>)
        BY <1>1 DEF Tracked
      <4> QED
        BY <3>1, <3>5, <3>7, <4>1, <4>2, <4>5, <4>6, <4>7, <4>8 DEF Settled, Reported
    <3> QED
      BY <3>6, <3>7, <3>3, SpecTypes
  <2> QED
    BY <2>1, <2>2 DEF ResourceInv, Kept, Quiet
<1> QED
  BY <1>3, <1>4

(* A reconcile starts from the spec there is. *)
LEMMA StartKeeps ==
    ASSUME TypeOK, WorkersHold, AllResourceInv, NEW q \in Resources, ReconcileResource(q),
           NEW r \in Resources
    PROVE  Kept(r)
<1>1. /\ UNCHANGED <<res, resStatus>> /\ q \in resQ /\ Idle(KindOf[q])
      /\ resQ' = resQ \ {q} \/ resQ' = resQ
  BY DEF ReconcileResource, ReconcileDeleted, ReconcileWithoutSecret, ReconcileInactive,
         ReconcileActive, Begin, apiVars, Retry
<1>2. /\ \A x \in Keys : m'[x] = m[x] \/ x[3] = q
      /\ UNCHANGED adding
  <2>1. RemoveResource(q) \/ UNCHANGED svcVars
    BY DEF ReconcileResource, ReconcileDeleted, ReconcileWithoutSecret, ReconcileInactive,
           ReconcileActive
  <2>2. CASE RemoveResource(q)
    BY <2>2, RemovedKeys DEF RemoveResource
  <2> QED
    BY <2>1, <2>2 DEF svcVars
<1>3. KindOf[q] \in Kinds /\ KindOf[r] \in Kinds /\ ~Busy(q)
  BY <1>1, SpecsAssumption DEF Busy, Idle
<1>4. CASE ReconcileWithoutSecret(q)
  <2>1. rw' = rw /\ m' = m /\ resQ' = resQ
    BY <1>1, <1>4 DEF ReconcileWithoutSecret, svcVars, Retry
  <2>2. Frame(r)
    BY <1>1, <1>2, <2>1 DEF Frame, Busy, StatusKept, SameTracked
  <2> QED
    BY <2>2, FrameKeeps DEF AllResourceInv
<1>5. CASE r # q /\ ~ReconcileWithoutSecret(q)
  <2>1. \/ rw' = rw
        \/ /\ rw' = [rw EXCEPT ![KindOf[q]] = rw'[KindOf[q]]] /\ rw'[KindOf[q]].r = q
    BY <1>5, StartEffect DEF ReconcileResource, ReconcileDeleted
  <2>2. Frame(r)
    BY <1>1, <1>2, <1>3, <1>5, <2>1 DEF Frame, Busy, Idle, TypeOK, StatusKept, SameTracked
  <2> QED
    BY <2>2, FrameKeeps DEF AllResourceInv
<1>6. CASE r = q /\ ReconcileDeleted(q)
  <2>1. rw' = rw /\ res[r] = None /\ RemoveResource(r)
    BY <1>6 DEF ReconcileDeleted
  <2>2. ~Busy(r)'
    BY <1>3, <1>6, <2>1 DEF Busy
  <2>3. \A x \in Keys : x[3] = r => ~Tracked(x)'
    BY <2>1, RemovedKeys DEF RemoveResource, Tracked
  <2>4. Settled(r)' /\ Reported(r)'
    BY <1>1, <2>1, <2>3 DEF Settled, Reported, Retired
  <2> QED
    BY <2>2, <2>4 DEF ResourceInv, Kept
<1>7. CASE r = q /\ (ReconcileInactive(q) \/ ReconcileActive(q))
  <2> DEFINE n == rw'[KindOf[r]]
  <2>1. /\ n.r = r /\ n.spec = res[r] /\ n.todo = {} /\ n.scheduled = {}
        /\ \/ /\ ~res[r].active /\ RemoveResource(r) /\ n.pc = "status" /\ ~n.err
              /\ n.status = DisabledStatus
           \/ res[r].active /\ n.pc = "status" /\ n.err
           \/ res[r].active /\ n.pc = "snapshot"
    BY <1>7, StartEffect
  <2>2. RemoveResource(r) => \A x \in Keys : x[3] = r => ~Tracked(x)'
    BY RemovedKeys DEF RemoveResource, Tracked
  <2>3. Busy(r)' /\ SpecIsCurrent(r)'
    BY <1>1, <2>1 DEF Busy, SpecIsCurrent
  <2>4. DoneSoFar(r)'
    BY <2>1, <2>2 DEF DoneSoFar
  <2> QED
    BY <2>3, <2>4 DEF ResourceInv, Kept, Quiet
<1> QED
  BY <1>4, <1>5, <1>6, <1>7 DEF ReconcileResource

(* An edit queues what it changes. *)
LEMMA UserKeeps ==
    ASSUME TypeOK, WorkersHold, AllResourceInv, User, NEW r \in Resources
    PROVE  Kept(r)
<1>1. UNCHANGED <<svcVars, rw>>
  BY DEF User, WriteSecret, WriteSchedule, WriteResource
<1>2. r \notin resQ' => r \notin resQ /\ res'[r] = res[r] /\ resStatus'[r] = resStatus[r]
  BY DEF User, WriteSecret, WriteSchedule, WriteResource, TypeOK
<1>3. Frame(r)
  BY <1>1, <1>2 DEF Frame, Busy, svcVars, StatusKept, SameTracked
<1> QED
  BY <1>3, FrameKeeps DEF AllResourceInv

(* The Schedule controller takes no job away and makes none. *)
LEMMA ScheduleKeeps ==
    ASSUME TypeOK, WorkersHold, ServiceInv, AllResourceInv, NEW r \in Resources,
           (\E s \in Schedules : ReconcileSchedule(s)) \/ ContinueSchedule
    PROVE  Kept(r)
<1>1. UNCHANGED <<res, resStatus, resQ, rw>>
  BY DEF ReconcileSchedule, ContinueSchedule, Refresh, Swap, UpdateScheduleStatus, apiVars
<1>2. /\ UNCHANGED adding
      /\ \A x \in Keys : m'[x] = 0 <=> m[x] = 0
  <2>1. CASE UpdateReplace
    <3>1. PICK u \in swapping : m' = [m EXCEPT ![u.key] = u.new] /\ UNCHANGED adding
      BY <2>1 DEF UpdateReplace
    <3>2. u.key \in Keys /\ u.new # 0 /\ m[u.key] # 0 /\ m \in [Keys -> Nat]
      BY DEF ServiceInv, SwapIsPrivate, ServiceTypeOK, Swaps, Ids
    <3> QED
      BY <3>1, <3>2
  <2>2. UpdateReplace \/ UNCHANGED <<m, adding>>
    BY DEF ReconcileSchedule, ContinueSchedule, Refresh, Swap, UpdateScheduleStatus,
           svcVars, UpdateAdd
  <2> QED
    BY <2>1, <2>2
<1>3. Frame(r)
  BY <1>1, <1>2 DEF Frame, Busy, StatusKept, SameTracked
<1> QED
  BY <1>3, FrameKeeps DEF AllResourceInv

(* A restart queues every resource. *)
LEMMA RestartKeeps ==
    ASSUME TypeOK, OperatorRestart, NEW r \in Resources PROVE Kept(r)
<1>1. /\ rw' = [k \in Kinds |-> RIdle] /\ resQ' = Existing(res) /\ res' = res
      /\ m' = [k \in Keys |-> 0] /\ KindOf[r] \in Kinds
  BY SpecsAssumption DEF OperatorRestart, Restart, apiVars
<1>2. ~Busy(r)'
  BY <1>1, IdleWorkers DEF Busy
<1>3. r \notin resQ' => res'[r] = None
  BY <1>1 DEF Existing, TypeOK
<1>4. \A x \in Keys : ~Tracked(x)'
  BY <1>1 DEF Tracked
<1> QED
  BY <1>2, <1>3, <1>4 DEF ResourceInv, Settled, Reported, Retired, Kept, Quiet

(* A run writes to the status only. *)
LEMMA RunKeeps ==
    ASSUME TypeOK, WorkersHold, AllResourceInv, Run, NEW r \in Resources PROVE Kept(r)
<1>1. UNCHANGED <<svcVars, res, resQ, rw>> /\ StatusKept(r)
  BY RunEffect DEF RunsMayWrite
<1>2. Frame(r)
  BY <1>1 DEF Frame, Busy, svcVars, SameTracked
<1> QED
  BY <1>2, FrameKeeps DEF AllResourceInv

(* No step breaks what holds of a resource. *)
LEMMA StepKeeps ==
    ASSUME TypeOK, WorkersHold, ServiceInv, AddsAreOwned, AllResourceInv, [Next]_vars,
           NEW r \in Resources
    PROVE  Kept(r)
<1>1. CASE UNCHANGED vars
  <2>1. UNCHANGED <<m, adding, res, resStatus, resQ, rw>>
    BY <1>1 DEF vars, svcVars, apiVars
  <2>2. Frame(r)
    BY <2>1 DEF Frame, Busy, StatusKept, SameTracked
  <2> QED
    BY <2>2, FrameKeeps DEF AllResourceInv
<1>2. ASSUME NEW k \in Kinds, Continue(k) PROVE Kept(r)
  BY <1>2, SnapshotKeeps, RecordKeeps, UpdateStatusKeeps, PruneKeeps, TurnOffKeeps, TurnOnKeeps
     DEF Continue
<1> QED
  BY <1>1, <1>2, UserKeeps, StartKeeps, ScheduleKeeps, RunKeeps, RestartKeeps DEF Next

LEMMA ResourceInvStep ==
    ASSUME TypeOK, WorkersHold, ServiceInv, AddsAreOwned, AllResourceInv, [Next]_vars
    PROVE  AllResourceInv'
  BY StepKeeps DEF AllResourceInv, Kept

-----------------------------------------------------------------------------
(* An Add under way stays with the worker that made the call. *)
LEMMA AddsStep ==
    ASSUME TypeOK, WorkersHold, AddsAreOwned, [Next]_vars PROVE AddsAreOwned'
<1>1. ASSUME adding' \subseteq adding,
             \A e \in adding' : rw'[KindOf[e.key[3]]] = rw[KindOf[e.key[3]]]
      PROVE  AddsAreOwned'
  BY <1>1 DEF AddsAreOwned, Key
<1>2. \A e \in adding : KindOf[e.key[3]] \in Kinds
  BY SpecsAssumption DEF TypeOK, ServiceTypeOK, Entries, Keys
<1>3. ASSUME adding' \subseteq adding, NEW k \in Kinds, rw[k].pc # "record",
             \A j \in Kinds \ {k} : rw'[j] = rw[j]
      PROVE  AddsAreOwned'
  <2>1. \A e \in adding' : rw'[KindOf[e.key[3]]] = rw[KindOf[e.key[3]]]
    BY <1>2, <1>3 DEF AddsAreOwned
  <2> QED
    BY <1>1, <1>3, <2>1
<1>a. CASE Run
  <2>1. UNCHANGED <<adding, rw>>
    BY <1>a, RunEffect DEF RunsMayWrite, svcVars
  <2> QED
    BY <1>1, <2>1
<1>4. CASE User \/ (\E s \in Schedules : ReconcileSchedule(s)) \/ ContinueSchedule \/ UNCHANGED vars
  <2>1. UNCHANGED <<adding, rw>>
    BY <1>4 DEF User, WriteSecret, WriteSchedule, WriteResource, ReconcileSchedule,
                ContinueSchedule, Refresh, Swap, UpdateScheduleStatus, UpdateAdd,
                UpdateReplace, svcVars, vars
  <2> QED
    BY <1>1, <2>1
<1>5. ASSUME NEW r \in Resources, ReconcileResource(r) PROVE AddsAreOwned'
  <2>1. KindOf[r] \in Kinds /\ rw[KindOf[r]].pc = "idle" /\ adding' = adding
    BY <1>5, SpecsAssumption
       DEF ReconcileResource, ReconcileDeleted, ReconcileWithoutSecret, ReconcileInactive,
           ReconcileActive, Begin, Idle, RemoveResource, RemoveLocked, svcVars
  <2>2. \A j \in Kinds \ {KindOf[r]} : rw'[j] = rw[j]
    BY <1>5 DEF ReconcileResource, ReconcileDeleted, ReconcileWithoutSecret,
           ReconcileInactive, ReconcileActive, Goto, TypeOK
  <2> QED
    BY <1>3, <2>1, <2>2
<1>6. ASSUME NEW k \in Kinds, Continue(k) PROVE AddsAreOwned'
  <2>1. \A j \in Kinds \ {k} : rw'[j] = rw[j]
    BY <1>6 DEF Continue, Snapshot, Record, UpdateStatus, Prune, TurnOff, TurnOn, Goto, TypeOK
  <2>2. CASE Record(k)
    <3>1. PICK e \in adding : KindOf[e.key[3]] = k /\ adding' = adding \ {e}
      BY <2>2 DEF Record, AddRecord
    <3>2. \A f \in adding' : KindOf[f.key[3]] # k
      BY <3>1 DEF AddsAreOwned
    <3> QED
      BY <1>1, <1>2, <2>1, <3>1, <3>2
  <2>3. CASE adding' = adding /\ rw[k].pc # "record"
    BY <1>3, <2>1, <2>3
  <2>4. ASSUME NEW a \in Actions, TurnOn(k, a), adding' # adding PROVE AddsAreOwned'
    <3> DEFINE w == rw[k]
               n == rw'[k]
    <3>1. /\ w.pc = "schedule" /\ w.spec.actions[a] = "on" /\ Moves(k, w, n)
          /\ \E c \in ValidCrons : AddFunc(Key(w, a), c)
          /\ n.pc = "record"
      BY <2>4, TurnOnEffect DEF svcVars
    <3>2. PICK c \in ValidCrons : adding' = adding \cup {[id |-> nextId, key |-> Key(w, a), spec |-> c]}
      BY <3>1 DEF AddFunc
    <3> DEFINE f == [id |-> nextId, key |-> Key(w, a), spec |-> c]
    <3>3. KindOf[w.r] = k /\ n.r = w.r /\ n.spec = w.spec
      BY <3>1, WorkerFacts DEF Moves
    <3>4. /\ f.key[3] = w.r /\ f.key[2] = a /\ f.key = Key(n, a) /\ n.spec.actions[a] = "on"
      BY <3>1, <3>3 DEF Key
    <3>5. \A e \in adding : KindOf[e.key[3]] # k
      BY <3>1 DEF AddsAreOwned
    <3>6. \A e \in adding : rw'[KindOf[e.key[3]]] = rw[KindOf[e.key[3]]]
      BY <1>2, <2>1, <3>5
    <3> HIDE DEF f
    <3>7. adding' = adding \cup {f}
      BY <3>2 DEF f
    <3>8. \A e \in adding : /\ rw'[KindOf[e.key[3]]].pc = "record"
                            /\ e.key = Key(rw'[KindOf[e.key[3]]], e.key[2])
                            /\ rw'[KindOf[e.key[3]]].spec.actions[e.key[2]] = "on"
      BY <3>6 DEF AddsAreOwned
    <3>9. /\ rw'[KindOf[f.key[3]]].pc = "record"
          /\ f.key = Key(rw'[KindOf[f.key[3]]], f.key[2])
          /\ rw'[KindOf[f.key[3]]].spec.actions[f.key[2]] = "on"
      BY <3>1, <3>3, <3>4
    <3>10. \A e, g \in adding \cup {f} : KindOf[e.key[3]] = KindOf[g.key[3]] => e = g
      BY <3>3, <3>4, <3>5 DEF AddsAreOwned
    <3> QED
      BY <3>7, <3>8, <3>9, <3>10 DEF AddsAreOwned, Key
  <2>5. ASSUME NEW a \in Actions, Prune(k, a) \/ TurnOff(k, a)
        PROVE  adding' = adding /\ rw[k].pc # "record"
    BY <2>5 DEF Prune, TurnOff, Remove, RemoveLocked, svcVars
  <2>6. CASE Snapshot(k) \/ UpdateStatus(k)
    BY <2>3, <2>6 DEF Snapshot, UpdateStatus, svcVars, RemoveLocked,
                      RemoveActionsOfResourceFromNonCurrentSchedule
  <2>7. ASSUME NEW a \in Actions, TurnOn(k, a) PROVE rw[k].pc # "record"
    BY <2>7 DEF TurnOn
  <2> QED
    BY <1>6, <2>2, <2>3, <2>4, <2>5, <2>6, <2>7 DEF Continue
<1>7. CASE OperatorRestart
  BY <1>7 DEF OperatorRestart, Restart, AddsAreOwned
<1> QED
  BY <1>a, <1>4, <1>5, <1>6, <1>7 DEF Next

-----------------------------------------------------------------------------
(* The refresh survives whatever the resource controllers do meanwhile. *)
LEMMA RefreshFrame ==
    ASSUME RefreshInv, sw' = sw, swapping' = swapping,
           \A i \in sw.seen : i < nextId', \A e \in adding' : e.id \notin sw.seen,
           \A x \in Keys : m'[x] = m[x] \/ m'[x] \notin sw.seen
    PROVE  RefreshInv'
  BY DEF RefreshInv, ReadyMeansRefreshed

(* No step breaks what holds of the refresh. *)
LEMMA RefreshStep ==
    ASSUME TypeOK, WorkersHold, ServiceInv, RefreshInv, [Next]_vars PROVE RefreshInv'
<1>1. /\ sw \in SWorkers /\ sw.seen \subseteq Ids /\ nextId \in Nat /\ m \in [Keys -> Nat]
      /\ \A i \in sw.seen : i \in Nat /\ i # 0 /\ i < nextId
      /\ \A x \in sw.todo : x \in Keys
      /\ \A e \in adding : e.key \in Keys
  BY DEF TypeOK, SWorkers, ServiceTypeOK, Ids, RefreshInv, Entries
<1>2. ASSUME NEW ks, RemoveLocked(ks), sw' = sw PROVE RefreshInv'
  <2>1. \A x \in Keys : m'[x] = m[x] \/ m'[x] \notin sw.seen
    BY <1>1, <1>2, RemovedKeys
  <2> QED
    BY <1>1, <1>2, <2>1, RemovedKeys, RefreshFrame DEF RefreshInv
<1>3. ASSUME UNCHANGED svcVars, sw' = sw PROVE RefreshInv'
  BY <1>1, <1>3, RefreshFrame DEF svcVars, RefreshInv
<1>4. ASSUME NEW x, NEW c, AddFunc(x, c), sw' = sw PROVE RefreshInv'
  <2>1. /\ adding' = adding \cup {[id |-> nextId, key |-> x, spec |-> c]}
        /\ nextId' = nextId + 1 /\ UNCHANGED <<m, swapping>>
    BY <1>4 DEF AddFunc, CronAdd
  <2>2. \A e \in adding' : e.id \notin sw.seen
    BY <1>1, <2>1 DEF RefreshInv
  <2>3. \A i \in sw.seen : i < nextId'
    BY <1>1, <2>1
  <2> QED
    BY <1>4, <2>1, <2>2, <2>3, RefreshFrame
<1>5. ASSUME NEW e \in adding, AddRecord(e), sw' = sw PROVE RefreshInv'
  <2>1. \A x \in Keys : m'[x] = m[x] \/ m'[x] \notin sw.seen
    BY <1>1, <1>5 DEF AddRecord, RefreshInv
  <2> QED
    BY <1>1, <1>5, <2>1, RefreshFrame DEF AddRecord, RefreshInv
<1>6. CASE User \/ UNCHANGED vars
  BY <1>3, <1>6 DEF User, WriteSecret, WriteSchedule, WriteResource, vars
<1>a. CASE Run
  BY <1>3, <1>a, RunEffect DEF RunsMayWrite
<1>7. ASSUME NEW r \in Resources, ReconcileResource(r) PROVE RefreshInv'
  <2>1. sw' = sw /\ (UNCHANGED svcVars \/ RemoveResource(r))
    BY <1>7 DEF ReconcileResource, ReconcileDeleted, ReconcileWithoutSecret,
                ReconcileInactive, ReconcileActive, Begin
  <2> QED
    BY <1>2, <1>3, <2>1 DEF RemoveResource
<1>8. ASSUME NEW k \in Kinds, Continue(k) PROVE RefreshInv'
  <2>1. sw' = sw
    BY <1>8 DEF Continue, Snapshot, Record, UpdateStatus, Prune, TurnOff, TurnOn
  <2>2. \/ UNCHANGED svcVars
        \/ \E ks : RemoveLocked(ks)
        \/ \E e \in adding : AddRecord(e)
        \/ \E x, c : AddFunc(x, c)
    BY <1>8 DEF Continue, Snapshot, Record, UpdateStatus, Prune, TurnOff, TurnOn, Remove,
                RemoveActionsOfResourceFromNonCurrentSchedule
  <2> QED
    BY <1>2, <1>3, <1>4, <1>5, <2>1, <2>2
<1>9. ASSUME NEW s \in Schedules, ReconcileSchedule(s) PROVE RefreshInv'
  <2>1. CASE sw' = sw
    BY <1>3, <1>9, <2>1, StartScheduleEffect
  <2>2. CASE sw' # sw
    <3>1. /\ UNCHANGED <<m, entries, nextId, adding, swapping>> /\ swapping = {}
      <4>1. UNCHANGED svcVars /\ sw.pc = "idle"
        BY <1>9, StartScheduleEffect
      <4> QED
        BY <4>1 DEF svcVars, RefreshInv
    <3>2. \/ sw'.pc = "status" /\ sw'.seen = {}
          \/ /\ sw'.todo = GetActions(s) /\ sw'.seen = {m[x] : x \in GetActions(s)}
             /\ sw'.pc = "refresh" \/ (sw'.pc = "status" /\ sw'.todo = {})
             /\ \A a \in Actions : sw'.spec.actions[a] # None =>
                                      sw'.spec.actions[a].cron \in ValidCrons
      BY <1>9, <2>2, StartScheduleEffect
    <3>3. \A x \in GetActions(s) : m[x] < nextId /\ \A e \in adding : e.id # m[x]
      BY DEF GetActions, ServiceInv, TrackedIdsAreLive, IdsAreFresh
    <3>4. \A x \in Keys, y \in GetActions(s) : m[x] = m[y] => x = y
      BY DEF GetActions, ServiceInv, TrackedIdsAreLive, IdsAreFresh, Tracked
    <3>5. CASE sw'.pc = "status" /\ sw'.seen = {}
      BY <3>1, <3>5 DEF RefreshInv, ReadyMeansRefreshed
    <3>6. CASE /\ sw'.todo = GetActions(s) /\ sw'.seen = {m[x] : x \in GetActions(s)}
               /\ sw'.pc = "refresh"
               /\ \A a \in Actions : sw'.spec.actions[a] # None =>
                                      sw'.spec.actions[a].cron \in ValidCrons
      BY <3>1, <3>3, <3>4, <3>6 DEF RefreshInv, ReadyMeansRefreshed
    <3> QED
      BY <3>2, <3>5, <3>6
  <2> QED
    BY <2>1, <2>2
<1>10. ASSUME NEW x \in Keys, Refresh(x) PROVE RefreshInv'
  <2> DEFINE planned == sw.spec.actions[x[2]]
  <2>1. /\ sw.pc = "refresh" /\ x \in sw.todo
        /\ sw'.s = sw.s /\ sw'.spec = sw.spec /\ sw'.seen = sw.seen
        /\ \/ /\ UNCHANGED svcVars /\ sw'.pc = "status" /\ sw'.todo = {}
              /\ sw'.status.ready = "MissingAction"
           \/ /\ UNCHANGED svcVars /\ planned # None /\ ~CanUpdate(x, planned.cron)
              /\ sw'.todo = sw.todo \ {x}
              /\ sw'.pc = "refresh" \/ (sw'.pc = "status" /\ sw'.todo = {})
           \/ /\ planned # None /\ UpdateAdd(x, planned.cron)
              /\ sw'.pc = "swap" /\ sw'.todo = sw.todo \ {x}
    BY <1>10, RefreshEffect
  <2>2. swapping = {} /\ \A y \in Keys : m[y] \in sw.seen => y \in sw.todo
    BY <2>1 DEF RefreshInv
  <2>3. CASE UNCHANGED svcVars /\ sw'.pc = "status" /\ sw'.status.ready = "MissingAction"
    BY <1>1, <2>1, <2>2, <2>3 DEF RefreshInv, ReadyMeansRefreshed, svcVars
  <2>4. CASE /\ UNCHANGED svcVars /\ planned # None /\ ~CanUpdate(x, planned.cron)
             /\ sw'.todo = sw.todo \ {x}
             /\ sw'.pc = "refresh" \/ (sw'.pc = "status" /\ sw'.todo = {})
    <3>1. planned.cron \in ValidCrons /\ x[2] \in Actions
      BY <2>1, <2>4 DEF RefreshInv, Keys
    <3>2. ~Tracked(x)
      BY <2>4, <3>1 DEF CanUpdate, Live, ServiceInv, TrackedIdsAreLive
    <3>3. m[x] \notin sw.seen
      BY <1>1, <3>2 DEF Tracked
    <3> QED
      BY <1>1, <2>1, <2>2, <2>4, <3>3 DEF RefreshInv, ReadyMeansRefreshed, svcVars
  <2>5. CASE /\ planned # None /\ UpdateAdd(x, planned.cron)
             /\ sw'.pc = "swap" /\ sw'.todo = sw.todo \ {x}
    <3>1. /\ swapping' = {[key |-> x, old |-> m[x], new |-> nextId]}
          /\ nextId' = nextId + 1 /\ UNCHANGED <<m, adding>>
      BY <2>5 DEF UpdateAdd, CronAdd
    <3>2. x[1] = sw.s
      BY <2>1 DEF WorkersHold, ScheduleWorkerHolds
    <3>3. \A u \in swapping' : sw'.pc = "swap" /\ u.new \notin sw'.seen /\ u.key[1] = sw'.s
      BY <1>1, <2>1, <2>5, <3>1, <3>2
    <3>4. \A i \in sw'.seen : i < nextId'
      BY <1>1, <2>1, <3>1
    <3>5. \A y \in Keys : m'[y] \in sw'.seen => y \in sw'.todo \/ \E u \in swapping' : u.key = y
      BY <2>1, <2>2, <2>5, <3>1
    <3> QED
      BY <2>1, <2>5, <3>1, <3>3, <3>4, <3>5 DEF RefreshInv, ReadyMeansRefreshed
  <2> QED
    BY <2>1, <2>3, <2>4, <2>5
<1>11. CASE Swap
  <2>1. /\ sw.pc = "swap" /\ sw'.s = sw.s /\ sw'.spec = sw.spec
        /\ sw'.todo = sw.todo /\ sw'.seen = sw.seen
        /\ sw'.pc = "refresh" \/ (sw'.pc = "status" /\ sw'.todo = {})
    BY <1>11, SwapEffect
  <2>2. PICK u \in swapping : /\ m' = [m EXCEPT ![u.key] = u.new] /\ swapping' = {}
                              /\ UNCHANGED <<nextId, adding>>
    BY <1>11, SwapEffect DEF UpdateReplace
  <2>3. u.key \in Keys /\ u.new \notin sw.seen /\ \A v \in swapping : v = u
    BY DEF ServiceInv, SwapIsPrivate, ServiceTypeOK, Swaps, RefreshInv
  <2>4. \A x \in Keys : m'[x] \in sw.seen => x \in sw.todo
    BY <1>1, <2>1, <2>2, <2>3 DEF RefreshInv
  <2> QED
    BY <1>1, <2>1, <2>2, <2>4 DEF RefreshInv, ReadyMeansRefreshed
<1>12. CASE UpdateScheduleStatus \/ OperatorRestart
  <2>1. swapping' = {} /\ sw' = SIdle
    BY <1>12 DEF UpdateScheduleStatus, OperatorRestart, Restart, RefreshInv, svcVars
  <2>2. SIdle.seen = {} /\ SIdle.pc = "idle"
    BY DEF SIdle
  <2> QED
    BY <2>1, <2>2 DEF RefreshInv, ReadyMeansRefreshed
<1> QED
  BY <1>6, <1>a, <1>7, <1>8, <1>9, <1>10, <1>11, <1>12 DEF Next, ContinueSchedule

-----------------------------------------------------------------------------
(* At the start everything is queued. *)
LEMMA ReconcilersInvInit == Init => ReconcilersInv
<1> SUFFICES ASSUME Init PROVE ReconcilersInv
  OBVIOUS
<1>1. /\ m = [k \in Keys |-> 0] /\ entries = {} /\ nextId = 1 /\ gauge = [l \in Labels |-> 0]
      /\ adding = {} /\ swapping = {} /\ resQ = Existing(res) /\ schedQ = Existing(sched)
      /\ sw = SIdle /\ rw = [k \in Kinds |-> RIdle]
  BY DEF Init, New
<1>2. ServiceInv
  BY <1>1 DEF ServiceInv, ServiceTypeOK, Ids, TrackedIdsAreLive, Tracked, IdsAreFresh,
              SwapIsPrivate
<1>3. TypeOK
  <2>1. /\ sched \in [Schedules -> ScheduleSpecs \cup {None}]
        /\ res \in [Resources -> ResourceSpecs \cup {None}] /\ secret \in BOOLEAN
    BY SpecsAssumption DEF Init
  <2>2. schedStatus \in [Schedules -> Status] /\ resStatus \in [Resources -> Status]
    BY SpecTypes DEF Init
  <2>3. schedQ \subseteq Schedules /\ resQ \subseteq Resources
    BY <1>1, <2>1 DEF Existing
  <2>4. /\ edits \in 0..MaxEdits /\ faults \in 0..MaxFaults /\ restarts \in 0..MaxRestarts
    BY SpecsAssumption DEF Init
  <2>5. runs \subseteq Runs /\ outdated \subseteq Resources /\ fires \in 0..MaxFires
    BY SpecsAssumption DEF Init
  <2> QED
    BY <1>1, <1>2, <2>1, <2>2, <2>3, <2>4, <2>5, IdleWorkers DEF TypeOK, ServiceInv
<1>4. WorkersHold
  BY <1>1, IdleWorkers DEF WorkersHold, ResourceWorkersHold, ScheduleWorkerHolds
<1>5. AddsAreOwned
  BY <1>1 DEF AddsAreOwned
<1>6. ASSUME NEW r \in Resources PROVE ResourceInv(r)
  <2>1. KindOf[r] \in Kinds /\ ~Busy(r)
    BY <1>1, IdleWorkers, SpecsAssumption DEF Busy
  <2>2. r \notin resQ => res[r] = None
    BY <1>1, <1>3 DEF Existing, TypeOK
  <2> QED
    BY <1>1, <2>1, <2>2 DEF ResourceInv, Settled, Retired, Tracked
<1>7. RefreshInv
  <2>1. SIdle.seen = {} /\ SIdle.pc = "idle"
    BY DEF SIdle
  <2> QED
    BY <1>1, <2>1 DEF RefreshInv, ReadyMeansRefreshed
<1> QED
  BY <1>2, <1>3, <1>4, <1>5, <1>6, <1>7 DEF ReconcilersInv

(* No step breaks the invariant, and each is one of the registry or leaves   *)
(* it alone.                                                                 *)
LEMMA ReconcilersInvStep == ReconcilersInv /\ [Next]_vars => ReconcilersInv' /\ [ServiceNext]_svcVars
<1> SUFFICES ASSUME ReconcilersInv, [Next]_vars PROVE ReconcilersInv' /\ [ServiceNext]_svcVars
  OBVIOUS
<1>1. TypeOK /\ WorkersHold /\ ServiceInv /\ AddsAreOwned /\ AllResourceInv /\ RefreshInv
  BY DEF ReconcilersInv, AllResourceInv
<1>2. TypeOK' /\ WorkersHold' /\ [ServiceNext]_svcVars
  BY <1>1, NextTyped DEF Typed
<1>3. ServiceInv'
  BY <1>1, <1>2, InvStep
<1>4. AddsAreOwned' /\ AllResourceInv' /\ RefreshInv'
  BY <1>1, AddsStep, ResourceInvStep, RefreshStep
<1> QED
  BY <1>2, <1>3, <1>4 DEF ReconcilersInv, AllResourceInv

(* The inductive invariant of the reconcilers and the registry together. *)
THEOREM ReconcilersInvAlways == Spec => []ReconcilersInv
  BY ReconcilersInvInit, ReconcilersInvStep, PTL DEF Spec

(* Type correctness of the controllers, their queues and the registry. *)
THEOREM ReconcilersTypeCorrect == Spec => []TypeOK
<1>1. ReconcilersInv => TypeOK
  BY DEF ReconcilersInv
<1> QED
  BY <1>1, ReconcilersInvAlways, PTL

(* The reconcilers use the registry as its specification says clients do:    *)
(* what was proved of the registry alone (schedule_service.go) holds of the  *)
(* whole operator.                                                           *)
THEOREM ReconcilersUseService == Spec => ServiceSpec
<1>1. Init => New
  BY DEF Init
<1> QED
  BY <1>1, ReconcilersInvAlways, ReconcilersInvStep, PTL DEF Spec, ServiceSpec

(* In the running operator every id in the map is that of a live entry for   *)
(* the very key: a tracked action will fire.                                 *)
THEOREM OperatorTracksLiveIds == Spec => []TrackedIdsAreLive
  BY ReconcilersUseService, TrackedIdsAlwaysLive, PTL

(* In the running operator the gauge counts the entries of the cron, but for *)
(* the calls under way.                                                      *)
THEOREM OperatorGaugeCounts == Spec => []GaugeCountsEntries
  BY ReconcilersUseService, GaugeAlwaysCounts, PTL

(* To the controllers the registry is the table JobRegistry, changed one     *)
(* call at a time: the composition implements it.                            *)
THEOREM OperatorKeepsPromise == Spec => RegistryPromise
  BY ReconcilersUseService, RegistryImplemented, PTL

(* A resource that is quiet is settled. *)
LEMMA QuietIsSettled ==
    ASSUME ReconcilersInv, NEW r \in Resources, Quiet(r) PROVE Settled(r)
  BY DEF ReconcilersInv, ResourceInv, Quiet

(* A deleted or disabled resource has no job left in the map once its        *)
(* controller is done with it, whatever refresh, crash or lost status update *)
(* came between (resource_controller.go:82-92).                              *)
THEOREM RetiredUnscheduled == Spec => []RetiredIsUnscheduled
<1>1. ReconcilersInv => RetiredIsUnscheduled
  BY QuietIsSettled DEF RetiredIsUnscheduled, Settled, TrackedOf
<1> QED
  BY <1>1, ReconcilersInvAlways, PTL

(* A reconciled resource has jobs under its own schedule only, and none for  *)
(* an action that is off, however it was moved between schedules             *)
(* (resource_controller.go:109-115, 134-144).                                *)
THEOREM JobsWhereDeclared == Spec => []ScheduledWhereDeclared
<1>1. ReconcilersInv => ScheduledWhereDeclared
  BY QuietIsSettled DEF ScheduledWhereDeclared, Settled, TrackedOf
<1> QED
  BY <1>1, ReconcilersInvAlways, PTL

(* What a step leaves of a resource at rest: it is settled; and either it    *)
(* has just come to rest with the status its worker wrote, or it was at rest *)
(* and has the jobs it had.                                                  *)
LEMMA RestStep ==
    ASSUME ReconcilersInv, [Next]_vars, NEW r \in Resources, Quiet(r)'
    PROVE  /\ Settled(r)'
           /\ Reported(r)' \/ (Quiet(r) /\ SameTracked(r))
           /\ res'[r] \in ResourceSpecs \cup {None}
<1>1. ReconcilersInv'
  BY ReconcilersInvStep
<1>2. Kept(r)
  BY StepKeeps DEF ReconcilersInv, AllResourceInv
<1>3. Settled(r)'
  BY <1>2 DEF Kept, ResourceInv, Quiet
<1>4. res'[r] \in ResourceSpecs \cup {None}
  BY <1>1 DEF ReconcilersInv, TypeOK
<1> QED
  BY <1>2, <1>3, <1>4 DEF Kept

(* A resource comes to rest only with every action that is on scheduled or   *)
(* reported as MissingAction: no stale id, error half-way, lost update or    *)
(* restart drops one in silence; and at rest only the report of a run takes  *)
(* the place of that word (resource_controller.go:145-277,                   *)
(* awsec2instance_controller.go:195-215).                                    *)
THEOREM NoActionDropped == Spec => NoSilentlyDroppedAction
<1>1. ASSUME ReconcilersInv, [Next]_vars, NEW r \in Resources, Quiet(r)', ~Retired(r)',
             NEW a \in Actions, res'[r].actions[a] = "on"
      PROVE  LET x == <<res'[r].schedule, a, r>>
             IN  \/ m'[x] # 0
                 \/ resStatus'[r].cond[a] = "MissingAction"
                 \/ Quiet(r) /\ m[x] = 0 /\ resStatus'[r].cond[a] \in RunReasons
  <2> DEFINE x == <<res'[r].schedule, a, r>>
  <2>1. Settled(r)' /\ (Reported(r)' \/ (Quiet(r) /\ SameTracked(r)))
    BY <1>1, RestStep
  <2>2. x \in Keys /\ x[3] = r
    <3>1. res'[r] \in ResourceSpecs
      BY <1>1, RestStep DEF Retired
    <3> QED
      BY <3>1, SpecTypes DEF Keys
  <2>3. Tracked(<<res[r].schedule, a, r>>)' <=> m'[x] # 0
    BY DEF Tracked
  <2>4. CASE Reported(r)'
    BY <1>1, <2>3, <2>4 DEF Reported
  <2>5. CASE Quiet(r) /\ SameTracked(r)
    <3>1. m'[x] # 0 \/ resStatus'[r].cond[a] \in RunReasons \cup {"MissingAction"}
      BY <1>1, <2>1, <2>3 DEF Settled
    <3>2. m'[x] = 0 <=> m[x] = 0
      BY <2>2, <2>5 DEF SameTracked
    <3> QED
      BY <2>5, <3>1, <3>2
  <2> QED
    BY <2>1, <2>4, <2>5
<1>2. ReconcilersInv /\ [Next]_vars =>
        [\A r \in Resources : Quiet(r)' /\ ~Retired(r)' =>
          \A a \in Actions : res'[r].actions[a] = "on" =>
              LET x == <<res'[r].schedule, a, r>>
              IN  \/ m'[x] # 0
                  \/ resStatus'[r].cond[a] = "MissingAction"
                  \/ Quiet(r) /\ m[x] = 0 /\ resStatus'[r].cond[a] \in RunReasons]_vars
  BY <1>1
<1> QED
  BY <1>2, ReconcilersInvAlways, PTL DEF Spec, NoSilentlyDroppedAction

(* The Ready condition of a resource at rest is that of the spec users see,  *)
(* and it comes to rest disabled with no other condition: only runs put some *)
(* back (resource_controller.go:84-91, 280-296,                              *)
(* actionexecution_controller.go:195-219).                                   *)
THEOREM ReadyIsTrue == Spec => ReadyMatchesSpec
<1>1. ASSUME ReconcilersInv, [Next]_vars, NEW r \in Resources, Quiet(r)', res'[r] # None
      PROVE  LET status == resStatus'[r]
             IN  IF res'[r].active THEN status.ready = "Active"
                 ELSE /\ status.ready = "Disabled"
                      /\ \A a \in Actions : \/ status.cond[a] = "none"
                                            \/ Quiet(r) /\ status.cond[a] \in RunReasons
                      /\ \/ status.scale = "none"
                         \/ Quiet(r) /\ status.scale \in RunReasons \cup {"Timeout"}
  <2> DEFINE status == resStatus'[r]
  <2>1. Settled(r)' /\ (Reported(r)' \/ Quiet(r))
    BY <1>1, RestStep
  <2>2. IF res'[r].active THEN status.ready = "Active"
        ELSE /\ status.ready = "Disabled"
             /\ \A a \in Actions : status.cond[a] \in RunReasons \cup {"none"}
             /\ status.scale \in ScaleReasons \cup {"none"}
    BY <1>1, <2>1 DEF Settled
  <2>3. Reported(r)' /\ ~res'[r].active => status = DisabledStatus
    BY <1>1 DEF Reported
  <2>4. \A a \in Actions : DisabledStatus.cond[a] = "none"
    BY SpecTypes DEF NoConditions
  <2> QED
    BY <2>1, <2>2, <2>3, <2>4, SpecTypes DEF ScaleReasons
<1>2. ReconcilersInv /\ [Next]_vars =>
        [\A r \in Resources : Quiet(r)' /\ res'[r] # None =>
          LET status == resStatus'[r]
          IN  IF res'[r].active THEN status.ready = "Active"
              ELSE /\ status.ready = "Disabled"
                   /\ \A a \in Actions : \/ status.cond[a] = "none"
                                         \/ Quiet(r) /\ status.cond[a] \in RunReasons
                   /\ \/ status.scale = "none"
                      \/ Quiet(r) /\ status.scale \in RunReasons \cup {"Timeout"}]_vars
  BY <1>1
<1> QED
  BY <1>2, ReconcilersInvAlways, PTL DEF Spec, ReadyMatchesSpec

(* A schedule about to be reported Active or Disabled has had every job it   *)
(* saw refreshed or removed (schedule_controller.go:165-190).                *)
THEOREM RefreshIsComplete == Spec => []ReadyMeansRefreshed
<1>1. ReconcilersInv => ReadyMeansRefreshed
  BY DEF ReconcilersInv, RefreshInv
<1> QED
  BY <1>1, ReconcilersInvAlways, PTL

-----------------------------------------------------------------------------
(* Who changes the map, for the action property. *)
LEMMA OwnersTouch ==
    ASSUME ReconcilersInv, [Next]_vars, NEW x \in Keys, m'[x] # m[x]
    PROVE  \/ rw[KindOf[x[3]]].r = x[3] \/ (x[3] \in resQ /\ x[3] \notin resQ')
           \/ sw.s = x[1] /\ m[x] # 0 /\ m'[x] # 0
           \/ restarts' # restarts
<1>1. TypeOK /\ WorkersHold /\ ServiceInv /\ AddsAreOwned /\ RefreshInv
  BY DEF ReconcilersInv
<1>2. CASE User \/ UNCHANGED vars \/ (\E s \in Schedules : ReconcileSchedule(s))
  BY <1>2 DEF User, WriteSecret, WriteSchedule, WriteResource, vars, svcVars, ReconcileSchedule
<1>a. CASE Run
  BY <1>1, <1>a, RunEffect DEF RunsMayWrite, svcVars
<1>3. ASSUME NEW r \in Resources, ReconcileResource(r) PROVE x[3] \in resQ /\ x[3] \notin resQ'
  <2>1. RemoveResource(r) /\ Begin(r)
    BY <1>3 DEF ReconcileResource, ReconcileDeleted, ReconcileWithoutSecret,
                ReconcileInactive, ReconcileActive, svcVars
  <2>2. x[3] = r
    BY <2>1, RemovedKeys DEF RemoveResource
  <2> QED
    BY <2>1, <2>2 DEF Begin
<1>4. ASSUME NEW k \in Kinds, Continue(k) PROVE rw[KindOf[x[3]]].r = x[3]
  <2>1. CASE Record(k)
    <3>1. PICK e \in adding : AddRecord(e)
      BY <2>1 DEF Record
    <3>2. x = e.key
      BY <1>1, <3>1 DEF AddRecord, TypeOK, ServiceTypeOK
    <3> QED
      BY <1>1, <3>2 DEF AddsAreOwned, Key
  <2>2. CASE ~Record(k)
    <3>1. /\ rw[k].pc # "idle"
          /\ \/ RemoveLocked(NonCurrent(rw[k].spec.schedule, rw[k].r))
             \/ \E a \in Actions : RemoveLocked({Key(rw[k], a)})
      BY <1>4, <2>2 DEF Continue, Snapshot, UpdateStatus, Prune, TurnOff, TurnOn, Remove,
                RemoveActionsOfResourceFromNonCurrentSchedule, svcVars, AddFunc
    <3>2. x[3] = rw[k].r
      <4>1. ASSUME NEW ks, RemoveLocked(ks) PROVE x \in ks
        BY <4>1, RemovedKeys
      <4>2. CASE RemoveLocked(NonCurrent(rw[k].spec.schedule, rw[k].r))
        BY <4>1, <4>2 DEF NonCurrent
      <4>3. ASSUME NEW a \in Actions, RemoveLocked({Key(rw[k], a)}) PROVE x[3] = rw[k].r
        BY <4>1, <4>3 DEF Key
      <4> QED
        BY <3>1, <4>2, <4>3
    <3> QED
      BY <1>1, <3>1, <3>2, WorkerFacts
  <2> QED
    BY <2>1, <2>2
<1>5. CASE ContinueSchedule
  <2>1. PICK u \in swapping : m' = [m EXCEPT ![u.key] = u.new]
    BY <1>5 DEF ContinueSchedule, Refresh, Swap, UpdateScheduleStatus, UpdateAdd,
                UpdateReplace, svcVars
  <2>2. x = u.key /\ m'[x] = u.new /\ m[x] = u.old /\ u.old # 0 /\ u.new # 0
    BY <1>1, <2>1 DEF TypeOK, ServiceTypeOK, ServiceInv, SwapIsPrivate, Swaps, Ids
  <2> QED
    BY <1>1, <2>2 DEF RefreshInv
<1>6. CASE OperatorRestart
  <2>1. restarts \in Nat /\ restarts' = restarts + 1
    BY <1>1, <1>6, SpecsAssumption DEF OperatorRestart, TypeOK
  <2> QED
    BY <2>1
<1> QED
  BY <1>2, <1>a, <1>3, <1>4, <1>5, <1>6 DEF Next

(* A resource's jobs are added and removed by its own controller only, while *)
(* it reconciles that resource; the Schedule controller only replaces jobs   *)
(* of the schedule it refreshes (schedule_service.go:141-170, 177-207).      *)
THEOREM OwnersOnly == Spec => OnlyOwnersTouchJobs
<1>1. ReconcilersInv /\ [Next]_vars =>
        [\A x \in Keys : m'[x] # m[x] =>
          LET r == x[3]
          IN  \/ rw[KindOf[r]].r = r \/ (r \in resQ /\ r \notin resQ')
              \/ sw.s = x[1] /\ m[x] # 0 /\ m'[x] # 0
              \/ restarts' # restarts]_vars
  BY OwnersTouch
<1> QED
  BY <1>1, ReconcilersInvAlways, PTL DEF Spec, OnlyOwnersTouchJobs
=============================================================================
