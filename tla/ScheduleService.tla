--------------------------- MODULE ScheduleService ---------------------------
(***************************************************************************)
(* The in-memory registry of cron jobs, internal/cron/schedule_service.go: *)
(* the map m of tracked ids, guarded by the mutex mu, and the robfig cron  *)
(* (a library, external) whose entries it names.  The clients are the      *)
(* reconcilers, which run concurrently: here they may make any call, so    *)
(* that what holds here holds whatever the controllers do.                 *)
(*                                                                         *)
(* Two methods are not atomic.  Add puts the entry in the cron before it   *)
(* takes mu; UpdateCronSpec holds mu, but the cron is readable without mu  *)
(* (Get, and the cron's own ticks), so both entries are visible between    *)
(* its AddJob and its Remove.  Every other method is one critical section. *)
(***************************************************************************)
EXTENDS Integers, FiniteSets

CONSTANTS
    Schedules, Actions, Resources,  \* names
    Crons,        \* cron expressions
    ValidCrons,   \* the ones cron.ParseStandard accepts
    MaxId         \* bound: number of entries the cron may ever be given

ASSUME NamesAssumption ==
    /\ IsFiniteSet(Schedules) /\ IsFiniteSet(Actions) /\ IsFiniteSet(Resources)
    /\ ValidCrons \subseteq Crons
    /\ MaxId \in Nat

Keys   == Schedules \X Actions \X Resources
Labels == Schedules \X Actions                \* of the Prometheus gauge
Label(k) == <<k[1], k[2]>>

\* The cron gives out the ids 1, 2, ...; 0 is the id of no entry.
Ids     == Nat \ {0}
Entries == [id : Ids, key : Keys, spec : ValidCrons]
Swaps   == [key : Keys, old : Ids, new : Ids]

VARIABLES
    m,         \* ScheduleService.m: key -> id, 0 where the key is absent
    entries,   \* the live entries of the cron
    nextId,    \* the next id the cron gives out
    gauge,     \* TimeterraScheduledCronJobs
    adding,    \* entries added to the cron whose Add does not have mu yet
    swapping   \* the UpdateCronSpec call between AddJob and Remove

svcVars == <<m, entries, nextId, gauge, adding, swapping>>

\* Mutant: mu is not taken.
NoMutex == TRUE

\* UpdateCronSpec is the only holder of mu that other steps can observe.
MuFree == swapping = {}

Tracked(k) == m[k] # 0
Live(id)   == \E e \in entries : e.id = id

-----------------------------------------------------------------------------
(* New(): an empty map, an empty cron; the metrics are the process's own. *)
New ==
    /\ m = [k \in Keys |-> 0]
    /\ entries = {}
    /\ nextId = 1
    /\ gauge = [l \in Labels |-> 0]
    /\ adding = {}
    /\ swapping = {}

(* cron.AddFunc and cron.AddJob, for a spec that parses. *)
CronAdd(k, spec) ==
    /\ spec \in ValidCrons
    /\ nextId <= MaxId
    /\ entries' = entries \cup {[id |-> nextId, key |-> k, spec |-> spec]}
    /\ nextId' = nextId + 1

\* Mutant: Add writes the map before it takes the lock.
AddFuncRecordingEarly(k, spec) ==
    /\ CronAdd(k, spec)
    /\ adding' = adding \cup {[id |-> nextId, key |-> k, spec |-> spec]}
    /\ m' = [m EXCEPT ![k] = nextId]
    /\ UNCHANGED <<gauge, swapping>>

(* Add, up to the lock. *)
AddFunc(k, spec) ==
    /\ CronAdd(k, spec)
    /\ adding' = adding \cup {[id |-> nextId, key |-> k, spec |-> spec]}
    /\ UNCHANGED <<m, gauge, swapping>>

\* Mutant: a job that takes the place of another is not counted.
AddRecordCountingKeys(e) ==
    /\ e \in adding
    /\ MuFree
    /\ m' = [m EXCEPT ![e.key] = e.id]
    /\ gauge' = [gauge EXCEPT ![Label(e.key)] = IF Tracked(e.key) THEN @ ELSE @ + 1]
    /\ adding' = adding \ {e}
    /\ UNCHANGED <<entries, nextId, swapping>>

(* Add, under the lock: an id already there is overwritten. *)
AddRecord(e) ==
    /\ e \in adding
    /\ MuFree
    /\ m' = [m EXCEPT ![e.key] = e.id]
    /\ gauge' = [gauge EXCEPT ![Label(e.key)] = @ + 1]
    /\ adding' = adding \ {e}
    /\ UNCHANGED <<entries, nextId, swapping>>

(* removeLocked on every key of ks that is tracked. *)
RemoveLocked(ks) ==
    /\ MuFree
    /\ entries' = {e \in entries : \A k \in ks : e.id # m[k]}
    /\ m' = [k \in Keys |-> IF k \in ks THEN 0 ELSE m[k]]
    /\ gauge' = [l \in Labels |->
                    gauge[l] - Cardinality({k \in ks : Tracked(k) /\ Label(k) = l})]
    /\ UNCHANGED <<nextId, adding, swapping>>

Remove(k) == RemoveLocked({k})

\* Mutant: the action's map is deleted with every resource in it.
RemoveResourceAndSiblings(r) ==
    RemoveLocked({k \in Keys : \E a \in Keys : a[3] = r /\ Tracked(a) /\ Label(a) = Label(k)})

RemoveResource(r) == RemoveLocked({k \in Keys : k[3] = r})

\* Mutant: the comparison with the current schedule is inverted.
CurrentInstead(s, r) == {k \in Keys : k[1] = s /\ k[3] = r}

NonCurrent(s, r) == {k \in Keys : k[1] # s /\ k[3] = r}

RemoveActionsOfResourceFromNonCurrentSchedule(s, r) == RemoveLocked(NonCurrent(s, r))

(* The early returns of UpdateCronSpec: false and nothing changed. *)
CanUpdate(k, spec) == Tracked(k) /\ Live(m[k]) /\ spec \in ValidCrons

(* UpdateCronSpec, to AddJob. *)
UpdateAdd(k, spec) ==
    /\ MuFree
    /\ CanUpdate(k, spec)
    /\ CronAdd(k, spec)
    /\ swapping' = {[key |-> k, old |-> m[k], new |-> nextId]}
    /\ UNCHANGED <<m, gauge, adding>>

\* Mutant: the entry just added is the one removed.
UpdateReplaceRemovingNew ==
    \E u \in swapping :
        /\ m' = [m EXCEPT ![u.key] = u.new]
        /\ entries' = {e \in entries : e.id # u.new}
        /\ swapping' = {}
        /\ UNCHANGED <<nextId, gauge, adding>>

(* UpdateCronSpec, from the assignment to m: the gauge does not change. *)
UpdateReplace ==
    \E u \in swapping :
        /\ m' = [m EXCEPT ![u.key] = u.new]
        /\ entries' = {e \in entries : e.id # u.old}
        /\ swapping' = {}
        /\ UNCHANGED <<nextId, gauge, adding>>

\* Mutant: keys whose job was removed are returned too, with the id of no entry.
GetActionsUncleaned(s) == {k \in Keys : k[1] = s}

(* GetActions and GetActionsOfResource: the ids of a schedule, and of a     *)
(* resource in it.  Both are read under mu.                                 *)
GetActions(s) == {k \in Keys : k[1] = s /\ Tracked(k)}
GetActionsOfResource(s, r) == [a \in Actions |-> m[<<s, a, r>>]]

(* The process dies, at any point, and a new one starts. *)
Restart ==
    /\ m' = [k \in Keys |-> 0]
    /\ entries' = {}
    /\ nextId' = 1
    /\ gauge' = [l \in Labels |-> 0]
    /\ adding' = {}
    /\ swapping' = {}

ServiceNext ==
    \/ \E k \in Keys, spec \in Crons : AddFunc(k, spec) \/ UpdateAdd(k, spec)
    \/ \E e \in adding : AddRecord(e)
    \/ UpdateReplace
    \/ \E k \in Keys : Remove(k)
    \/ \E r \in Resources : RemoveResource(r)
    \/ \E s \in Schedules, r \in Resources :
          RemoveActionsOfResourceFromNonCurrentSchedule(s, r)
    \/ Restart

ServiceSpec == New /\ [][ServiceNext]_svcVars

-----------------------------------------------------------------------------
ServiceTypeOK ==
    /\ m \in [Keys -> Nat]
    /\ entries \subseteq Entries
    /\ nextId \in Ids
    /\ gauge \in [Labels -> Int]
    /\ adding \subseteq Entries
    /\ swapping \subseteq Swaps

(* Every id in m is the id of a live entry, and of an entry for that very   *)
(* key: Remove and UpdateCronSpec never take down somebody else's job, and  *)
(* a tracked action really will fire.  In particular a failed or concurrent *)
(* UpdateCronSpec (schedule_service.go:190-205) leaves no dangling id.      *)
TrackedIdsAreLive ==
    \A k \in Keys : Tracked(k) => \E e \in entries : e.id = m[k] /\ e.key = k

OfLabel(es, l) == {e \in es : Label(e.key) = l}

(* The gauge "Number of Timeterra scheduled cronjobs" (monitoring/           *)
(* metrics.go:21) counts the entries the cron holds, once the calls under    *)
(* way are discounted: also after an Add has overwritten an id, when the     *)
(* map no longer knows the entry.                                            *)
GaugeCountsEntries ==
    \A l \in Labels :
        Cardinality(OfLabel(entries, l))
            = gauge[l] + Cardinality(OfLabel(adding, l)) + Cardinality(OfLabel(swapping, l))

(* What makes the two above inductive: ids are never reused, and the id of   *)
(* an entry whose call is under way is in m nowhere.                         *)
IdsAreFresh ==
    /\ \A e \in entries : e.id < nextId
    /\ \A e, f \in entries : e.id = f.id => e = f
    /\ adding \subseteq entries
    /\ \A e \in adding, k \in Keys : m[k] # e.id

SwapIsPrivate ==
    /\ \A u, v \in swapping : u = v
    /\ \A u \in swapping :
          /\ m[u.key] = u.old
          /\ \E e \in entries : e.id = u.new /\ e.key = u.key
          /\ \A k \in Keys : m[k] # u.new
          /\ \A e \in adding : e.id # u.new

(* The registry as its clients see it: the entries the map leads to, and     *)
(* those of the calls under way.                                             *)
Jobs    == {e \in entries : m[e.key] = e.id}
Pending == adding \cup {e \in entries : \E u \in swapping : u.new = e.id}

Registry == INSTANCE JobRegistry
                WITH jobs <- Jobs, pending <- Pending, last <- nextId - 1

(* The registry is a table with one job per key, changed one call at a time: *)
(* the entry Add puts in the cron before it takes the lock                   *)
(* (schedule_service.go:61-81) and the two entries of a key while            *)
(* UpdateCronSpec replaces one by the other (177-207) are never seen through *)
(* the map, no call reaches a job it does not name, and no id a client still *)
(* holds comes to name another job.                                          *)
RegistryPromise == Registry!Spec

ServiceInv == ServiceTypeOK /\ TrackedIdsAreLive /\ IdsAreFresh /\ SwapIsPrivate
=============================================================================
