----------------------------- MODULE JobRegistry -----------------------------
(***************************************************************************)
(* What the registry of cron jobs promises to the reconcilers: a table     *)
(* with at most one job per schedule, action and resource, each under an   *)
(* id that never named another one, that every call changes in one step    *)
(* and for the keys it names only.  There is no lock and no moment with    *)
(* two jobs for a key: ScheduleService implements this table.              *)
(***************************************************************************)
EXTENDS Naturals

CONSTANTS Schedules, Actions, Resources, ValidCrons

VARIABLES
    jobs,      \* the table: a set of jobs, one or none for each key
    pending,   \* the jobs of calls that were made and are not in force yet
    last       \* the last id given out

Keys == Schedules \X Actions \X Resources

Init == jobs = {} /\ pending = {} /\ last = 0

(* Add or UpdateCronSpec is called: the job has its id, nobody sees it. *)
Issue(k, spec) ==
    /\ last' = last + 1
    /\ pending' = pending \cup {[id |-> last + 1, key |-> k, spec |-> spec]}
    /\ UNCHANGED jobs

(* The call takes effect: its key has this job and no other. *)
Put(e) ==
    /\ e \in pending
    /\ pending' = pending \ {e}
    /\ jobs' = {f \in jobs : f.key # e.key} \cup {e}
    /\ UNCHANGED last

Discard(ks) ==
    /\ jobs' = {e \in jobs : e.key \notin ks}
    /\ UNCHANGED <<pending, last>>

(* The process ends. *)
Lose == jobs' = {} /\ pending' = {} /\ last' = 0

Next ==
    \/ \E k \in Keys, spec \in ValidCrons : Issue(k, spec)
    \/ \E e \in pending : Put(e)
    \/ \E k \in Keys : Discard({k})
    \/ \E r \in Resources : Discard({k \in Keys : k[3] = r})
    \/ \E s \in Schedules, r \in Resources : Discard({k \in Keys : k[1] # s /\ k[3] = r})
    \/ Lose

Spec == Init /\ [][Next]_<<jobs, pending, last>>
=============================================================================
