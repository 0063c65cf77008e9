---------------------------- MODULE Notification ----------------------------
(***************************************************************************)
(* The notification service (notification/service.go) and the controller   *)
(* of NotificationPolicies that registers its recipients                   *)
(* (notificationpolicy_controller.go).                                     *)
(*                                                                         *)
(* Cron jobs and the ActionExecution controller call Send from goroutines  *)
(* of their own; one thread takes the bodies from a bounded channel and    *)
(* calls every recipient of their schedule.  The RWMutex mu guards the     *)
(* recipients and the closing of the channel.  Its critical sections are   *)
(* one step each, but for Send: it looks at closed, then sends, and others *)
(* may read in between.                                                    *)
(*                                                                         *)
(* The shutdown of the operator is here too, with the cron that runs the   *)
(* jobs: when the manager's context is done the cron and this service stop *)
(* independently of each other, each in its own Start.                     *)
(***************************************************************************)
EXTENDS Integers, FiniteSets, Sequences

CONSTANTS
    Policies,            \* names of NotificationPolicies, the recipients' ids
    Schedules,           \* names of schedules
    ActionNames,         \* names of actions
    Types, Supported,    \* notification types, and those with a sender
    Specs,               \* the specs users write
    None,                \* a policy or a recipient that does not exist
    Capacity,            \* of the channel
    MaxSends, MaxEdits, MaxFaults, MaxRestarts, MaxJobs, MaxShutdowns  \* bounds

(* What the Schedule field of a body may hold. *)
Names == Schedules \cup ActionNames

(* configured: the part of the spec that belongs to its type is there.      *)
PolicySpec == [enabled : BOOLEAN, type : Types, configured : BOOLEAN,
               schedules : Seq(Schedules)]

ASSUME NotificationAssumption ==
    /\ IsFiniteSet(Policies)
    /\ Specs \subseteq PolicySpec
    /\ None \notin Specs /\ None \notin Types
    /\ Supported \subseteq Types
    /\ Capacity \in Nat
    /\ {MaxSends, MaxEdits, MaxFaults, MaxRestarts, MaxJobs, MaxShutdowns} \subseteq Nat

(* A body by the schedule it is addressed to; of: the schedule whose action  *)
(* it reports; n: its place among the bodies accepted, 0 before that.        *)
Bodies == [n : Nat, schedule : Names, of : Schedules]
Reasons == {"none", "Active", "Disabled", "InvalidNotificationConfig",
            "NotSupportedNotificationType"}

VARIABLES
    policy, ready,   \* the policies and the Reason of their Ready condition
    polQ, pw,        \* the controller's work queue and worker
    recipients,      \* recipients[schedule][id]: the type of the recipient
    gauge,           \* TimeTerraNotificationPolicies
    ch, closed,      \* the channel
    sending,         \* bodies whose Send has seen an open channel
    run,             \* the thread
    log,             \* log[id]: the bodies that reached the recipient
    ctxDone,         \* the manager's context is done
    cron, jobs,      \* the cron, and how many of its jobs are running
    accepted, sends, edits, faults, restarts, shutdowns

polVars == <<policy, ready, polQ, pw, edits, faults>>
regVars == <<recipients, gauge>>
chVars  == <<ch, closed, sending, accepted, sends>>
runVars == <<run, log>>
cronVars == <<ctxDone, cron, jobs, shutdowns>>
vars == <<polVars, regVars, chVars, runVars, cronVars, restarts>>

PWorkers == [pc : {"idle", "add", "status"}, id : Policies \cup {None},
             spec : Specs \cup {None}, todo : Seq(Schedules), ready : Reasons]
PIdle == [pc |-> "idle", id |-> None, spec |-> None, todo |-> <<>>, ready |-> "none"]

Threads == [pc : {"receive", "lookup", "notify", "stopped"}, copy : SUBSET Policies,
            body : Bodies \cup {None}, handled : Nat]
Thread == [pc |-> "receive", copy |-> {}, body |-> None, handled |-> 0]

NoRecipients == [s \in Names |-> [p \in Policies |-> None]]
ZeroGauge == [x \in Types \X Names |-> 0]
Existing == {p \in Policies : policy[p] # None}

Init ==
    /\ policy \in [Policies -> Specs \cup {None}] /\ ready = [p \in Policies |-> "none"]
    /\ polQ = Existing /\ pw = PIdle
    /\ recipients = NoRecipients /\ gauge = ZeroGauge
    /\ ch = <<>> /\ closed = FALSE /\ sending = {} /\ run = Thread
    /\ log = [p \in Policies |-> <<>>]
    /\ ctxDone = FALSE /\ cron = "running" /\ jobs = 0
    /\ accepted = 0 /\ sends = 0 /\ edits = 0 /\ faults = 0
    /\ restarts = 0 /\ shutdowns = 0

-----------------------------------------------------------------------------
(* The service.                                                             *)

\* Mutant: the lock is not waited for.
NoMutex == TRUE

(* mu can be taken for writing: no Send holds it for reading.               *)
MuFree == sending = {}

\* Mutant: a recipient once added stays.
RemoveNothing(id) == MuFree /\ UNCHANGED <<recipients, gauge>>

(* The recipient leaves every schedule, and is counted off where it was.    *)
RemoveRecipient(id) ==
    /\ MuFree
    /\ recipients' = [s \in Names |-> [recipients[s] EXCEPT ![id] = None]]
    /\ gauge' = [x \in Types \X Names |->
                    IF recipients[x[2]][id] = x[1] THEN gauge[x] - 1 ELSE gauge[x]]

\* Mutant: the recipient is not counted.
AddUncounted(s, id, type) ==
    /\ MuFree
    /\ recipients' = [recipients EXCEPT ![s][id] = type]
    /\ UNCHANGED gauge

AddRecipientToSchedule(s, id, type) ==
    /\ MuFree
    /\ recipients' = [recipients EXCEPT ![s][id] = type]
    /\ gauge' = [gauge EXCEPT ![<<type, s>>] = @ + 1]

(* Send, to the look at closed; then to the end: a body is dropped when the  *)
(* service is stopped, and when the channel is full.                         *)
Send(s, of) ==
    /\ sends < MaxSends
    /\ sends' = sends + 1
    /\ sending' = IF closed THEN sending
                  ELSE sending \cup {<<sends, [n |-> 0, schedule |-> s, of |-> of]>>}
    /\ UNCHANGED <<polVars, regVars, ch, closed, accepted, runVars, ctxDone, cron,
                   shutdowns, restarts>>

Put(x) ==
    /\ x \in sending
    /\ sending' = sending \ {x}
    /\ \/ /\ Len(ch) < Capacity
          /\ ch' = Append(ch, [x[2] EXCEPT !.n = accepted + 1])
          /\ accepted' = accepted + 1
       \/ Len(ch) >= Capacity /\ UNCHANGED <<ch, accepted>>
    /\ UNCHANGED <<polVars, regVars, closed, sends, runVars, cronVars, restarts>>

(* A running cron starts a job, that ends when it likes or never: with a     *)
(* report to its schedule, or with none where the schedule is not due.       *)
JobStart ==
    /\ cron = "running"
    /\ jobs < MaxJobs
    /\ jobs' = jobs + 1
    /\ UNCHANGED <<polVars, regVars, chVars, runVars, ctxDone, cron, shutdowns, restarts>>

JobReport ==
    /\ jobs > 0
    /\ jobs' = jobs - 1
    /\ \E s \in Schedules : Send(s, s)

JobEnd ==
    /\ jobs > 0
    /\ jobs' = jobs - 1
    /\ UNCHANGED <<polVars, regVars, chVars, runVars, ctxDone, cron, shutdowns, restarts>>

(* The report of an execution, whose ActionName is the name of the action,   *)
(* goes to a schedule of that name.                                          *)
ExecutionReport ==
    /\ \E s \in Schedules, a \in ActionNames : Send(a, s)
    /\ UNCHANGED jobs

\* Mutant: the youngest body is taken first.
TakeLast(q) == <<q[Len(q)], SubSeq(q, 1, Len(q) - 1)>>

(* The body a receive takes, and what it leaves. *)
Take(q) == <<Head(q), Tail(q)>>

\* Mutant: the thread stops at the close, whatever is left.
StopAtOnce == closed

(* A receive from a closed channel fails only when it is empty.             *)
Drained == closed /\ ch = <<>>

\* Mutant: the thread does not look whether the receive failed, and goes on
\* with the empty body.
ReceiveUnchecked ==
    /\ run.pc = "receive"
    /\ \/ /\ ch # <<>> /\ ~Drained
          /\ run' = [run EXCEPT !.pc = "lookup", !.body = Take(ch)[1]]
          /\ ch' = Take(ch)[2]
       \/ /\ Drained
          /\ run' = [run EXCEPT !.pc = "lookup",
                                !.body = [n |-> 0, schedule |-> None, of |-> None]]
          /\ UNCHANGED ch
    /\ UNCHANGED <<polVars, regVars, closed, sending, accepted, sends, log, cronVars, restarts>>

Receive ==
    /\ run.pc = "receive"
    /\ \/ /\ ch # <<>> /\ ~Drained
          /\ run' = [run EXCEPT !.pc = "lookup", !.body = Take(ch)[1]]
          /\ ch' = Take(ch)[2]
       \/ /\ Drained
          /\ run' = [run EXCEPT !.pc = "stopped", !.body = None]
          /\ UNCHANGED ch
    /\ UNCHANGED <<polVars, regVars, closed, sending, accepted, sends, log, cronVars, restarts>>

(* The recipients of the body's schedule are copied under the lock. *)
Lookup ==
    /\ run.pc = "lookup"
    /\ run' = [run EXCEPT !.pc = "notify",
                  !.copy = {p \in Policies : recipients[run.body.schedule][p] # None}]
    /\ UNCHANGED <<polVars, regVars, chVars, log, cronVars, restarts>>

(* A recipient's Notify, the same for the three senders: one HTTP call with  *)
(* a time limit and no second try.  One that failed, by the clock or by the  *)
(* status of the answer, may have reached the recipient all the same.        *)
Deliver(p) == log' \in {log, [log EXCEPT ![p] = Append(@, run.body.n)]}

(* The recipients are called one by one; an error is logged and forgotten.  *)
Notify ==
    /\ run.pc = "notify"
    /\ \/ \E p \in run.copy :
             /\ Deliver(p)
             /\ run' = [run EXCEPT !.copy = @ \ {p}]
       \/ /\ run.copy = {}
          /\ run' = [run EXCEPT !.pc = "receive", !.handled = run.body.n]
          /\ UNCHANGED log
    /\ UNCHANGED <<polVars, regVars, chVars, cronVars, restarts>>

-----------------------------------------------------------------------------
(* Shutdown.                                                                *)

(* The manager's context is done. *)
Shutdown ==
    /\ ~ctxDone
    /\ shutdowns < MaxShutdowns
    /\ ctxDone' = TRUE
    /\ shutdowns' = shutdowns + 1
    /\ UNCHANGED <<polVars, regVars, chVars, runVars, cron, jobs, restarts>>

(* The service closes its channel, and then waits for the thread. *)
Close ==
    /\ ctxDone
    /\ ~closed
    /\ MuFree
    /\ closed' = TRUE
    /\ UNCHANGED <<polVars, regVars, ch, sending, accepted, sends, runVars, cronVars, restarts>>

\* Mutant: the cron waits for its jobs without a time limit.
DrainedOnly == jobs = 0

(* One minute is long: the wait ends whether or not the jobs have. *)
DrainedOrTimeout == TRUE

(* The cron starts no more jobs, then waits for those that are running.     *)
StopCron ==
    /\ ctxDone
    /\ \/ cron = "running" /\ cron' = "stopping"
       \/ cron = "stopping" /\ DrainedOrTimeout /\ cron' = "stopped"
    /\ UNCHANGED <<polVars, regVars, chVars, runVars, ctxDone, jobs, shutdowns, restarts>>

-----------------------------------------------------------------------------
(* NotificationPolicies and their controller.                               *)

WritePolicy(p, spec) ==
    /\ edits < MaxEdits
    /\ spec # policy[p]
    /\ policy' = [policy EXCEPT ![p] = spec]
    /\ ready' = IF spec = None THEN [ready EXCEPT ![p] = "none"] ELSE ready
    /\ polQ' = polQ \cup {p}
    /\ edits' = edits + 1
    /\ UNCHANGED <<pw, faults, regVars, chVars, runVars, cronVars, restarts>>

(* The recipient a spec gives, None and a Reason if it gives none. *)
Verdict(spec) ==
    IF ~spec.enabled THEN "Disabled"
    ELSE IF spec.type \notin Supported THEN "NotSupportedNotificationType"
    ELSE IF ~spec.configured THEN "InvalidNotificationConfig"
    ELSE "Active"

(* Reconcile, to RemoveRecipient; the rest of its work is local up to the    *)
(* next call of the service or the status update.  Once the context is done  *)
(* the controller takes no more from its queue.                              *)
ReconcilePolicy(p) ==
    LET spec == policy[p]
    IN  /\ ~ctxDone
        /\ pw.pc = "idle"
        /\ p \in polQ
        /\ polQ' = polQ \ {p}
        /\ RemoveRecipient(p)
        /\ pw' = IF spec = None THEN PIdle
                 ELSE [pc |-> IF Verdict(spec) = "Active" THEN "add" ELSE "status",
                       id |-> p, spec |-> spec,
                       todo |-> IF Verdict(spec) = "Active" THEN spec.schedules ELSE <<>>,
                       ready |-> Verdict(spec)]
        /\ UNCHANGED <<policy, ready, edits, faults, chVars, runVars, cronVars, restarts>>

(* One turn of the loop over the schedules of the spec. *)
AddNext ==
    /\ pw.pc = "add"
    /\ \/ /\ pw.todo # <<>>
          /\ AddRecipientToSchedule(Head(pw.todo), pw.id, pw.spec.type)
          /\ pw' = [pw EXCEPT !.todo = Tail(@)]
       \/ /\ pw.todo = <<>>
          /\ pw' = [pw EXCEPT !.pc = "status"]
          /\ UNCHANGED regVars
    /\ UNCHANGED <<policy, ready, polQ, edits, faults, chVars, runVars, cronVars, restarts>>

UpdatePolicyStatus ==
    LET conflict == pw.id \in polQ
    IN  /\ pw.pc = "status"
        /\ \/ /\ ~conflict
              /\ ready' = [ready EXCEPT ![pw.id] = pw.ready]
              /\ UNCHANGED <<polQ, faults>>
           \/ /\ conflict
              /\ UNCHANGED <<ready, polQ, faults>>
           \/ /\ ~conflict /\ faults < MaxFaults
              /\ faults' = faults + 1
              /\ polQ' = polQ \cup {pw.id}
              /\ UNCHANGED ready
        /\ pw' = PIdle
        /\ UNCHANGED <<policy, edits, regVars, chVars, runVars, cronVars, restarts>>

Controller == AddNext \/ UpdatePolicyStatus

(* The operator dies and another starts: what was not handled is lost, and   *)
(* nobody is to handle it any more.                                          *)
Restart ==
    /\ restarts < MaxRestarts
    /\ restarts' = restarts + 1
    /\ polQ' = Existing /\ pw' = PIdle
    /\ recipients' = NoRecipients /\ gauge' = ZeroGauge
    /\ ch' = <<>> /\ closed' = FALSE /\ sending' = {}
    /\ run' = [Thread EXCEPT !.handled = accepted]
    /\ ctxDone' = FALSE /\ cron' = "running" /\ jobs' = 0
    /\ UNCHANGED <<policy, ready, edits, faults, log, accepted, sends, shutdowns>>

Next ==
    \/ JobStart \/ JobReport \/ JobEnd
    \/ ExecutionReport \/ (\E x \in sending : Put(x))
    \/ Receive \/ Lookup \/ Notify
    \/ Shutdown \/ Close \/ StopCron
    \/ \E p \in Policies : \E spec \in Specs \cup {None} : WritePolicy(p, spec)
    \/ \E p \in Policies : ReconcilePolicy(p)
    \/ Controller \/ Restart

Spec == Init /\ [][Next]_vars

(* The thread never waits for ever: a call of a recipient times out after 10 *)
(* seconds.  The controller and Send never stop half-way, and the writers of *)
(* mu are not starved by its readers.  No job is assumed to end: what is, of *)
(* the cron, is that its wait of a minute does.                              *)
Fairness ==
    /\ WF_vars(StopCron) /\ SF_vars(Close)
    /\ WF_vars(Receive \/ Lookup \/ Notify)
    /\ WF_vars(\E x \in sending : Put(x))
    /\ SF_vars(Controller)
    /\ \A p \in Policies : SF_vars(ReconcilePolicy(p))

FairSpec == Spec /\ Fairness

-----------------------------------------------------------------------------
(* Types; the channel never holds more than it was made for (service.go:37). *)
TypeOK ==
    /\ policy \in [Policies -> Specs \cup {None}] /\ ready \in [Policies -> Reasons]
    /\ polQ \subseteq Policies /\ pw \in PWorkers
    /\ recipients \in [Names -> [Policies -> Types \cup {None}]]
    /\ gauge \in [Types \X Names -> Int]
    /\ ch \in Seq(Bodies) /\ Len(ch) <= Capacity /\ closed \in BOOLEAN
    /\ sending \subseteq Nat \X Bodies
    /\ run \in Threads /\ log \in [Policies -> Seq(Nat)]
    /\ accepted \in 0..MaxSends /\ sends \in 0..MaxSends /\ edits \in 0..MaxEdits
    /\ ctxDone \in BOOLEAN /\ cron \in {"running", "stopping", "stopped"}
    /\ jobs \in 0..MaxJobs /\ shutdowns \in 0..MaxShutdowns
    /\ faults \in 0..MaxFaults /\ restarts \in 0..MaxRestarts

Quiet(p) == p \notin polQ /\ pw.id # p
Wants(p, s) ==
    /\ policy[p] # None
    /\ Verdict(policy[p]) = "Active"
    /\ \E i \in DOMAIN policy[p].schedules : policy[p].schedules[i] = s

(* Once its controller is done with a policy it is a recipient of exactly    *)
(* the schedules it lists, with its own type, or of none if it was deleted,  *)
(* disabled or cannot be used, and Ready says so: after any sequence of      *)
(* edits, lost updates and restarts                                          *)
(* (notificationpolicy_controller.go:90-187, service.go:44-76).              *)
RecipientsMatchPolicies ==
    \A p \in Policies : Quiet(p) =>
        /\ \A s \in Names :
              recipients[s][p] = IF Wants(p, s) THEN policy[p].type ELSE None
        /\ policy[p] # None => ready[p] = Verdict(policy[p])

(* What the gauge, the "Number of Timeterra notification policies."           *)
(* (monitoring/metrics.go:38), has over the number of a schedule's recipients *)
(* of a type.                                                                 *)
Surplus(t, s) == gauge[<<t, s>>] - Cardinality({p \in Policies : recipients[s][p] = t})

(* The loop of the controller comes to a schedule its policy lists again. *)
ListedAgain(t, s) ==
    /\ pw.pc = "add" /\ pw.todo # <<>> /\ pw' # pw
    /\ t = pw.spec.type /\ s = Head(pw.todo) /\ recipients[s][pw.id] # None

(* The gauge follows the number of recipients, but for one case: each time   *)
(* the loop adds a policy where it is already, it grows by one more, for as  *)
(* long as the process lives.  That surplus stays as it is at every          *)
(* other step: no edit of the type, the list or the switch of a policy, no   *)
(* second reconcile after a lost update, and no deletion, counts a recipient *)
(* off twice or forgets it.  Only a new process starts from 0                *)
(* (service.go:44-77, notificationpolicy_controller.go:94-187).              *)
GaugeDriftsByRepeatsOnly ==
    [][restarts' = restarts =>
          \A t \in Types, s \in Names :
              Surplus(t, s)' = Surplus(t, s) + IF ListedAgain(t, s) THEN 1 ELSE 0]_vars

(* Nobody sends on a closed channel, which would end the process: a Send     *)
(* that has seen it open holds the lock the close waits for                  *)
(* (service.go:79-93, 143-146).                                              *)
NeverSendsOnClosed == closed => sending = {}

(* A recipient gets bodies in the order they were accepted, none of them     *)
(* twice, also where calls fail and some are lost: there is one thread, and  *)
(* an error is not retried (service.go:95-125).                              *)
RecipientsGetBodiesInOrder ==
    \A p \in Policies : \A i, j \in DOMAIN log[p] : i < j => log[p][i] < log[p][j]

(* The service as its senders see it: the body in the thread's hands, until  *)
(* the last recipient was called, and those in the channel.                  *)
Pending == (IF run.pc \in {"lookup", "notify"} THEN <<run.body.n>> ELSE <<>>)
               \o [i \in DOMAIN ch |-> ch[i].n]

Fifo == INSTANCE LossyFifo
            WITH Room <- Capacity + 1, pending <- Pending, last <- accepted, open <- ~closed

(* The service is a bounded queue that refuses bodies but never loses,       *)
(* repeats or reorders one it took, up to and after its close, and takes     *)
(* none once it is closed: for any number of senders between their look at   *)
(* closed and their send, and a close at any moment (service.go:79-152).     *)
FifoPromise == Fifo!Spec

(* What was accepted is handled, shutdown or not, unless the operator dies   *)
(* (service.go:95-125).                                                      *)
AcceptedIsHandled == \A i \in 1..MaxSends : accepted >= i ~> run.handled >= i

(* Shutdown ends: the cron stops although a job may hang, the thread stops   *)
(* although recipients may be slow, and then every body it ever took was     *)
(* handled (schedule_service.go:40-53, service.go:138-152).                  *)
ShutdownEnds ==
    ctxDone ~> (~ctxDone \/ (cron = "stopped" /\ run.pc = "stopped" /\ run.handled = accepted))

(* A deleted policy is called no more, unless somebody creates it again:     *)
(* neither the map nor the thread's copy of it keeps it for ever             *)
(* (notificationpolicy_controller.go:60-64, service.go:105-112).             *)
Called(p) ==
    run.pc # "stopped" /\ (p \in run.copy \/ \E s \in Names : recipients[s][p] # None)
DeletedFallsSilent ==
    \A p \in Policies : policy[p] = None ~> (policy[p] # None \/ ~Called(p))

(* "TimeTerra supports sending execution reports (notifications) when cron    *)
(* actions run" (README.md:125), to the schedules a policy lists: a policy    *)
(* that stands when the report of an action is looked up is called.           *)
ReportsReachTheirSchedule ==
    [][run.pc = "lookup" /\ run'.pc = "notify" =>
          \A p \in Policies : Quiet(p) /\ Wants(p, run.body.of) => p \in run'.copy]_vars
=============================================================================
