---------------------------- MODULE MCReconcilers ----------------------------
(* Instances of Reconcilers for TLC: which specs users write in each run. *)
EXTENDS Reconcilers, TLC

On(c) == [cron |-> c, active |-> TRUE]
PlanOf(as) == [active |-> TRUE, periodsOK |-> TRUE, actions |-> as]

\* Schedules that give every action any cron expression or none.
PlainSchedules == {PlanOf(as) : as \in [Actions -> {On(c) : c \in Crons} \cup {None}]}

\* Schedules with every action, and the ways to switch one off.
FullPlan(c) == PlanOf([a \in Actions |-> On(c)])
MarkedSchedules ==
    UNION {{FullPlan(c),
            [FullPlan(c) EXCEPT !.active = FALSE],
            [FullPlan(c) EXCEPT !.periodsOK = FALSE],
            [FullPlan(c) EXCEPT !.actions = [a \in Actions |-> [cron |-> c, active |-> FALSE]]]}
           : c \in ValidCrons}
AllSchedules == PlainSchedules \cup MarkedSchedules
FullSchedules == {FullPlan(c) : c \in Crons}

\* Resources with any set of actions, active or not.
AllResources == [active : BOOLEAN, schedule : Schedules,
                 actions : [Actions -> {"absent", "on", "off"}]]
\* Resources with every action on.
OnResources == {spec \in AllResources : \A a \in Actions : spec.actions[a] = "on"}

\* What exists when the operator is first started.
EachSchedule == [Schedules -> ScheduleSpecs]
EachFullSchedule == [Schedules -> FullSchedules]
SomeFullSchedule == {f \in EachSchedule : \E s \in Schedules : f[s] \in FullSchedules}
EachOnResource == [Resources -> {spec \in OnResources : spec.active}]

OneKind == [r \in Resources |-> CHOOSE k \in Kinds : TRUE]
KindEach == CHOOSE f \in [Resources -> Kinds] : \A r, t \in Resources : r # t => f[r] # f[t]

Symmetry == Permutations(Actions)
ScheduleSymmetry == Permutations(Schedules)
=============================================================================
