CONSTANTS
    None = None
    Schedules = {s1, s2}
    Actions = {a1}
    Resources = {r1}
    Kinds = {k1}
    KindOf <- OneKind
    AwsKinds = {k1}
    ScaleKinds = {k1}
    Crons = {c1}
    ValidCrons = {c1}
    ScheduleSpecs <- PlainSchedules
    ResourceSpecs <- OnResources
    InitialSchedules <- SomeFullSchedule
    InitialResources <- EachOnResource
    MaxId = 20
    MaxEdits = 2
    MaxFaults = 1
    MaxRestarts = 0
    MaxFires = 1
SYMMETRY ScheduleSymmetry
SPECIFICATION Spec
INVARIANT ScheduledWhereDeclared
PROPERTIES NoSilentlyDroppedAction ReadyMatchesSpec
CHECK_DEADLOCK FALSE
