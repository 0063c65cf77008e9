CONSTANTS
    None = None
    Schedules = {s1}
    Actions = {a1, a2}
    Resources = {r1}
    Kinds = {k1}
    KindOf <- OneKind
    AwsKinds = {}
    ScaleKinds = {}
    Crons = {c1, bad}
    ValidCrons = {c1}
    ScheduleSpecs <- AllSchedules
    ResourceSpecs <- AllResources
    InitialSchedules <- EachFullSchedule
    InitialResources <- EachOnResource
    MaxId = 20
    MaxEdits = 2
    MaxFaults = 0
    MaxRestarts = 1
    MaxFires = 0
SYMMETRY Symmetry
SPECIFICATION Spec
INVARIANTS TypeOK ReadyMeansRefreshed RetiredIsUnscheduled ScheduledWhereDeclared
PROPERTY NoSilentlyDroppedAction
CHECK_DEADLOCK FALSE
