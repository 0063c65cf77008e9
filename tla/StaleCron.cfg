CONSTANTS
    None = None
    Schedules = {s1}
    Actions = {a1}
    Resources = {r1}
    Kinds = {k1}
    KindOf <- OneKind
    AwsKinds = {}
    ScaleKinds = {}
    Crons = {c1, c2}
    ValidCrons = {c1, c2}
    ScheduleSpecs <- PlainSchedules
    ResourceSpecs <- AllResources
    InitialSchedules <- EachSchedule
    InitialResources <- EachOnResource
    MaxId = 20
    MaxEdits = 2
    MaxFaults = 0
    MaxRestarts = 0
    MaxFires = 0
SPECIFICATION Spec
INVARIANT JobsFollowTheSchedule
CHECK_DEADLOCK FALSE
