CONSTANTS
    None = None
    Schedules = {s1}
    Actions = {a1}
    Resources = {r1, r2}
    Kinds = {k1, k2}
    KindOf <- KindEach
    AwsKinds = {k2}
    ScaleKinds = {k2}
    Crons = {c1, bad}
    ValidCrons = {c1}
    ScheduleSpecs <- PlainSchedules
    ResourceSpecs <- OnResources
    InitialSchedules <- EachSchedule
    InitialResources <- EachOnResource
    MaxId = 20
    MaxEdits = 2
    MaxFaults = 0
    MaxRestarts = 0
    MaxFires = 0
SPECIFICATION FairSpec
INVARIANTS RetiredIsUnscheduled ServiceInv TrackedIdsAreLive GaugeCountsEntries
PROPERTIES OnlyOwnersTouchJobs RetiredLosesItsJobs ComesToRest RegistryPromise
CHECK_DEADLOCK FALSE
