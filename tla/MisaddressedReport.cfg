CONSTANTS
    None = None
    Policies = {p1}
    Schedules = {s1}
    ActionNames = {a1}
    Types = {slack}
    Supported = {slack}
    Specs <- PlainSpecs
    Capacity = 2
    MaxSends = 3
    MaxEdits = 1
    MaxFaults = 1
    MaxJobs = 1
    MaxShutdowns = 0
    MaxRestarts = 0
SPECIFICATION FairSpec
PROPERTY ReportsReachTheirSchedule
CHECK_DEADLOCK FALSE
