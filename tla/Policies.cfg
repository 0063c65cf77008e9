CONSTANTS
    None = None
    Policies = {p1, p2}
    Schedules = {s1, s2}
    ActionNames = {}
    Types = {slack, api, email}
    Supported = {slack, api}
    Specs <- AllSpecs
    Capacity = 1
    MaxSends = 0
    MaxEdits = 3
    MaxFaults = 1
    MaxJobs = 0
    MaxShutdowns = 0
    MaxRestarts = 1
SYMMETRY Symmetry
SPECIFICATION Spec
INVARIANT RecipientsMatchPolicies
PROPERTY GaugeDriftsByRepeatsOnly
CHECK_DEADLOCK FALSE
