CONSTANTS
    None = None
    Policies = {p1}
    Schedules = {s1}
    ActionNames = {a1}
    Types = {slack}
    Supported = {slack}
    Specs <- PlainSpecs
    Capacity = 2
    MaxSends = 3
    MaxEdits = 1
    MaxFaults = 0
    MaxJobs = 1
    MaxShutdowns = 1
    MaxRestarts = 0
SPECIFICATION FairSpec
INVARIANTS TypeOK NeverSendsOnClosed RecipientsGetBodiesInOrder
PROPERTIES FifoPromise AcceptedIsHandled ShutdownEnds DeletedFallsSilent
CHECK_DEADLOCK FALSE
