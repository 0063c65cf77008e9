CONSTANTS
    None = None  small = small  large = large  bad = bad  other = other
    Executions = {good, bad, other}
    Instances = {i1, i2}
    Classes = {small, large}
    ClassOf <- Mixed
    Known <- AllBut
    Blinds = {FALSE}
    MaxCreates = 1
    MaxFaults = 2
    MaxRestarts = 1
SPECIFICATION FairSpec
INVARIANTS TypeOK NoneEndsUnreported
PROPERTIES SavedPhaseAdvances ReportedIsInert FailoverIsPrepared EveryExecutionEnds
CHECK_DEADLOCK FALSE
