CONSTANTS
    None = None  small = small  large = large  bad = bad  other = other
    Executions = {good, second}
    Instances = {i1, i2, i3}
    Classes = {small, large}
    ClassOf <- Mixed
    Known <- AllBut
    Blinds = {TRUE}
    MaxCreates = 2
    MaxFaults = 0
    MaxRestarts = 0
SYMMETRY Symmetry
SPECIFICATION Spec
INVARIANTS SuccessMeansScaled
PROPERTIES FailoverIsPrepared
CHECK_DEADLOCK FALSE
