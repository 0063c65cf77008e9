CONSTANTS
    None = None
    a1 = a1
    a2 = a2
    n1 = n1
    n2 = n2
    t1 = t1
    t2 = t2
    h1 = h1
    h2 = h2
    d1 = d1
    d2 = d2
    d3 = d3
    s1 = s1
    Actions = {a1, a2}
    Namespaces = {n1, n2}
    OperatorNamespace = n1
    Targets = {t1, t2, h1, h2, d1, d2, d3, s1}
    Labelled = {h1, h2, d1, d2, s1}
    TypeOf <- WorkloadTypes
    NamespaceOf <- WorkloadNamespaces
    Word = 8
    ScheduleSpecs <- OnlyOpen
    Worlds <- AllWorlds
    Minute = 1
    MaxTime = 0
    MaxFires = 2
    MaxEdits = 1
SPECIFICATION JobSpec
INVARIANTS TypeOK ReportIsTrue TouchesOnlyWhatIsNamed ScaleFollowsItsGate
PROPERTIES OnlyOwnCondition
CHECK_DEADLOCK FALSE
