SPECIFICATION Spec
CONSTANTS
    c1 = c1
    c2 = c2
    missing = missing
    upgrades = upgrades
    Clients <- OneClient
    Skills <- OneSkill
    Kinds = {"on", "off", "save", "delete", "trigger"}
    MaxAgents = 4
    MaxRequests = 4
    MaxJobs = 2
SYMMETRY Interchangeable
CHECK_DEADLOCK FALSE
INVARIANTS
    TypeOK
    EnabledIsScheduled
    OneRunPerSkill
PROPERTY
    OffReachesKnownRuns
