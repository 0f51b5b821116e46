SPECIFICATION Spec
CONSTANTS
    LastTitle = 1
    FirstFile = 0
    PerRun = 1
    Interval = 1
    MaxReleases = 2
    Modes = {"active", "dry_run"}
    MaxOutside = 2
    MaxFaults = 2
    MaxForced = 1
    MaxRound = 1
    MaxFile = 1
INVARIANTS
    TypeOK
    SlotsMatchSearches
    EachRoundOnce
PROPERTIES
    NeverDoublesDownload
    UnclearGrabBlocks
CHECK_DEADLOCK FALSE
