SPECIFICATION FairSpec
CONSTANTS
    LastTitle = 2
    FirstFile = 0
    PerRun = 1
    Interval = 1
    MaxReleases = 1
    Modes = {"active"}
    MaxOutside = 1
    MaxFaults = 1
    MaxForced = 0
    MaxRound = 0
    MaxFile = 1
PROPERTIES
    TitlesComeUp
CHECK_DEADLOCK FALSE
