SPECIFICATION FairSpec
CONSTANTS
    LastTitle = 2
    FirstFile = 0
    PerRun = 1
    Interval = 5
    MaxReleases = 1
    Modes = {"active"}
    MaxOutside = 0
    MaxFaults = 0
    MaxForced = 0
    MaxRound = 0
    MaxFile = 1
PROPERTIES
    TitlesComeUp
CHECK_DEADLOCK FALSE
