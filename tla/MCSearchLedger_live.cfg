SPECIFICATION FairSpec
CONSTANTS
    Skills <- OneSkill
    Keys <- OneKey
    KeyOwner <- OneOwned
    NoKey <- NoTitle
    Modes = {"command", "checked"}
    Forces = {FALSE, TRUE}
    MaxRuns = 2
    MaxAttempts = 1
    MaxItems = 1
    MaxFaults = 1
    MaxCrashes = 1
PROPERTY
    PendingRunsSettle
