SPECIFICATION Spec
CONSTANTS
    Skills <- TwoSkills
    Keys <- OneKey
    KeyOwner <- OneOwned
    NoKey <- NoTitle
    Modes = {"command"}
    Forces = {TRUE, FALSE}
    MaxRuns = 3
    MaxAttempts = 2
    MaxItems = 2
    MaxFaults = 2
    MaxCrashes = 0
INVARIANT
    NoDoubleSearch
