SPECIFICATION Spec
CONSTANTS
    Skills <- TwoSkills
    Keys <- OneKey
    KeyOwner <- OneOwned
    NoKey <- NoTitle
    Modes = {"command"}
    Forces = {FALSE}
    MaxRuns = 3
    MaxAttempts = 1
    MaxItems = 2
    MaxFaults = 1
    MaxCrashes = 0
INVARIANT
    RecordedOnce
PROPERTY
    ImplementsTracking
