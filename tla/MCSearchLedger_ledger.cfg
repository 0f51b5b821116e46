SPECIFICATION Spec
CONSTANTS
    Skills <- OneSkill
    Keys <- OneKey
    KeyOwner <- OneOwned
    NoKey <- NoTitle
    Modes = {"command", "checked"}
    Forces = {FALSE}
    MaxRuns = 2
    MaxAttempts = 2
    MaxItems = 2
    MaxFaults = 2
    MaxCrashes = 1
INVARIANTS
    TypeOK
    CommandAccounted
    EntryNamesItsWriter
    VerdictMatchesItems
    NoDoubleSearch
PROPERTIES
    EntriesStay
    VerdictsAreFinal
