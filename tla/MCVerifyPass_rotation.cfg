SPECIFICATION Spec
CONSTANTS
    LastItem = 3
    MaxPerRun = 2
    Hour = 2
    MaxFaults = 2
INVARIANTS
    TypeOK
    GivenUpWasHeard
    HousekeepingGoesOn
PROPERTIES
    EachHeardAgain
    NobodyOvertakes
