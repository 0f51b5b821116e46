SPECIFICATION Spec
CONSTANTS
    tab1 = tab1
    tab2 = tab2
    radarr = radarr
    radarr2 = radarr2
    film = film
    Clients <- TwoTabs
    Apps <- TwoApps
    Downloads <- OneDownload
    Kinds <- AllKinds
    GuardTime = 2
    MaxDelay = 1
    ConfirmTime = 1
    Outcomes = {"failed", "part", "all"}
    MaxTime = 3
    MaxPosts = 2
    MaxRequests = 3
    MaxRestarts = 1
SYMMETRY Interchangeable
CHECK_DEADLOCK FALSE
INVARIANTS
    TypeOK
    OneImportPerDownload
    AwaitedDiscardIsAlone
    SendsUnderCurrentRow
    FollowedIsCurrent
    LoggedOnce
    ImportedHasLeft
