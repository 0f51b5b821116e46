SPECIFICATION Spec
CONSTANTS
    menu = menu
    page = page
    page2 = page2
    film = film
    Readers <- Threads
    Downloads <- OneDownload
    Slots = 2
    Kinds <- AllKinds
    MaxVersion = 1
    MaxRequests = 3
SYMMETRY Interchangeable
CHECK_DEADLOCK FALSE
INVARIANTS
    TypeOK
    NothingStaleKept
    ServedAfterAction
    CountMatchesList
    SlotsGivenBack
PROPERTIES
    LaterReadWins
