SPECIFICATION HostSpec
CONSTANTS
    Bridges = {b1, b2}
    MaxReceipts = 2
    MaxPassDeaths = 1
    MaxLaunches = 2
    Lanes = {ivy, weekly}
    MaxEdits = 1
    MaxCutovers = 2
    Projects = {p1}
    MaxHandoffs = 2
    MaxRunDeaths = 1
INVARIANTS
    
    
    LoopRunsOnce
    DoneIsReceipted
    MessagesAreTrusted
    ResentOnlyAfterDeath
    StaleNoteIsAccountedFor
PROPERTIES
    CrosswalkKeepsIdentity
    
    PublishedDraftsAreReviewed
    
CHECK_DEADLOCK FALSE
