SPECIFICATION FairKSpec
CONSTANTS
    Instances = {i1}
    draft = draft
    gate = gate
    w1 = w1
    w2 = w2
    c1 = c1
    Owners = {w1}
    Workers = {w1}
    Clerks = {w1}
    Stages <- DraftAndGate
    Gates = {gate}
    FirstStage = draft
    Routes <- ReviewRoutes
    AdapterFamily <- DraftFamily
    NoStage = NoStage
    NoOwner = NoOwner
    LeaseSeconds = 1
    RetryDelays = {0}
    RetryAttempts = 2
    Repairs = {"restore"}
    MaxAttempt = 3
    MaxTime = 2
    MaxClaims = 8
    MaxLag = 0
    MaxRows = 6
    MaxCrashes = 0
INVARIANTS
    StandsWhereWorkIs
PROPERTIES
    ReachesStopState
CHECK_DEADLOCK FALSE
