SPECIFICATION KSpec
CONSTANTS
    Instances = {i1}
    draft = draft
    gate = gate
    w1 = w1
    w2 = w2
    c1 = c1
    Owners = {w1, w2}
    Workers = {w1, w2}
    Clerks = {c1}
    Stages <- DraftAndGate
    Gates = {gate}
    FirstStage = draft
    Routes <- ReviewRoutes
    AdapterFamily <- DraftFamily
    NoStage = NoStage
    NoOwner = NoOwner
    LeaseSeconds = 1
    RetryDelays = {0}
    RetryAttempts = 2
    Repairs = {"cancel", "park", "retry", "reissue", "terminalize"}
    MaxAttempt = 2
    MaxTime = 1
    MaxClaims = 3
    MaxLag = 0
    MaxRows = 3
    MaxCrashes = 1
SYMMETRY WorkerSymmetry
INVARIANTS
    
    EffectOncePerAttempt
    NoSilentReexecution
PROPERTIES
    UsesLedgerAsSpecified
CHECK_DEADLOCK FALSE
