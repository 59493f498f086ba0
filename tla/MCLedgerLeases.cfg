SPECIFICATION Spec
CONSTANTS
    Instances = {i1}
    prepare = prepare
    review = review
    o1 = o1
    o2 = o2
    Owners = {o1, o2}
    Stages <- OneStage
    AdapterFamily <- OneStageFamily
    NoStage = NoStage
    NoOwner = NoOwner
    LeaseSeconds = 1
    RetryDelays = {0}
    MaxAttempt = 1
    MaxTime = 2
    MaxClaims = 3
    MaxLag = 1
    MaxRows = 1
SYMMETRY WorkerSymmetry
INVARIANTS
    TypeOK
    LedgerInv
    LeaseIffActive
    QueuedIsUntouched
    StarterSettles
    LeasesDoNotOverlap
CHECK_DEADLOCK FALSE
