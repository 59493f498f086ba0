SPECIFICATION RetrySpec
CONSTANTS
    Instances = {i1}
    prepare = prepare
    review = review
    o1 = o1
    o2 = o2
    Owners = {o1}
    Stages <- OneStage
    AdapterFamily <- OneStageFamily
    NoStage = NoStage
    NoOwner = NoOwner
    LeaseSeconds = 1
    RetryDelays = {0, 1}
    MaxAttempt = 2
    MaxTime = 2
    MaxClaims = 3
    MaxLag = 0
    MaxRows = 2
INVARIANTS
    CutOffNeedsApproval
PROPERTIES
    AtMostOnceExecution
CHECK_DEADLOCK FALSE
