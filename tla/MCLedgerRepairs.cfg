SPECIFICATION RepairSpec
CONSTANTS
    Instances = {i1}
    prepare = prepare
    review = review
    o1 = o1
    o2 = o2
    Owners = {o1}
    Stages <- TwoStages
    AdapterFamily <- TwoStagesFamily
    NoStage = NoStage
    NoOwner = NoOwner
    LeaseSeconds = 1
    RetryDelays = {0}
    MaxAttempt = 2
    MaxTime = 0
    MaxClaims = 2
    MaxLag = 0
    MaxRows = 3
PROPERTIES
    SettledRunsAreFinal
CHECK_DEADLOCK FALSE
