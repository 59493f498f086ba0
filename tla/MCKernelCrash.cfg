SPECIFICATION FairKSpec
CONSTANTS
    Instances = {i1}
    draft = draft
    gate = gate
    w1 = w1
    w2 = w2
    c1 = c1
    Owners = {w1}
    Workers = {w1}
    Clerks = {}
    Stages <- DraftOnly
    Gates = {}
    FirstStage = draft
    Routes <- DraftOnlyRoutes
    AdapterFamily <- DraftOnlyFamily
    NoStage = NoStage
    NoOwner = NoOwner
    LeaseSeconds = 1
    RetryDelays = {0}
    RetryAttempts = 2
    Repairs = {}
    MaxAttempt = 2
    MaxTime = 0
    MaxClaims = 3
    MaxLag = 0
    MaxRows = 3
    MaxCrashes = 1
PROPERTY
    CompletionIsContinued
CHECK_DEADLOCK FALSE
