SPECIFICATION FairGSpec
CONSTANTS
    Instances = {i1}
    gate = gate
    w1 = w1
    c1 = c1
    c2 = c2
    approve = approve
    reject = reject
    Owners = {w1}
    Workers = {w1}
    Clerks = {c1, c2}
    FlagsOf <- PublishThenAsk
    Stages <- GateOnly
    Gates = {gate}
    FirstStage = gate
    Routes <- GateRoutes
    AdapterFamily <- GateFamily
    NoStage = NoStage
    NoOwner = NoOwner
    LeaseSeconds = 1
    RetryDelays = {0}
    RetryAttempts = 1
    Repairs = {"reissue", "restore"}
    MaxAttempt = 2
    MaxTime = 0
    MaxClaims = 2
    MaxLag = 0
    MaxRows = 2
    MaxCrashes = 0
    NotePerPublication = TRUE
    MaxNotes = 2
    Choices = {approve, reject}
    NoChoice = NoChoice
PROPERTIES
    GateIsSettled
CHECK_DEADLOCK FALSE
