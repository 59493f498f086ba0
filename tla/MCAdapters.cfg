SPECIFICATION AdaptersSpec
CONSTANTS
    MaxTexts = 6
    MaxLoopDeaths = 1
    Keys = {k1, k2}
    MaxTurns = 2
    MaxCalls = 4
    Gates = {g1, g2}
    Prints = {f1, f2}
    Msgs = {q1, q2}
    Cap = 2
    BackstopTurns = 2
    Contents = {c1, c2}
    MaxGates = 2
    LastDay = 1
INVARIANTS
    RewritesWithinBudget
    ApprovedIsReviewed
    ContinuityIsReal
    
    
    EffectsWereApproved
    LayersOnlyTighten
PROPERTIES
    LoopComesToRest
    LoopMeetsCap
CHECK_DEADLOCK FALSE
