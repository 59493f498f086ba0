SPECIFICATION AuthSpec
CONSTANTS
    Contents = {c1}
    MaxGates = 2
    LastDay = 1
INVARIANT ApprovalsAreUnderstood
CHECK_DEADLOCK FALSE
