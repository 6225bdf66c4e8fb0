SPECIFICATION Spec
CONSTANTS
    MaxXid = 3
    MaxId = 2
    MaxOpen = 2
    Worker = {w1}
    Limit = 2
    MaxAttempts = 2
    Unmatched = {}
CHECK_DEADLOCK FALSE
INVARIANT
    NoMessagePassed
