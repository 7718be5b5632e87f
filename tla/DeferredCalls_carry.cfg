CONSTANTS
    Calls = {c1, c2}
    MaxStages = 1
SPECIFICATION Spec
INVARIANT DoesNotCarryAcrossCalls
CHECK_DEADLOCK FALSE
