CONSTANTS
    r1 = r1
    r2 = r2
    Roots = {r1, r2}
    Capacity = 1
    MaxChanges = 2
    MaxDisturbances = 0
SPECIFICATION Spec
CHECK_DEADLOCK FALSE
INVARIANT NothingForgotten
