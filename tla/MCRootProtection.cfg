CONSTANTS
    r1 = r1
    r2 = r2
    Roots = {r1, r2}
    Capacity = 2
    MaxChanges = 4
    MaxDisturbances = 2
SPECIFICATION RootSpec
CHECK_DEADLOCK FALSE
INVARIANT TypeOK
INVARIANT NothingForgotten
INVARIANT ProtectionInvariant
PROPERTY Settles
