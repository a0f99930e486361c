CONSTANTS
    Roots = {1}
    Quiet = 1
    MinInterval = 3
    FullReconcile = 3
    Day = 5
    CountLimit = 1
    ByteLimit = 3
    Noisy = {1}
    Sizes = {1, 2}
    MaxCoordinators = 2
    MaxDisturbances = 1
SPECIFICATION SpecHistory
INVARIANT TypeOK
INVARIANT InFlightKnown
INVARIANT DailyLimits
INVARIANT AttemptsSpaced
INVARIANT ReconcileMarks
