CONSTANTS
    Roots = {1, 2}
    Quiet = 1
    MinInterval = 2
    FullReconcile = 2
    Day = 2
    CountLimit = 2
    ByteLimit = 2
    Noisy = {1}
    Sizes = {1}
    MaxCoordinators = 1
    MaxDisturbances = 0
SPECIFICATION JoinedSpec
PROPERTY QuietRootServedUnlessOvertaken
PROPERTY InFlightEnds
