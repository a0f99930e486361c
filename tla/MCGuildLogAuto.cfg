CONSTANTS
    Nodes = {1, 2, 3}
    Genesis = {1, 2, 3}
    HomeDomain <- MCHomeDomain
    Domains = {"east", "west"}
    Groups = {g1}
    Placement <- MCPlacement
    KeyBytes = {k, l}
    Policies <- MCPolicies
    FirstCoordinator = 1
    OperatorKinds = {}
    MaxSequence = 4
    MaxWriterEpoch = 1
    MaxInterruptions = 1
    MaxLosses = 0
SPECIFICATION BackgroundSpec
CHECK_DEADLOCK FALSE
SYMMETRY MCKeySymmetry
INVARIANT LogInvariant
INVARIANT NoSplitVote
